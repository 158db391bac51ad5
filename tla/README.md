# LimCoin in TLA+

Specifications of the LimCoin node (`src/*.js` of the repository): a chain of
blocks over unspent transaction outputs, a pool of unconfirmed transactions, a
miner, a peer-to-peer network and a wallet, in one Node.js process. The modules
here model what the node does, TLC checks them on small instances, and TLAPS
proves the results about the chain for every value of the parameters.

File references are to the repository: `blockchain.js:945` is line 945 of
`src/blockchain.js`.

## 1. Inventory

The program is single threaded. A handler (a message from a peer, an HTTP
request, a timer, a worker's result) runs until it returns or awaits; only
mining, peers and the transport have steps that others can come between.
Everything else is hard because of long sequences of legal calls, failures half
way, and restarts.

| Component | State it keeps | Operations | Interacts with | What is hard | What makes it correct |
|---|---|---|---|---|---|
| **Ledger** `transactions.js`, `utxo.js` | none (pure functions) | apply and undo the transactions of a block, maturity, lock time, fees, subsidy, the rules of a block | called by chain, pool, indexes, wallet | outputs made and spent in one block, rounding of the subsidy | undo restores, no coin out of nothing |
| **Best chain** `blockchain.js` 590-1187 | `blockchain`, `uTxOuts`, `undoLog` | `addBlockToChain`, `replaceChain` (rewind or replay, validate, compare, adopt) | pool, indexes, store, p2p | several reorganisations in a row, undo data trimmed half way down, ties, the depth limit, checkpoints | `uTxOuts` and `undoLog` exact; the chain only gets heavier and keeps what is buried or pinned |
| **Indexes** `addressIndex.js`, `chainIndex.js`, `cumulativeWork` | maps by hash, transaction, address; a lazily filled list of work | apply a block, roll back to a height, fill the cache | moved by the chain, read by HTTP, RPC, p2p | rollback while the old chain is in place, transactions on both branches at other heights | a lookup says what a scan of the chain would say |
| **Memory pool** `memPool.js` | `mempool`, `meta`, listeners | `addToMempool` (replacement, making room), `updateMempool`, `selectTxsForBlock`, `reinstateTxs` | chain, miner, wallet, store | chains of unconfirmed transactions, replacement, eviction in the middle of an admission, reorganisations | no double spend, parents before children, the template is a valid block |
| **Block store and start-up** `store.js`, `blockchain.js` 142-185, 1240-1402 | block file, offsets, snapshot, saved pool, cached bodies | append, truncate, rewrite, scan, snapshot, `initChain` | chain, pool | crash between two writes, a failed append, trust in a snapshot | what is reloaded is a valid chain with its exact `uTxOuts` |
| **Mining** `blockchain.js` 289-592, `miner.js`, `pow-worker.js` | worker pool, jobs, loop flag | template, split over workers, stop, start and stop of the loop | chain, pool | results and stop messages that arrive late, restarts on a new tip | no stale block is added, every wait ends |
| **Synchronisation** `p2p.js` 660-975 | per peer: phase, headers, body buffer, in-flight range | headers, then bodies, then `replaceChain` | chain | lost or late answers, the tip moving during a sync, several peers | a node behind a heavier peer catches up; what is attached is contiguous |
| **Peers** `p2p.js` 100-660, 1030-1200 | sockets, dialled records, bans, known addresses | dial, reconnect, hello, tie-break, ban, forget | transport | timers against close handlers, double connections, limits | a wanted peer is retried; exactly one of two connections stays |
| **Transport** `transport.js` | handshake state, keys, counters, queue | key exchange, fallback to plain text, send, receive | peers | fallback timer against a late handshake, order of the queue | both sides agree on the mode, counters match |
| **Wallet** `wallet.js`, `hdwallet.js`, `bip39.js`, `keys.js`, `address.js` | seed, address indexes, lock | new address, restore with a gap limit, coin selection, passphrase | ledger, pool | restore stopping too early, a crash during a rewrite | every handed-out key is found again |
| **Script** `script.js` | none between runs; stack, branches and counters in one | evaluate, compile, parse, describe, the standard scripts | ledger, HTTP | nested branches that are off, counting signature operations, numbers with two forms, heights against times | a standard script opens for what it was made for and nothing else; work is bounded |
| **Targets, Merkle, serialisation, units** `target.js`, `merkle.js`, `serialization.js`, `units.js` | none | compact form, work, LWMA; proofs; byte formats | ledger, chain, wallet | clamps and lost digits at both ends | the target stays in range; tree and proof agree |
| **Rate limits** `rateLimit.js` | a token bucket per address, swept now and then | allow or refuse | HTTP | a clock that jumps, many addresses | no client gets more than the rate |
| **HTTP, RPC** `server.js`, `rpc.js` | the timer that locks the wallet again | parse, call, format | all | the order of calls | state changes only through the calls above |

Code outside the program's logic: parameters and word list (constants), the
release and genesis scripts, the browser front ends and documentation.

`PROJECT.json` lists every component with its status and, under `hazards`, the
places in the code where things can go wrong in ways tests hardly reach.

## 2. Plan

The modules, in the order they were written:

1. `Ledger` - the operators the chain and the pool are built from.
2. `BestChain` - the abstract promise of the chain; `Chain` - the detailed
   chain; `IndexedChain` - the chain composed with its indexes, shown to
   implement `BestChain`; `ChainProofs`.
3. `Mempool` and `Node` - the pool, and the pool composed with the chain.
4. `ChainStore` - the chain composed with block file, snapshot and start-up:
   crashes at any write, appends that fail, restarts.
5. `Mining` - the worker pool with its messages, the callers of `createNewBlock`
   and the miner's loops; every wait ends.
6. `Sync` - two nodes that exchange headers and bodies; late answers, lost
   connections, reorganisations; they catch up.
7. `Peers` - dialling, reconnecting and the tie-break of crossing connections;
   `Channel` - the abstract promise of a connection, and `Transport`, which
   implements it.
8. `Wallet` - addresses, file, lock, payments and recovery.
9. `Script` - the stack machine and the standard contracts.

Each `MC` module gives the constants of one of these for TLC.

Proofs, one module per component, in the order they were done: `ChainProofs` (with
the lemmas about `Ledger`), `TransportProofs`, `MiningProofs`, `PeersProofs`,
`IndexedProofs` (the refinement of `BestChain`, the indexes), `NodeProofs`, `StoreProofs`, `SyncProofs`.
Worth proving next: `WorkBounded` of `Script`. Worth modelling next: the saved pool, and the set of known addresses.

## 3. The modules

### Ledger

Transactions are members of `Tx`; what is in them is given by functions
(`TxIns`, `TxOuts`, `LockTime`, `TxSize`). An outpoint is a pair of a
transaction and a number. A `UTxOut` is a record of an outpoint and a height
(only a coinbase's height matters, as in `isSpendable`); address and amount
follow from the outpoint. A signature check is an outcome: a block carries
`signed`, and transactions offered to the pool are properly signed. Sizes are
small numbers in place of byte counts.

Assumptions: ids are collision free (`NothingFromNothing`: no transaction is
among its own ancestors), and a transaction with outputs has inputs, since amounts
are positive. One with neither is valid in the code and in the model. Inputs do not
repeat inside one transaction in the instances; the rule against it is modelled.
Coinbases of the same height, fee and address are one transaction whichever
branch mines them, as in the code, where nothing else enters their id.

### Chain

`addBlockToChain` is one action. `replaceChain` contains three loops and is a
sequence of steps: `StartReplace` (prefix, checkpoint and depth tests),
`RewindBlock` per block rewound, `UndoMissing` when undo data has been trimmed
and `ReplayBlock` per block replayed instead, `StartApply`, `ApplyBlock` or
`RejectBlock` per block of the branch, then `Adopt` or `RejectLighter`. The
function's locals are variables, `phase` says where it is, and no other handler
starts before it is `idle` again, exactly as in the code, which never awaits in
between. The small steps are there for the proof and the invariants of the
loops, not for interleavings.

A block's header is abstract: `headerOk`, `merkleOk` and `signed` say what the
checks decide from the header, the Merkle root and the scripts. Timestamps, the
median of the past, checkpoints, heights, links, work and every rule about
transactions are modelled. `HashAssumption` says that a valid hash commits to
the header and (through the Merkle root) to the transactions, and does not
commit to signatures: that is why a candidate's copy of a common block must
not replace our own.

`FirstTxAssumption` deserves a word. `validateCoinbaseTx`
(`transactions.js:484-514`) tests the output number of a coinbase's input against
the height and not its `txOutId`, so that the first transaction of a block may name an
output of another one, with that number. If it is there, it leaves the set, unsigned, and the
undo data brings it back; `Destroyed` counts what is lost that way. The model has
all of this. The assumption excludes one case only: a first transaction that
pays no more than what it names, which `validateTx` could therefore accept as an
ordinary one in another block. Of a transaction that is both, the code makes the same outputs
twice, and the proofs need that no output is made twice. Nothing in the code
excludes it; since the number of the output is the height, it is possible only at heights below the
number of outputs a transaction has room for, and blocks the program makes itself name none.

### IndexedChain, BestChain

`IndexedChain` moves `blockByHash`, `blockByTxId`, `byAddress` and
`cumulativeWork` along with `Chain`, in the order of the code: a reorganisation
rolls indexes back while the old chain is still there and applies the new
blocks to the set at the fork. `WorkUpTo` is the query that fills the cache.
`GenesisHash` says that no header at another height has the hash of the genesis
header; `HashAssumption` says this of valid headers, and the genesis block
need not meet its own bits. `FirstTakesNoneOfItsBlock` says that a first transaction
which names an output names none that its own block makes: `applyBlock`
(`addressIndex.js:45-75`) resolves inputs in the order of the block, so that the history of the
address would keep an output that is not in the set.
`BestChain` has one variable and one action; `Best == INSTANCE BestChain WITH
best <- blockchain` is the refinement.

### Mempool, Node

`Mempool` has the pool's operations with the chain as a parameter, as
`memPool.js` does. `addToMempool` is `BeginAdd` (validation against the
survivors of a replacement, fee rules, removal of what is replaced), then turns
of `makeRoomFor` (`EvictWorst`, `RefuseForRoom`), then `Admit`. `announced` is
the pool as the listeners of `onChange` last saw it. A call that throws before
it changes anything is no step. `Template` is `selectTxsForBlock` with the
miner's limits; which of two parents of the same generation stands first in a
template is left out. Both sorts are `InOrder`, which puts at place k the
member that k - 1 others are ahead of. Two transitive closures (`WithDescendants`, `Ancestors`)
and the filter of `updateMempool` are least and largest sets with a closure
property in place of the loops.

`Node` composes both. `NodeAddBlock` and `NodeAdopt` filter the pool in the same
step; `Reinstate` then offers the transactions of the blocks taken back, one
per step, from `queue`. Handlers start only in a `Settled` state.

### ChainStore

The chain with its disk. A line of `blocks.jsonl` is a sequence of cells (two or
three), the last with the end of line, so that an append can be torn anywhere
and torn lines can merge with the next; offsets count cells. `Stored` is
`scanBlocks`. `addBlockToChain` is `StoreAddBlock` (memory), `AppendNewBlock`,
and at the interval `PersistChainstate`, in the order of the code, with `Crash`
possible between and inside them. `SnapshotFails` is a snapshot whose write throws
(`blockchain.js:1390-1402`): chain and file stay as they are, and so does the old snapshot. In
`replaceChain` the exception leaves before the pool is filtered, the rolled-back
transactions are put back and the peers are told (`blockchain.js:1049-1051`); pool and peers are not in
this module. `AppendFails` is a write that throws there: the
block stays in memory, part of its line may be in the file, and the history variable
`damaged` is set until a restart replays the whole file. The decision of `replaceChain` is followed by
`BeginWrite` (cut at the fork), `AppendBranchBlock` per block and `FinishWrite`;
when a write throws there, `BranchWriteFails` drops the snapshot and starts
over from the file. `Restart` is `initChain`: it skips validation up to the height of
the snapshot, discards the snapshot if that height has another hash, and cuts the
file behind the first block that is refused. `Shutdown` is the handler of SIGINT
and SIGTERM. The body cache is a set of pairs of a height and a block; that the
oldest entry goes is abstracted to any earlier one. A snapshot is its height and
hash: the code reads nothing else of it.

### Mining

Callers of `createNewBlock` - the loops of `miner.js` and `POST /blocks` - share a
pool of workers. The main thread and each worker talk through FIFO queues, and
one run of a handler on the main thread, with the continuations it settles, is
one action: `Win` takes a result, adds the block, releases the workers and makes
new templates; `TipMoves` and `PoolChanges` are what other parts of the node do to
a job; `CancelIfStale` is the block of `createNewRawBlock` that finds its
template outdated. A job is named by its caller, who has at most one; a message
about a settled job is renamed `Old`. Stop messages carry a job number, but the
worker never looks at it, so they are a bare `Stop`. A thread may die (`Crash`);
its error and its exit arrive one after the other, and in between a job may be
handed to a dead worker. `clash` remembers that two jobs were live at once, or a
job was given to a pool with a dead worker: what follows from that is described
below under what the code does not keep.

### Sync

A chain is named by its last block, in a fixed tree of blocks; everything sent
is valid. Each connected pair has a FIFO queue per direction and the state
`ws.sync`. Each handler of `p2p.js` 660-975 is one action, with the locator, the
batching by count and bytes, the buffer of bodies, the append to the own tip, the
replacement by work, and the score. `Timeout` lets a request count as late
while its answer may still come; `Drop` loses what is on the way. `Discard` is a
message that its handler never sees (`p2p.js:388-394`, and `415-418` for a sealed frame that
is out of step since): it is gone and its sender is charged. Any message may be dropped so,
at any time, which is more than the rate limit does. A tip moves by `NewTip` (a block found, or
a chain taken from a node outside the model) or by the exchange; news
waits while a queue is longer than `MAX_NET`.

Three variables are history, and no action reads them. `disturbed` remembers what may
upset an exchange. `astray` marks a request that will not be answered: building it threw
(`LocatorThrows`: the fork height is past the end of a chain that got shorter), or it or its answer
was dropped; the exchange then stays as it is until the next news after the timeout. `missed` has the pairs of a
node and a peer whose present, heavier tip it will not ask for again: the news came while something was
under way (`p2p.js:709`, `717`), the exchange was given up, or a message was dropped.

### Peers

Two nodes that may each dial the other. A socket is a pair of ends
(`dialer`, `acceptor`) that open, read HELLO and close at different moments, so
that a close handler can run after its record was forgotten and made anew;
`own` says whether the record still is the one the socket was made for. Timers,
tie-break, bans and forgetting are actions; third nodes appear only as a
mishap (all sockets taken, an address passed on). At most `MAX_MISHAPS` things go
wrong or are done by hand.

### Channel, Transport

`Channel` is what the message handlers may rely on: ordered, nothing twice,
nothing made up, and everything arrives unless the connection is impaired, or an end has
been sent a whole burst: from then on time alone decides whether it drops the next frame.
`Transport` is the code: handshake, modes, queue, fallback timer, frame numbers,
rejection with points, and the rate limit ahead of it: a frame takes one of `tokens`, time
brings new ones up to `MESSAGE_BURST` at any moment or none, and a frame that finds no token
is dropped unread and charged (`Discard`, `overRateLimit`). What a message does once it is handled,
exceptions in its handler included (`p2p.js:432`), is not in this module. `Abstract == INSTANCE Channel WITH ...` maps what is on
the wire plus what waits in the sender's queue to the pending messages.
`ImplementsChannel` includes liveness: what was sent is handled.

### Wallet

One wallet with its file, the copy in memory, passphrase, lock timer, coins and
waiting payments. Every operation that writes comes in three forms: it succeeds,
the write throws (the copy is ahead of the file), or the process dies in it and
the file is torn. The first write of a new wallet (`wallet.js:282`) is part of start-up, so that a
failure there ends the process, before or in the middle of the write (`StartNew`). A torn file cannot
be read, and what the properties say of files is about those that can (`Readable`). `createTx` is `Draft`: select, change key, size, and
again while the fee is too low. `Select` is `findAmountInUTxOuts` with its
bounded search for an exact match, compared with its reference definition over
all sets of sample coins. `ScanFrom` is the recovery's scan. Bytes of inputs and
outputs are one each; a key is its mnemonic, branch and index.

### Script

One action is one round of `evaluate`'s loop. Data is a byte string with a
meaning as number and truth value, or a key, a signature, a secret or a hash,
pairwise different. The formats (`EncodeNum`, `PushData`, `Parse`, `Describe`) are
operators. The initial states choose a contract, what is offered to it and a
lock time.

### Faults

Definitions under a comment `Fault:` are not part of the specification. Each is
the next definition with a plausible bug; `PROJECT.json` pairs it with the
property that notices.

## 4. The runs

| Run | What it shows |
|---|---|
| `chain` | Over a tree of 13 branches up to height 5, in every order of blocks and candidate chains: exact `uTxOuts`, undo log, fork state, supply, indexes, address history and work cache; blocks revalidate; the chain implements `BestChain`, which keeps what is buried or pinned. |
| `node` | A pool with conflicts, children, conflicting grandchildren, a locked transaction and one on a young coinbase, between blocks and reorganisations: no double spend, parents ahead, disjoint from the chain, records and listeners up to date, valid templates, and fees that replacements never lower. Its limits never bind: the next run is about limits. |
| `full_pool` | The same transactions in a pool of three transactions and four bytes: the limits hold, eviction by eviction. |
| `store` | Crashes in every write, torn lines, failed reorganisations, failed snapshots, shutdowns, restarts with a snapshot that is older, newer or of another branch, and a clock that goes back: the reloaded chain is valid with exact `uTxOuts`, file and offsets mirror the chain, cached bodies are of the right blocks. The properties carry the condition `~damaged`: no write of `addBlockToChain` has thrown since the last replay of the whole file, which repairs it. `trusted_hole` checks the claim without that condition. |
| `mining` | Two loops of the miner, a request to mine and two workers, in every order of results, stops, new tips, new templates, deaths of a worker and a start during a stop: no worker keeps a dead job, all work on the live one, and unless two jobs met every caller and every `stop()` gets its answer. |
| `sync` | Two nodes that announce, find blocks, reorganise, time out, drop messages and lose connections: batches fit together, an undisturbed exchange is never blamed, no synchronisation waits in vain (its request or an answer to it is on the way, unless it went `astray`), a tip is given up only for a heavier one, and both end with chains of equal work, unless the lighter one `missed` the other's tip. |
| `peers` | Two nodes that dial, cross, break, ban and forget: no dialled address is lost from sight, one socket per address, and at rest exactly one connection. |
| `transport` | Every pair of modes, a right or a wrong pinned identity, timers at any moment, frames faster than they are taken: frame numbers in step until one is dropped and what becomes of them then, no plaintext without need, and the implementation of `Channel`. |
| `wallet` | Failing and torn writes, restarts, payments on unconfirmed change, a passphrase with its timer, recoveries: no address lost or given twice, each coin spent once for the right fee, no keys in a locked wallet, and a recovery that finds what is before the first gap. |
| `script` | Standard scripts against everything of a small alphabet that may be offered, every script of up to five branch operations, scripts at the limits: bounded work, right branches, exact meaning, formats that read back. |
| `two_checkpoints` | (violation) see below |
| `trusted_hole` | (violation) see below |

**Bounds.** Blocks come from a finite tree, so the state space is finite without
a counter bound. In `chain` the tree has transactions mined on two branches at
different heights, conflicting ones, one made and spent within a block
(`K`), a coinbase spent as soon as it matures (`G`), lock times by height and by
time, halvings at heights 2 and 4, a shorter heavier branch, first transactions that
name an output which is there (`Z`) or which their own branch makes only later (`Y`), and six kinds of
invalid variants. `MAX_REORG_DEPTH = 2` and `KEEP_UNDO = 1` make both limits bind
and reach the replay without undo data; one checkpoint at height 2 pins a block.
Chains of 6 blocks are enough for a reorganisation on top of a reorganisation
with a trimmed log. In `node` the block limits are 3 transactions and 4 bytes
including the coinbase, so that packages stop fitting; `KEEP_UNDO = 2` and no
depth limit allow every fork. `MAX_REPLACED = 3`, and the pool's limit of 10
transactions exceeds the eight there are.

In `store` three branches up to height 4 fork at the genesis block and two blocks
above it, and the same transaction is mined at two heights; the cache holds 2
bodies, `SNAPSHOT_INTERVAL` and `KEEP_UNDO` are 2, and the clock may show 25 or 30,
so that a block accepted by the one is refused at a restart by the other. Two
cells are enough for a line to be torn, three for lines of different lengths.

`mining` has two loops because a start during a stop makes a second one, and two
workers because a result of one has to stop the other. `MAX_CALLERS = 2` callers
mine or sleep at a time, enough for their jobs to meet; `MAX_INBOX = 0` lets
nothing *new* happen while a worker has mail, but a stop and a job still follow
each other in one queue, since one handler sends both.

In `sync` the tree is a chain of three blocks and a single block beside its second that is
heavier than that one and lighter than the third, so that either branch replaces the other. A batch has
one header or two blocks, so that a sync takes several; `DENSE = 2` makes the
locator skip hashes; `MAX_SYNC_BUFFER = 3` is not exceeded. All faults cost one point and two
make a ban, so that a node is banned after two of any kind, as after two `BAD_BLOCK`s in the program.
`MAX_NET = 1` bounds news only: answers, announcements and late answers queue up behind each other.

`peers` has two slots for sockets per node and direction, and two mishaps:
enough for a ban during a dial, a break during the other side's dial, or a forgotten address with
the old socket still open. `transport` sends up to five messages per end and takes two frames at once
(`MESSAGE_BURST = 2`): enough to be queued and sealed, to lose a frame over the rate, and to
reach the ban with the frames rejected after it, or with rejected frames alone (`FLOOD = 25`, `MALFORMED = 10`,
`BAN_THRESHOLD = 45`). `wallet` has families of bounds: up to four keys with a
gap limit of two, up to three coins, one failed write, two rounds of the fee
loop instead of four. `script` counts numbers in
base 16 instead of 256, with two bytes for counts and three for lock times, and
has `MAX_STACK = 7`, `MAX_OPS = 9`, `MAX_SIGOPS = 3`, all of which scripts of the
run meet; opcodes and lengths keep their values.

`wallet` declares its mnemonics and passphrases symmetric: no definition names
one of them, and the run has no liveness property. No other run uses symmetry.
Deadlock is checked except where the system may stop: two connected nodes with
nothing to say (`sync`), connections at rest (`peers`), all messages handled
(`transport`), the bounds of `wallet` reached, a script that ended (`script`).

**Fairness.** The chain, the pool, the store, the wallet and a script state none: they are
called or not, and every handler returns (TLC finds no deadlock in the middle of
one, and every step of a handler moves its local counters on). The
others assume no more than this:

* `Mining` - the event loop delivers messages, errors and timers, and a worker
  that keeps searching finds: the nonce range is searched with new timestamps
  without end. Nothing makes peers, pool or operator act; `CallsReturn` is
  claimed once they are quiet, since a new tip may restart a search for ever.
* `Sync` - some message under way is received (TCP and the event loop), and a
  dialled connection that is closed is made again (`scheduleReconnect`). Nothing
  closes a connection, and nothing begins a healthy one anew, as no code does;
  dropped messages, timeouts and new blocks have no fairness.
  `CatchesUp` is claimed from the moment `calm` is set, and except for what is in `missed`.
* `Peers` - socket events and reconnect timers fire and bans end. Mishaps are
  bounded, so that they stop.
* `Transport` - both ends start, frames are delivered (and handled or dropped) and timers fire. The
  promise of `Channel` has fairness of its own, which this implies.

### What the code does not keep

* `two_checkpoints` - only the highest checkpoint is compared with a fork
  (`blockchain.js:857`), and only once our chain has passed it. Between two
  checkpoints the block pinned by the lower one can be given up for a heavier
  branch that ends below it. With one checkpoint the property of `BestChain`
  holds.
* `trusted_hole` - a block whose append fails is already in the chain in memory;
  the miner carries on, the next block is appended behind the gap, and with a
  snapshot whose height the file does not reach, `initChain` accepts the
  chain with the hole unvalidated.

The following are seen in the models too. A property that would state them is
either qualified by what goes wrong, or defined and not part of a run; each
item says how to reproduce it.

Chain:

* The first transaction of a block may name an output of another transaction, as long as its number
  is the height (`validateCoinbaseTx`, `transactions.js:484-514`). The output is gone, unsigned, and the
  amounts no longer add up to the subsidies: `SupplyConserved` counts what is lost that
  way, and without `Destroyed` the run `chain` violates it. The case that `FirstTxAssumption` and
  `FirstTakesNoneOfItsBlock` exclude (chapter 3) is one the code accepts, too.

Indexes (`IndexedChain`):

* A transaction without inputs and outputs is valid (`validateTx`,
  `transactions.js:446-482`, tests nothing of it but form, id and lock time), and valid again
  once it is mined. The index of transactions has one height for an id and
  forgets it with any block that is given up (`chainIndex.js:43`), although the chain may
  still hold it below the fork; the comment at `chainIndex.js:42` says that the
  new chain puts it back in, but only blocks above the fork are applied
  again. `MinedIsFound` in `chain.cfg` with `EmptyBlock` and `EmptyCandidates` for
  `Block` and `Candidates` and no checkpoints: mined at heights 1 and 2, it is not found after
  height 2 is replaced.

Pool (`Node`):

* `makeRoomFor` (`memPool.js:269`) may evict the parent of the transaction it makes
  room for, which was validated before; the child then stands in the pool with
  an input nothing makes. `ParentsAhead` in `full_pool.cfg` shows it.
* A transaction refused in the middle of making room has evicted others
  already, and `notifyChange` is only reached on success: the saved pool and the
  miner's template are not refreshed. `ListenersKnowPool` in
  `full_pool.cfg` with `MAX_MEMPOOL_BYTES = 2`.
* `selectTxsForBlock` passes over a transaction whose coinbase became immature
  again (after a heavier, shorter branch) but keeps its children, and does not
  look at lock times again; the node then refuses its own block.
  `TemplateAlwaysValid` in `node.cfg`; `TemplateValid` is the same claim without
  such a transaction.
* `validateTx` does not ask whether a transaction names an input twice;
  `validateBlockTxs` does (`hasDuplicates`, `transactions.js:602`). The pool admits
  such a transaction, with the fee of both, and the node refuses the block of
  every template it is in, until something else removes it.
  `TemplateValid` in `node.cfg` with `tl` spending `<<ta, 1>>` twice in `MCTxIns`.

Mining:

* A stop that is sent when one of two callers is answered reaches workers that
  the other caller's job was posted to, whose promise then waits until the tip
  or the pool changes. A job handed out between a worker's error and its exit
  waits, too. `CallsReturn` and `WorkersOnJob` without `clash`.
* `start()` during a `stop()` makes a second loop beside the first; a later
  `stop()` waits for one of them only. `CallsReturn` without `running`.
* A worker that fails while no job is live has no listener for its error, which
  ends the process (`UncaughtError`).

Synchronisation:

* News that comes while blocks are on their way is passed over (`p2p.js:709-710`: "once that is over
  the news comes again"), as is news during headers in flight (`p2p.js:717`). It does not come
  again. If the peer's chain moved between its headers and its blocks, the batch is refused and
  the sync reset (`p2p.js:914`), and the node stays behind until the peer announces another block or
  connects anew. The same holds when a message is dropped over the rate, when a
  locator throws, and for a branch that is given up. `CatchesUp` without `missed` shows it.
* An honest peer is charged 50 points when the answer to a timed-out request
  comes after the request was repeated (`p2p.js:808`), or when its chain is
  reorganised between headers and blocks (`p2p.js:914`), against the comment at
  `p2p.js:875-876`. `HonestNotBlamed` in `sync.cfg`.
* The comment at `p2p.js:37-39` says that only branches are buffered; from the second
  batch on everything is. `OnlyForksBuffered` in `sync.cfg`.
* A branch longer than `MAX_SYNC_BUFFER`, or a gap longer than
  `MAX_HEADER_BUFFER`, is never caught up with: the sync is reset and starts
  over. The run keeps below both.

Peers:

* Dialling by hand (`POST /peers`) a node whose own connection to us has said
  HELLO, or crossing with a node that announces no address, is undone by the
  tie-break and tried again every second for ever. The run has public nodes.
* A dial that meets a ban leaves a record without a timer, for ever (`dead`).
  The close handler of a socket whose address was forgotten and dialled anew
  schedules a second dial (`redialed`). The properties exclude these records.
* The cap on sockets is checked when a dial starts, so that several dials under
  way may exceed it; the tie-break may close an inbound connection for a dial
  that then fails.

Transport:

* The rate limit drops a frame before it is unwrapped (`p2p.js:389-394`). On an encrypted connection
  the receiver then waits for a number that never comes: every later frame is out of step
  and charged 10 points, until the peer is banned - against `p2p.js:202-204`, where one mistake is not
  to cut a peer off. `FramesInStep` says how the numbers part; without `~ flooded[e]` it is violated.
* The fallback may fire while the other side's handshake is on its way (`late`): one end then
  talks plain and the other encrypts, and each rejects the other's frames, at 10 points each, until
  a ban. A node that does not encrypt charges 10 points for every HANDSHAKE.

Wallet:

* The file is rewritten in place. A crash in the write leaves a file that cannot
  be read, which neither start-up nor recovery replaces until it is removed.
* A failed write leaves the copy ahead of the file; addresses given out from the copy
  before the next successful write are lost at a restart. `KeysKept` counts
  only keys handed out after a successful write. `POST /me/lock` after a failed
  write that tore the file drops the only copy.
* `setPassphrase` changes the passphrase before it writes. If removing it fails,
  the wallet counts as locked or open against what the file says, with keys in
  memory; if changing it fails, the next write seals with the new one.
  `LockHolds` without `~ unsaved`.
* The fee of the last round of the loop is not checked against the size it leads to
  (`wallet.js:627`): the payment may stay below its rate. `PaymentsExact` without
  `~ t.last`, with `FEE_ROUNDS = 1` and `Rates = {2}`. Each round takes a change address for good,
  and enough payments that are never mined put change behind a gap the recovery
  does not cross. A recovery before the chain is synchronised misses addresses,
  and addresses given out but not paid are given out again after one.

Script:

* `pushData` (`script.js:136-147`) accepts up to 520 bytes and writes the length
  in one byte, so that 256 and more read back as something else. 256 in
  `MCLengths` shows it in `FormatsAgree`.
* `timeLocked` and `hashTimeLocked` accept a lock time that needs more than the
  five bytes CLTV reads; such an output is never spendable with the lock
  (lock 3000 in the run), and `describe` says its lock is null.
* `describe` throws on a script with the frame of a multisig or of a p2pkh around
  operations without data, where its comment promises `custom`.

## 5. The proofs

Checked by TLAPS, for every value of the constants that satisfies the named
assumptions of the modules: any blocks, transactions and amounts, any number of
workers, any limits.

| Module | Theorem | States |
|---|---|---|
| `ChainProofs` | `ChainInvariant` | `Spec => []ChainInv`, the inductive invariant |
| | `TypeCorrect` | `TypeOK` |
| | `UTxOutsExact` | `UTxOutsAreUnspent` |
| | `UndoExact` | `UndoRestores` |
| | `ForkStateCorrect` | `ForkStateExact` |
| | `ChainValid` | `ChainRevalidates` |
| | `NoCoinMade` | `SupplyConserved` |
| `IndexedProofs` | `IndexedIsChain` | `IndexedSpec => Spec` |
| | `ChainIsBest` | `ImplementsBestChain`, with one checkpoint at most |
| | `CheckpointKept` | `CheckpointsStay`, with one checkpoint at most |
| | `IndexedInvariant` | `IndexedSpec => []IndexedInv`, the inductive invariant |
| | `HistoryExact` | `HistoryMatchesBalance` |
| | `CachedWorkExact` | `WorkCacheExact` |
| | `IndexesFollow` | `IndexesFollowChain`, if every transaction spends something |
| `NodeProofs` | `NodeIsChain` | `NodeSpec => Spec` |
| | `NodeInvariant` | `NodeSpec => []NodeInv`, the inductive invariant |
| | `PoolStaysWithinLimits` | `PoolWithinLimits` |
| | `PoolStaysSound` | the parts of `PoolMinable` and `RecordsFollowPool` that always hold |
| | `PoolStaysMinable` | `PoolMinable`, if evictions spare the newcomer's parents |
| | `RecordsStayExact` | `RecordsFollowPool`, if no newcomer is refused for room |
| | `FeesNeverFall` | `FeesOnlyRise` |
| | `TemplatesAccepted` | `TemplateValid`, if inputs are named once, a coinbase of the right amount fits, and evictions spare the newcomer's parents |
| `StoreProofs` | `DiskInvariant` | `StoreSpec => []DiskInv`, the inductive invariant |
| | `ReloadedValid` | `ReloadedChainValid` |
| | `ReloadedExact` | `ReloadedStateExact` |
| | `FileHoldsChain` | `DiskHoldsChain` |
| | `CachedBodiesRight` | `BodiesOfChain` |
| `TransportProofs` | `TransportInvariant` | the inductive invariant |
| | `FramesAlwaysInStep` | `FramesInStep` |
| | `PlainByAgreement` | `PlainOnlyByAgreement` |
| | `TransportIsChannel` | the safety part of `ImplementsChannel` |
| `MiningProofs` | `MiningInvariant` | the inductive invariant |
| | `NobodyStrays` | `NoStrayWork`, with the types |
| | `WorkersStayOnJob` | `WorkersOnJob` |
| `PeersProofs` | `PeersInvariant` | the inductive invariant |
| | `DialsStayAlive` | `DialsAlive` |
| | `OneSocket` | `OneSocketPerAddress` |
| `SyncProofs` | `SyncInvariant` | `SyncSpec => []SyncInv`, the inductive invariant |
| | `SyncTypesHold` | `SyncTypeOK` |
| | `UndisturbedHonest` | `UndisturbedNotBlamed` |
| | `WaitsForSomething` | `NobodyWaitsInVain` |
| | `TipsOnlyGain` | `TipsGainWork` |

The first half of `ChainProofs` has the lemmas on outpoints, sets of outputs, ranks
and sums that `IndexedProofs`, `NodeProofs` and `StoreProofs` rest on too.

### The chain

That `uTxOuts` is the set of unspent outputs is not inductive. Rewinding a block
removes what it created and puts back what it consumed: the result is the
earlier set only if the block's outputs were not there before (an id is never
made twice) and nobody after it spent them. So `ChainInv` adds `Sound`: heights
count up, blocks have the shape the rules ask for, every output is made by one
transaction of the chain (`MadeOnce`), and what an ordinary transaction spends is made
before it (`MadeBeforeSpent`). `MadeOnce` is the subtle part: an ordinary
transaction that was mined before would have to spend outputs that are gone, and
a coinbase commits to its height. A first transaction that names an output is no way around it:
it is not `Backed` by what it names, so that it is never mined as an ordinary one (`FirstNotBacked`), and an ordinary
one that was mined does not find its inputs again (`FoundAgain`, `SpentAgain`). The second conjunct says the chain revalidates,
and the third (`ForkInv`) describes each loop of `replaceChain`: during the
rewind `working` is the unspent set of the first `cursor` blocks of our chain,
during the replay the same of the prefix, during validation that of the new
branch, and the new undo entries match it.

The argument by operation: `RollbackUndoes` (rollback after update is the
identity on the set), `UnspentStep` and `UnspentBack` (one block forward and
back), `SoundStep`, `UndoAppend`, `UndoTrim` and `UndoPrefix`, then one lemma per
action and `NextInv`.

**Sums.** `SupplyConserved` adds up amounts, and a sum is a fold, which would need
induction over data. `ChainProofs` gets around it by the least counterexample:
`LeastNumber` and `LeastSet` say that a property of numbers or of finite sets
that fails somewhere fails at a least place, which follows from facts of the
library about intervals and cardinality; each lemma on sums (`SumIs` to
`SumAppend`) then looks at that place. `NoCoinMade` follows block by block: what a
block creates is what its ordinary transactions consume plus its subsidy (`ChainRevalidates` holds of
it, so its coinbase takes exactly fees and subsidy), on every prefix of the chain. What its
first transaction names and finds is lost on top of that; `DestroyedStep` keeps
account of it, and an output is destroyed once, because it is made once.

**`BestChain`.** A step of `Chain` is a step of `BestChain` or leaves the chain
alone. That an adopted branch is linked and heavier is what the loop checked
(`ForkInv`); that it keeps what is pinned needs `PinInv`: while a reorganisation is
under way, its fork does not go below the last checkpoint. The code compares the
fork with the last checkpoint only, so the theorem has the hypothesis that all
checkpoints are one; with two it is false, which the run `two_checkpoints` shows.
The program ships with none.

### The indexes

`IndexedInv` is `ChainInv` and `PinInv` with `IndexesRight` and `WorkRight`.
The lookups by hash and by transaction are in it as they stand. A history is not:
that its entries add up to the balance says nothing about what is left after
`rollbackTo` has cut it at a height. `HistoryRight` therefore says it for every height: the
entries below it add up to the balance in the unspent outputs of the chain
so far, and entries are in the order of heights, so that a cut takes the end
of the list. A cached work is likewise the sum up to its own height.

Each index has a lemma for a block added and one for blocks rolled back
(`HashesStep`, `HashesBack`, `TxsStep`, `TxsBack`, `HistoryStep`, `HistoryBack`);
`RolledBackRight` and `IndexFromRight` put them together for `replaceChain`:
after the rollback the indexes are those of the common prefix, and after each block
of the branch those of the branch so far. `EntriesMove` is the heart of the histories: the
entries of a block change the balance of an address by what it receives less what
it spends, with outputs made and spent within the block counted twice.
`FilledRight` and `DroppedRight` do the same for the cache.

The index of transactions has one height for an id. It is right if no id is in two
blocks of a chain, which follows when every transaction spends something
(`ChainTxsOnce`: the second one would spend what is gone). That is the hypothesis
`EveryTxSpends` of `IndexesFollow`. It holds in the run `chain` and cannot be dropped: see
`MinedIsFound` under what the code does not keep. Templates keep it, since the pool asks for a fee, but blocks of others
need not. `HistoryExact` and `CachedWorkExact` do without it.

### The pool

`NodeInv` is `ChainInv` with `PoolInv`: the types, every entry pays (an ordinary
transaction with inputs), no output is spent twice, nothing pending is mined, the
records are those of the pool, and `AddingInv`, what an addition under way may
rely on between its turns. The subtle part is `PendingNotMined`
after a reorganisation: a transaction of the new chain cannot stay, because it
spends outputs that the new set does not have and no entry before it can make
them again (`NoneMined`, from `MadeOnce` of the chain).

Two of the properties the runs check do not hold of the program without a
hypothesis, and the theorem names it. `PoolMinable` has parents ahead of children;
when an eviction takes a parent of the newcomer it makes room for, the newcomer
is admitted without it. `PoolStaysMinable` therefore assumes `SparesParents`, that
this does not happen; everything else in `PoolMinable` is proved
without it (`PoolStaysSound`). `RecordsFollowPool` says that listeners know the
pool; when a newcomer is refused after others were evicted for it, they were
not told, so `RecordsStayExact` assumes that `RefuseForRoom` is never taken. Both
cases are described under what the code does not keep.

`FeesNeverFall` compares sums over the pool before and after a replacement:
`SplitSum` takes the family of the evicted out of the sum, and
`checkReplacement` asked for more than its fees.

`TemplatesAccepted` goes through `selectTxsForBlock` from end to end, for any family of
transactions, any graph of parents and any limits. `Minable` is what a sequence
needs to follow a coinbase: each transaction pays and is final, none spends what another
does, and each spends spendable outputs of the set or outputs of one before it.

1. The candidates are `Minable` and in the order of the pool (`CandidatesMinable`): a
   parent of a candidate is a candidate, by `StillMature`, and none of its outputs is
   confirmed already (`NotYetMade`), so that the parents of a transaction are those the pool has
   ahead of it.
2. `ByPackageRate` gives candidates (`RatePlaces`). For this rates compared
   crosswise must be a total order (`RatesCompare`), and so `InOrder` sorts (`Sorts`).
3. `ParentsFirst` puts parents first: a parent has fewer ancestors than its
   child (`Generations`, `ParentsComeFirst`). `Take` therefore keeps the selection `Packed`,
   every transaction after all its parents among the candidates, and within the limits
   (`TakeKeeps`), and so does the whole loop (`Selected`, by a least counterexample).
4. What is packed of something minable is minable (`PackedMinable`), and with a
   coinbase ahead passes every rule of `validateBlockTxs` (`HeadedAccepted`): every input is
   there when its turn comes (`HeadedValid`), and `sumBlockFees`, which counts an unknown input
   as nothing, gives the fees the rules count (`HeadedFees`).

Its hypotheses are those of the code: `SparesParents` as above; no transaction names an
input twice, which the pool does not check (see what the code does not keep); and
`CoinbaseMade`, that `createCoinbaseTx` makes a coinbase of the right amount that fits into the
400 bytes kept for it, since `Tx` is a parameter and need not hold one. `StillMature` is in
`TemplateValid` itself.

### The store

A file is read by looking for its line ends, so the first half of `StoreProofs` is about
files, not steps. `Starts(f, bs)` says that `f` begins with the lines of the blocks `bs`,
and `NoLineAfter` that what follows them ends no line; `StoredOf` then gives
`Stored(f) = bs`, and `StoredStarts` that whatever the scan finds in any file is what the
file starts with. `Holds` adds the offsets and the size in memory, and survives an append
(`HoldsAppend`), a cut at an offset (`HoldsResized`) and the cut of a start (`HoldsCut`);
a line cut short ends none (`TornLine`). `ReplayIs` says what `initChain` makes of the
blocks it finds: a prefix of them, and an exact one if every block is validated or if all of
them are valid.

`DiskInv` has a part that always holds and a part, `Exact`, that holds as long as every
block in memory could be written. `Exact` is `ChainInv` with: the file holds `OnDisk`,
which is the chain between writes, the chain without its tip while that is appended, and
what has been written of the branch while a reorganisation is; the blocks still to be written
are the rest; while the process is down, what is on disk is `Recoverable`, that is valid blocks with
at most a torn line behind them. That is why blocks under a snapshot need no
validation: when no write failed unnoticed, everything in the file is valid, whatever the
snapshot's height. The part that always holds is what a start rests on after a failed
append, when the file may have holes: the genesis block is never cut off
(`GenesisFirst`), chain and undo log are of one length (`RoughChain`), and a start that
replays the whole file makes the state exact again.

### The connection

`TransportInv` says of each end what its state means for its counters, queue and
mode (`EndInv`); of the frames on their way that the handshake goes first, that
the rest are of the sender's kind, and that sealed ones are numbered up to the
sender's counter (`WireInv`); and of both ends together that an end that has not
finished its handshake has the other's in front of it with every sealed
frame still on its way (`InStep`). Once an end has dropped a frame over the rate, the number it
waits for is behind all those on their way, and stays there: it takes none of them.
`FramesInStep` is the last part read for two
encrypted ends; it cannot be proved alone, because the counters start at a
moment when the first sealed frames are on their way already.

`TransportIsChannel` goes through the actions: a message that is sent joins the
end of the mapped sequence whether it goes out or is queued (`SendMessageSends`),
the end of a handshake seals the queue and leaves that sequence as it is
(`AgreeStutters`), what is received is its head (`AcceptHandles`), and what is
rejected or dropped is lost (`MisbehavingLoses`). `Patient` says when that may happen: between ends that
agree nothing is rejected, tokens go down by one with each frame taken, so that a frame is dropped
only after a whole burst (`DiscardLoses`), and nobody is cut off before that.

### The workers

Besides the types and `WorkersOnJob` itself, `MiningInv` says for each worker that
the last message in its inbox is never of a settled job, and that it has no job
and no messages once it is gone (`Told`), that a running miner has a loop, and that
while no two jobs met there is one live job, whose pool has not been told of a dead
worker (`OneJob`). The order in the FIFO queues is what makes it inductive:
settling a job renames it wherever it is under way, and the stop or the next job
goes behind it.

### The peers

`PeersInv` adds to `DialsAlive`, for every address not dialled anew too early, that
its socket is the only one and that there is none while its timer runs
(`Single`): without the second half the timer would make another.

### The synchronisation

`SyncInv` has three parts. `SyncTypes` is `SyncTypeOK` with the messages, whose
pieces are joined too: each block is the parent of the next. `UndisturbedRight`
says, for a pair nothing has disturbed, that the peer has no points, that what is
held is a piece of the peer's chain that starts where the two chains meet, that the blocks
still expected are those of the peer above the fork, and that exactly one
request or one answer is under way and fits: the locator leads the peer to the
place the piece ends, and the answer goes on from there (`Undisturbed`). None of
this can be left out: no blame follows only because the answer fits, the answer
fits because the locator of the request did, and that does because of what is
held. `Waits` is `NobodyWaitsInVain`. A message that is dropped disturbs its exchange and may
put it `astray`; that the other exchanges of both ends keep what they have is
`DiscardStep`.

The first third of the module is about chains in a tree, without state:
two chains that share a block share all below it (`PrefixIsChain`), a
piece after a locator starts where the locator says (`StartPlace`, `AfterPiece`), and a
batch cut off by count or bytes is a nonempty piece (`ResponsePieces`). The step of an
exchange is then a lemma each for what headers and bodies add (`HeadersTaken`,
`BlocksExpected`, `BlocksAppended`, `BlocksBuffered`). Every received message passes by
the exchange, replies, or asks, ends, throws or cuts it (`Received`), and `TookKeeps` goes
through these once for all pairs of nodes; an own new block keeps an undisturbed
exchange because the chain only grows (`StaysUndisturbed`). A branch is heavier at its
end than where it leaves our chain (`WorkGrows`), which gives `TipsOnlyGain`.

`SyncConstants` says that the blocks are a tree in which work grows from parent to
child. The runs have two nodes and five blocks; the theorems hold of any number
of nodes that synchronise at once, any tree and any limits of batches and buffers.

### Assumptions

The assumptions on the constants are those TLC evaluates in the runs
(`TxAssumption`, `NothingFromNothing`, `BlockAssumption`, `HashAssumption`, `FirstTxAssumption`,
`FirstTakesNoneOfItsBlock`, `CheckpointAssumption`, `PoolAssumption`, `TransportConstants`, `MiningConstants`, ...),
and say of types and sizes what the program's parameters satisfy. Those that say
more are explained with their module.

### Only model-checked

All liveness (`CallsReturn`, `CatchesUp`, `Settles` and the liveness in
`ImplementsChannel`), which with ENABLED is out of the prover's reach.
Wallet and script: the wallet declares a RECURSIVE operator, which the prover cannot take.
`Mempool!Only` and `ChainStore!Stored` are written with ranks in place of `SelectSeq`,
`Mempool!InOrder` with ranks in place of `SortSeq`, and `ReplayStored` and `SelectTxsForBlock` with
recursive functions in place of folds with a `LAMBDA`, which the prover cannot expand; for the same reason `TransportProofs` reads the messages of a queue place by place.

## 6. Not modelled

* **Targets** (`target.js`) work on 256-bit numbers; reduced far enough for TLC the
  clamps and the three-byte mantissa would be other ones than the program's. The
  models see `headerOk` and the work of a block.
* **Merkle trees, serialisation, units** are pure functions on bytes, which the
  repository's test vectors fix. A Merkle root appears as `merkleOk`.
* **HTTP rate limits** (`rateLimit.js`) are a token bucket per address in front of the HTTP interface,
  without state in common with anything else. (The rate limit on messages of peers is in `Transport` and `Sync`.)
* **HTTP and RPC** beyond the wallet's calls and `POST /blocks`: parsing,
  authorisation and queries.
* Parameters, word list, scripts, the browser front ends.

Within the modelled parts:

* Cryptography: signatures, hashes, key agreement and sealing are outcomes.
* The chain: difficulty (`headerOk` includes it). The chain of `Node` and
  `IndexedChain` is that of a node whose store is closed; the store has no pool,
  so that the pool kept through a reload (`blockchain.js:1017`), or through a snapshot that fails
  after a reorganisation (`blockchain.js:1047`), is not seen.
* The store: the saved pool, a replaced `genesis.json`, and a cut of the file or a removal of the
  snapshot that throws.
* Synchronisation: the relay of transactions, and the depth
  limit and checkpoints inside `replaceChain`, which are in `Chain`.
* Peers: the set of known addresses and its exchange, `MAX_OUTBOUND` (a dial beyond
  it does not happen), points below a ban, which are in `Sync`.
* Wallet: message signing, encodings, derivation, a payment whose fee is chosen by the caller.
* Script: hex, `toAsm`, the size limit of a whole script.
* Logging, wording, and the messages a handler sends at its end where no
  property depends on them.
