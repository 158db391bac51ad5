---------------------------- MODULE IndexedProofs ----------------------------
(***************************************************************************)
(* The chain with its indexes is the chain, and implements the promise of  *)
(* BestChain; its indexes and its cached work are those of the chain.      *)
(***************************************************************************)
EXTENDS IndexedChain, ChainProofs

(* The indexes take nothing away from the chain: every step of the two     *)
(* together is a step of the chain or leaves it as it is.                  *)
THEOREM IndexedIsChain == IndexedSpec => Spec
<1>1. IndexedInit => Init
  BY DEF IndexedInit
<1>2. [IndexedNext]_<<vars, indexes>> => [Next]_vars
  BY DEF IndexedNext, IndexedAddBlock, ReplaceStep, IndexedAdopt, WorkUpTo, Next
<1> QED
  BY <1>1, <1>2, PTL DEF IndexedSpec, Spec

-----------------------------------------------------------------------------
(* A reorganisation keeps the genesis block and does not go below the last *)
(* checkpoint.                                                             *)
PinInv == phase # "idle" => common # 0 /\ ~ RewritesCheckpoint(common)

(* Every step keeps it so.                                                *)
LEMMA PinStep == ChainInv' /\ PinInv /\ [Next]_vars => PinInv'
<1> SUFFICES ASSUME ChainInv', PinInv, [Next]_vars PROVE PinInv'
  OBVIOUS
<1>1. CASE UNCHANGED <<blockchain, common>> /\ (phase = "idle" => phase' = "idle")
  BY <1>1 DEF PinInv, RewritesCheckpoint
<1>2. CASE phase' = "idle"
  BY <1>2 DEF PinInv
<1>3. ASSUME NEW c \in Candidates, StartReplace(c) PROVE PinInv'
  <2>1. ~ RewritesCheckpoint(common)' /\ phase' \in {"rewind", "replay"}
    BY <1>3 DEF StartReplace, RewritesCheckpoint, store
  <2>2. chain' # << >> /\ chain' = Prefix(blockchain', common') /\ blockchain' \in Seq(Block)
    BY <2>1 DEF ChainInv, ForkInv, TypeOK
  <2>3. common' # 0
    <3>1. Len(Prefix(blockchain', 0)) = 0 /\ Prefix(blockchain', 0) \in Seq(Block)
      BY <2>2, PrefixFacts
    <3> QED
      BY <2>2, <3>1
  <2> QED
    BY <2>1, <2>3 DEF PinInv
<1> QED
  BY <1>1, <1>2, <1>3
  DEF Next, AddBlockToChain, RewindBlock, UndoMissing, ReplayBlock, StartApply, ApplyBlock,
      RejectBlock, Adopt, RejectLighter, Return, vars, store, locals

(* No reorganisation under way ever goes below what is pinned.             *)
THEOREM PinInvariant == Spec => []PinInv
<1>1. Init => PinInv
  BY DEF Init, PinInv
<1> QED
  BY <1>1, PinStep, ChainInvariant, PTL DEF Spec

(* The last checkpoint, when there is only one.                            *)
LEMMA OnlyCheckpoint ==
  ASSUME NEW cp \in Checkpoints, \A p, q \in Checkpoints : p = q
  PROVE  LastCheckpointHeight = cp[1] /\ cp[1] \in Nat
<1> DEFINE heights == {-1} \cup {p[1] : p \in Checkpoints}
           last(h) == \A g \in heights : g <= h
<1>1. cp[1] \in Nat
  BY CheckpointAssumption
<1>2. heights = {-1, cp[1]}
  OBVIOUS
<1>3. LastCheckpointHeight = CHOOSE h \in heights : last(h)
  BY DEF LastCheckpointHeight
<1>4. cp[1] \in heights /\ last(cp[1]) /\ \A h \in heights : last(h) => h = cp[1]
  BY <1>1, <1>2
<1> HIDE DEF heights, last
<1> QED
  BY <1>1, <1>3, <1>4

-----------------------------------------------------------------------------
(* Work. *)

BlockWork(c) == [i \in 1..Len(c) |-> c[i].work]

(* Every block counts.                                                     *)
LEMMA BlockWorkType ==
  ASSUME NEW b \in Block
  PROVE  b.work \in Nat \ {0}
BY BlockAssumption DEF BlockType

(* The work of a chain is a sum over its blocks...                         *)
LEMMA WorkIs ==
  ASSUME NEW c
  PROVE  Best!Work(c) = SumFunctionOnSet(BlockWork(c), 1..Len(c))
<1>1. Best!Work(c) = SumFunction(BlockWork(c))
  BY DEF Best!Work, BlockWork, SumFunction, SumFunctionOnSet, FoldFunctionOnSet, MapThenFoldSet,
         Best!SumFunction, Best!SumFunctionOnSet, Best!FoldFunctionOnSet, Best!MapThenFoldSet
<1>2. DOMAIN BlockWork(c) = 1..Len(c)
  BY DEF BlockWork
<1> QED
  BY <1>1, <1>2 DEF SumFunction

(* ... and what comes after the first n of them is the rest.               *)
LEMMA WorkType ==
  ASSUME NEW c \in Seq(Block), NEW n \in 0..Len(c)
  PROVE  /\ ChainWork(c, n) \in Int /\ Best!Work(c) \in Int
         /\ Best!Work(c) = SumFunctionOnSet(BlockWork(c), 1..n) + ChainWork(c, n)
         /\ SumFunctionOnSet(BlockWork(c), 1..n) \in Int
<1> DEFINE f == BlockWork(c)
           g == [i \in (n + 1)..Len(c) |-> c[i].work]
<1>1. \A i \in 1..Len(c) : f[i] \in Nat \ {0} /\ f[i] = c[i].work
  <2>1. ASSUME NEW i \in 1..Len(c) PROVE c[i].work \in Nat \ {0} /\ f[i] = c[i].work
    BY BlockWorkType DEF BlockWork
  <2> QED
    BY <2>1
<1>2. /\ 1..Len(c) = (1..n) \cup ((n + 1)..Len(c)) /\ (1..n) \cap ((n + 1)..Len(c)) = {}
      /\ Len(c) \in Int /\ 1 \in Int /\ n \in Int /\ n + 1 \in Int
  OBVIOUS
<1>3. IsFiniteSet(1..n) /\ IsFiniteSet((n + 1)..Len(c))
  BY <1>2, FS_Interval
<1>4. Best!Work(c) = SumFunctionOnSet(f, 1..Len(c)) /\ ChainWork(c, n) = SumFunctionOnSet(g, (n + 1)..Len(c))
  <2>1. ChainWork(c, n) = SumFunction(g) /\ DOMAIN g = (n + 1)..Len(c)
    BY DEF ChainWork
  <2> QED
    BY <2>1, WorkIs DEF SumFunction
<1> DEFINE first == 1..n
           rest == (n + 1)..Len(c)
<1>5. \A i \in rest : g[i] = f[i]
  BY <1>1
<1>6. \A i \in first \cup rest : f[i] \in Int
  BY <1>1
<1> HIDE DEF f, g
<1>7. ChainWork(c, n) = SumFunctionOnSet(f, rest)
  <2> HIDE DEF rest
  <2> QED
    BY <1>3, <1>4, <1>5, SumSame DEF rest
<1>8. SumFunctionOnSet(f, first \cup rest) = SumFunctionOnSet(f, first) + SumFunctionOnSet(f, rest)
  <2>1. IsFiniteSet(first) /\ IsFiniteSet(rest) /\ first \cap rest = {}
    BY <1>2, <1>3
  <2> HIDE DEF first, rest
  <2> QED
    BY <1>6, <2>1, SumUnion
<1>9. SumFunctionOnSet(f, first) \in Int /\ SumFunctionOnSet(f, rest) \in Int
  <2>1. IsFiniteSet(first) /\ IsFiniteSet(rest)
    BY <1>3
  <2> HIDE DEF first, rest
  <2> QED
    BY <1>6, <2>1, SumType
<1>10. first \cup rest = 1..Len(c)
  BY <1>2
<1> HIDE DEF first, rest
<1> DEFINE x == SumFunctionOnSet(f, first)
           y == SumFunctionOnSet(f, rest)
           w == Best!Work(c)
<1>11. x \in Int /\ y \in Int /\ w = x + y /\ ChainWork(c, n) = y
  BY <1>4, <1>7, <1>8, <1>9, <1>10
<1>12. w \in Int
  <2> HIDE DEF x, y, w
  <2> QED
    BY <1>11
<1> QED
  BY <1>11, <1>12 DEF f, first

(* The heavier branch makes the heavier chain.                             *)
LEMMA HeavierChain ==
  ASSUME NEW c \in Seq(Block), NEW d \in Seq(Block), NEW n \in 0..Len(c), n <= Len(d),
         \A i \in 1..n : c[i] = d[i], ChainWork(d, n) > ChainWork(c, n)
  PROVE  Best!Work(d) > Best!Work(c)
<1>1. SumFunctionOnSet(BlockWork(c), 1..n) = SumFunctionOnSet(BlockWork(d), 1..n)
  <2>1. \A i \in 1..n : BlockWork(c)[i] = BlockWork(d)[i]
    BY DEF BlockWork
  <2>2. IsFiniteSet(1..n)
    <3>1. 1 \in Int /\ n \in Int
      OBVIOUS
    <3> QED
      BY <3>1, FS_Interval
  <2> QED
    BY <2>1, <2>2, SumSame
<1> DEFINE p == SumFunctionOnSet(BlockWork(d), 1..n)
           x == ChainWork(c, n)
           y == ChainWork(d, n)
           wc == Best!Work(c)
           wd == Best!Work(d)
<1>2. p \in Int /\ x \in Int /\ y \in Int /\ wc = p + x /\ wd = p + y /\ y > x
  <2>1. n \in 0..Len(d)
    OBVIOUS
  <2> QED
    BY <1>1, <2>1, WorkType
<1> HIDE DEF p, x, y, wc, wd
<1>3. wd > wc
  BY <1>2
<1> QED
  BY <1>3 DEF wc, wd

(* A block more is more work.                                              *)
LEMMA LongerChain ==
  ASSUME NEW c \in Seq(Block), NEW b \in Block
  PROVE  Best!Work(Append(c, b)) > Best!Work(c)
<1> DEFINE d == Append(c, b)
           n == Len(c)
           f == BlockWork(d)
           g == BlockWork(c)
           wc == Best!Work(c)
           wd == Best!Work(d)
<1>1. d \in Seq(Block) /\ n \in Nat /\ Len(d) = n + 1 /\ d[n + 1] = b /\ \A i \in 1..n : d[i] = c[i]
  BY AppendGrows DEF Grows
<1>2. b.work \in Nat \ {0} /\ \A i \in 1..n : c[i].work \in Nat \ {0}
  BY BlockWorkType
<1>3. wc = SumFunctionOnSet(g, 1..n) /\ wd = SumFunctionOnSet(f, 1..(n + 1))
  BY <1>1, WorkIs
<1>4. f[n + 1] = b.work /\ \A i \in 1..n : g[i] \in Int /\ f[i] = g[i]
  BY <1>1, <1>2 DEF BlockWork
<1>5. wc \in Int
  <2>1. 0 \in 0..Len(c)
    OBVIOUS
  <2> QED
    BY <2>1, WorkType
<1> HIDE DEF f, g, wc, wd, n
<1>6. wd = wc + b.work
  <2>1. f[n + 1] \in Int
    BY <1>2, <1>4
  <2>2. SumFunctionOnSet(f, 1..(n + 1)) = SumFunctionOnSet(g, 1..n) + f[n + 1]
    BY <1>1, <1>4, <2>1, SumAppend
  <2> QED
    BY <1>3, <1>4, <2>2
<1>7. wd > wc
  BY <1>2, <1>5, <1>6
<1> QED
  BY <1>7 DEF wc, wd

-----------------------------------------------------------------------------
(* The promise of BestChain, step by step. *)

(* A chain whose blocks all pass is linked and meets the checkpoints.      *)
LEMMA LinkedAndMeets ==
  ASSUME NEW c \in Seq(Block), c # << >>, c[1] = Genesis, Revalidates(c)
  PROVE  Best!Linked(c) /\ Best!Meets(c)
<1>1. Best!Linked(c)
  BY DEF Best!Linked, Revalidates
<1>2. ASSUME NEW cp \in Checkpoints, cp[1] \in 1..(Len(c) - 1)
      PROVE  c[cp[1] + 1].hash = cp[2]
  <2>1. cp[1] + 1 \in 2..Len(c) /\ (cp[1] + 1) - 1 = cp[1]
    BY <1>2
  <2>2. ~ ViolatesCheckpoint(c[cp[1] + 1]) /\ c[cp[1] + 1].index = (cp[1] + 1) - 1
    BY <2>1 DEF Revalidates
  <2> QED
    BY <2>1, <2>2 DEF ViolatesCheckpoint
<1> QED
  BY <1>1, <1>2 DEF Best!Meets

\* The first n blocks stay.
Stay(n) == n <= Len(blockchain) /\ n <= Len(blockchain') /\ \A i \in 1..n : blockchain'[i] = blockchain[i]

(* What a step of the chain keeps: its start, and whatever is buried or at *)
(* or below the only checkpoint.                                           *)
LEMMA ChainStep ==
  ASSUME ChainInv, ChainInv', PinInv, [Next]_vars, blockchain' # blockchain
  PROVE  /\ Best!Work(blockchain') > Best!Work(blockchain)
         /\ \E n \in 1..Len(blockchain) :
              Stay(n) /\ ~ TooDeep(n) /\ (n = Len(blockchain) \/ ~ RewritesCheckpoint(n))
<1>1. blockchain \in Seq(Block) /\ blockchain' \in Seq(Block) /\ blockchain # << >>
  BY DEF ChainInv, TypeOK, StoreInv
<1>2. ASSUME NEW b \in Block, NEW now \in Clock, AddBlockToChain(b, now)
      PROVE  /\ Best!Work(blockchain') > Best!Work(blockchain)
             /\ \E n \in 1..Len(blockchain) :
                  Stay(n) /\ ~ TooDeep(n) /\ (n = Len(blockchain) \/ ~ RewritesCheckpoint(n))
  <2> DEFINE n == Len(blockchain)
  <2>1. blockchain' = Append(blockchain, b) /\ n \in 1..Len(blockchain)
    BY <1>1, <1>2 DEF AddBlockToChain
  <2>2. Stay(n)
    BY <1>1, <2>1 DEF Stay
  <2>3. ~ TooDeep(n)
    BY <1>1, BlockAssumption DEF TooDeep
  <2>5. Best!Work(blockchain') > Best!Work(blockchain)
    BY <1>1, <2>1, LongerChain
  <2> QED
    BY <2>1, <2>2, <2>3, <2>5
<1>3. CASE Adopt
  <2>1. /\ blockchain' = chain /\ phase # "idle" /\ chain \in Seq(Block)
        /\ ChainWork(chain, common) > ChainWork(blockchain, common)
    BY <1>3 DEF Adopt, Heavier, ChainInv, TypeOK
  <2>2. /\ common \in 0..Len(blockchain) /\ common <= Len(chain)
        /\ \A i \in 1..common : chain[i] = blockchain[i]
        /\ ~ TooDeep(common) /\ ~ RewritesCheckpoint(common) /\ common # 0
    BY <2>1 DEF ChainInv, ForkInv, Keeps, PinInv
  <2>4. Best!Work(chain) > Best!Work(blockchain)
    BY <1>1, <2>1, <2>2, HeavierChain
  <2>5. Stay(common) /\ common \in 1..Len(blockchain)
    BY <1>1, <2>1, <2>2 DEF Stay
  <2> QED
    BY <2>1, <2>2, <2>4, <2>5
<1> QED
  BY <1>2, <1>3
  DEF Next, vars, store, StartReplace, RewindBlock, UndoMissing, ReplayBlock, StartApply,
      ApplyBlock, RejectBlock, RejectLighter

(* So a step that moves the chain is a step of BestChain, when there is at *)
(* most one checkpoint.  With more it need not be: see CheckpointsStay.    *)
LEMMA BestStep ==
  ASSUME ChainInv, ChainInv', PinInv, [Next]_vars, blockchain' # blockchain,
         \A p, q \in Checkpoints : p = q
  PROVE  Best!Advance
<1>1. /\ blockchain \in Seq(Block) /\ blockchain # << >> /\ blockchain[1] = Genesis
      /\ blockchain' \in Seq(Block) /\ blockchain' # << >> /\ blockchain'[1] = Genesis
      /\ Revalidates(blockchain')
      /\ MAX_REORG_DEPTH \in Nat
  BY BlockAssumption DEF ChainInv, TypeOK, StoreInv
<1>2. Best!Linked(blockchain') /\ Best!Meets(blockchain')
  BY <1>1, LinkedAndMeets
<1>3. PICK n \in 1..Len(blockchain) :
        Stay(n) /\ ~ TooDeep(n) /\ (n = Len(blockchain) \/ ~ RewritesCheckpoint(n))
  BY ChainStep
<1>4. Best!Work(blockchain') > Best!Work(blockchain)
  BY ChainStep
<1>5. \A m \in 0..n : Best!Keeps(blockchain', m)
  BY <1>1, <1>3 DEF Stay, Best!Keeps
<1>6. Best!Buried \in 0..n
  BY <1>1, <1>3 DEF TooDeep, Best!Buried
<1>7. ASSUME NEW m \in Best!Pinned PROVE m \in 0..n
  <2>1. PICK cp \in Checkpoints : cp[1] < Len(blockchain) /\ m = cp[1] + 1
    BY <1>7 DEF Best!Pinned
  <2>2. LastCheckpointHeight = cp[1] /\ cp[1] \in Nat
    BY OnlyCheckpoint
  <2>3. CASE n = Len(blockchain)
    BY <1>1, <2>1, <2>2, <2>3
  <2>4. CASE ~ RewritesCheckpoint(n)
    BY <1>1, <2>1, <2>2, <2>4 DEF RewritesCheckpoint
  <2> QED
    BY <1>3, <2>3, <2>4
<1> QED
  BY <1>1, <1>2, <1>4, <1>5, <1>6, <1>7 DEF Best!Advance

(* Whatever the node keeps beside its blocks to deliver it, the best chain *)
(* only moves to a linked, valid and heavier chain from the same genesis,  *)
(* and keeps what is buried and what the checkpoint pins.                  *)
THEOREM ChainIsBest ==
  ASSUME \A p, q \in Checkpoints : p = q
  PROVE  IndexedSpec => ImplementsBestChain
<1>1. Init => Best!Init
  BY DEF Init, Best!Init
<1>2. ChainInv /\ ChainInv' /\ PinInv /\ [Next]_vars => [Best!Advance]_blockchain
  BY BestStep
<1>3. Spec => Best!Spec
  BY <1>1, <1>2, ChainInvariant, PinInvariant, PTL DEF Spec, Best!Spec
<1> QED
  BY <1>3, IndexedIsChain, PTL DEF ImplementsBestChain

(* A block pinned by the only checkpoint is never given up.                *)
THEOREM CheckpointKept ==
  ASSUME \A p, q \in Checkpoints : p = q
  PROVE  IndexedSpec => CheckpointsStay
<1>1. ChainInv /\ ChainInv' /\ PinInv /\ [Next]_vars =>
        [\A cp \in Checkpoints :
           Len(blockchain) > cp[1] =>
             /\ Len(blockchain') > cp[1]
             /\ blockchain'[cp[1] + 1] = blockchain[cp[1] + 1]]_blockchain
  <2> SUFFICES ASSUME ChainInv, ChainInv', PinInv, [Next]_vars, blockchain' # blockchain,
                      NEW cp \in Checkpoints, Len(blockchain) > cp[1]
               PROVE  /\ Len(blockchain') > cp[1]
                      /\ blockchain'[cp[1] + 1] = blockchain[cp[1] + 1]
    OBVIOUS
  <2>1. Best!Keeps(blockchain', cp[1] + 1)
    BY BestStep DEF Best!Advance, Best!Pinned
  <2>2. cp[1] \in Nat /\ Len(blockchain') \in Nat
    BY CheckpointAssumption DEF ChainInv, TypeOK
  <2> QED
    BY <2>1, <2>2 DEF Best!Keeps
<1> QED
  BY <1>1, ChainInvariant, PinInvariant, IndexedIsChain, PTL DEF Spec, CheckpointsStay

-----------------------------------------------------------------------------
(* The lookups. *)

\* No two blocks of a chain have the same hash.
HashesOnce(c) == \A i, j \in 1..Len(c) : c[i].hash = c[j].hash => i = j

\* Every transaction of a block spends something: without this, one that
\* makes nothing either can be mined again and again.
EveryTxSpends == \A b \in Block : \A k \in DOMAIN b.data : Spends(b.data[k]) # {}

\* No transaction is in two blocks of a chain.
TxsOnce(c) == \A i, j \in 1..Len(c) : Range(c[i].data) \cap Range(c[j].data) # {} => i = j

\* A lookup of hashes, or of transactions, says what a scan of c would.
HashesRight(index, c) ==
  /\ DOMAIN index = Hash
  /\ \A h \in Hash : /\ \A i \in 1..Len(c) : c[i].hash = h => index[h] = i - 1
                     /\ (\A i \in 1..Len(c) : c[i].hash # h) => index[h] = Unknown

TxsRight(index, c) ==
  /\ DOMAIN index = Tx
  /\ \A t \in Tx : /\ \A i \in 1..Len(c) : t \in Range(c[i].data) => index[t] = i - 1
                   /\ (\A i \in 1..Len(c) : t \notin Range(c[i].data)) => index[t] = Unknown

(* A hash commits to the height.                                           *)
LEMMA ChainHashesOnce ==
  ASSUME NEW c \in Seq(Block), Sound(c), Revalidates(c)
  PROVE  c # << >> /\ c[1] = Genesis => HashesOnce(c)
<1> SUFFICES ASSUME c # << >>, c[1] = Genesis,
                    NEW i \in 1..Len(c), NEW j \in 1..Len(c), c[i].hash = c[j].hash
             PROVE  i = j
  BY DEF HashesOnce
<1>1. \A k \in 1..Len(c) : c[k] \in Block /\ c[k].index = k - 1 /\ k \in Nat
  BY DEF Sound, Heights
<1>2. \A k \in 1..Len(c) : k # 1 => c[k].headerOk
  BY DEF Revalidates
<1>3. CASE i # 1 /\ j # 1
  BY <1>1, <1>2, <1>3, HashAssumption
<1>4. CASE i = 1
  BY <1>1, <1>2, <1>4, GenesisHash
<1>5. CASE j = 1
  BY <1>1, <1>2, <1>5, GenesisHash
<1> QED
  BY <1>3, <1>4, <1>5

(* A transaction of an accepted block that spends something is not in the  *)
(* chain already: what it spends would be gone, or made a second time.     *)
LEMMA NewSpender ==
  ASSUME NEW c \in Seq(Block), Sound(c),
         NEW b \in Block, b.index = Len(c), NEW mtp,
         ValidateBlockTxs(b.data, Unspent(c), b.index, mtp),
         NEW k \in 1..Len(b.data), Spends(b.data[k]) # {}
  PROVE  ~ Has(c, b.data[k])
<1> DEFINE txs == b.data
<1> SUFFICES ASSUME Has(c, txs[k]) PROVE FALSE
  OBVIOUS
<1>1. BlockShape(b) /\ txs \in Seq(Tx)
  BY ValidShape, BlockFields
<1>2. k # 1
  BY <1>1, NewCoinbase
<1>3. PICK o \in Spends(txs[k]) : TRUE
  OBVIOUS
<1>4. k \in 2..Len(txs) /\ txs[k] \in Tx
  BY <1>1, <1>2
<1>5. Backed(txs[k])
  BY <1>1, <1>4 DEF BlockShape
<1>6. PICK u \in SeenBy(k, txs, Unspent(c), b.index) : u.out = o
  BY <1>3, <1>4 DEF ValidateBlockTxs, ValidateTx, ValidateTxIn
<1>7. u \notin Unspent(c)
  BY <1>3, <1>4, <1>5, <1>6, SpentAgain
<1>8. PICK j \in 2..(k - 1) : o \in Creates(txs[j])
  BY <1>6, <1>7, SeenOuts
<1>9. PICK i \in 1..Len(c) : \E h \in 1..i : o \in CreatedBy(c[h].data)
  BY <1>3, <1>4, <1>5, FoundAgain
<1>10. PICK h \in 1..i : o \in CreatedBy(c[h].data)
  BY <1>9
<1>11. o \in CreatedBy(txs) /\ h \in 1..Len(c)
  BY <1>1, <1>4, <1>8 DEF CreatedBy
<1> QED
  BY <1>10, <1>11, NewOutputs

(* Two blocks of a chain share no transaction that spends something.       *)
LEMMA ChainTxsOnce ==
  ASSUME NEW c \in Seq(Block), Sound(c), Revalidates(c), EveryTxSpends
  PROVE  TxsOnce(c)
<1>1. ASSUME NEW i \in 1..Len(c), NEW j \in 1..Len(c), i < j,
             NEW t \in Range(c[i].data) \cap Range(c[j].data)
      PROVE  FALSE
  <2> DEFINE p == Prefix(c, j - 1)
  <2>1. j \in 2..Len(c) /\ j - 1 \in 0..Len(c) /\ i \in 1..(j - 1) /\ c[j] \in Block
    BY <1>1
  <2>2. p \in Seq(Block) /\ Len(p) = j - 1 /\ p[i] = c[i] /\ Sound(p)
    BY <2>1, PrefixFacts, PrefixSound
  <2>3. TxsAccepted(c[j], Unspent(p), p) /\ c[j].index = j - 1
    BY <2>1 DEF Revalidates
  <2>4. PICK k \in DOMAIN c[j].data : c[j].data[k] = t
    BY <1>1 DEF Range
  <2>5. PICK m \in DOMAIN c[i].data : c[i].data[m] = t
    BY <1>1 DEF Range
  <2>6. c[j].data \in Seq(Tx) /\ c[i].data \in Seq(Tx) /\ Spends(c[j].data[k]) # {}
    BY <1>1, <2>1, <2>4, BlockFields DEF EveryTxSpends
  <2>7. Has(p, c[j].data[k])
    BY <2>1, <2>2, <2>4, <2>5, <2>6 DEF Has
  <2>8. k \in 1..Len(c[j].data)
    BY <2>6
  <2> HIDE DEF p
  <2>9. \E mtp : ValidateBlockTxs(c[j].data, Unspent(p), c[j].index, mtp)
    BY <2>3 DEF TxsAccepted
  <2> QED
    BY <2>1, <2>2, <2>3, <2>6, <2>7, <2>8, <2>9, NewSpender
<1>2. ASSUME NEW i \in 1..Len(c), NEW j \in 1..Len(c),
             Range(c[i].data) \cap Range(c[j].data) # {}
      PROVE  i = j
  <2>1. ~ (i < j) /\ ~ (j < i)
    BY <1>1, <1>2
  <2> QED
    BY <2>1
<1> QED
  BY <1>2 DEF TxsOnce

(* A block that is added enters the lookups.                               *)
LEMMA HashesStep ==
  ASSUME NEW c \in Seq(Block), NEW b \in Block, NEW d, Grows(d, c, b), HashesOnce(d),
         b.index = Len(c), NEW index, HashesRight(index, c)
  PROVE  HashesRight(HashesApply(index, b), d)
<1> DEFINE new == HashesApply(index, b)
<1>1. DOMAIN new = Hash /\ \A h \in Hash : new[h] = IF h = b.hash THEN b.index ELSE index[h]
  BY DEF HashesApply, HashesRight
<1>2. /\ Len(c) \in Nat /\ 1..Len(d) = 1..Len(c) \cup {Len(d)} /\ d[Len(d)] = b
      /\ Len(d) - 1 = Len(c) /\ \A i \in 1..Len(c) : d[i] = c[i] /\ i # Len(d)
  BY DEF Grows
<1>3. Len(d) \in 1..Len(d) /\ \A i \in 1..Len(c) : d[i].hash # b.hash
  <2>1. Len(d) \in 1..Len(d) /\ \A i \in 1..Len(c) : i \in 1..Len(d)
    BY <1>2
  <2> QED
    BY <1>2, <2>1 DEF HashesOnce
<1> HIDE DEF new
<1>4. ASSUME NEW h \in Hash
      PROVE  /\ \A i \in 1..Len(d) : d[i].hash = h => new[h] = i - 1
             /\ (\A i \in 1..Len(d) : d[i].hash # h) => new[h] = Unknown
  <2>1. CASE h = b.hash
    BY <1>1, <1>2, <1>3, <2>1
  <2>2. CASE h # b.hash
    <3>1. new[h] = index[h] /\ d[Len(d)].hash # h
      BY <1>1, <1>2, <2>2
    <3> QED
      BY <1>2, <3>1 DEF HashesRight
  <2> QED
    BY <2>1, <2>2
<1>5. HashesRight(new, d)
  BY <1>1, <1>4 DEF HashesRight
<1> QED
  BY <1>5 DEF new

(* A new block puts its transactions under its height (applyBlock).       *)
LEMMA TxsStep ==
  ASSUME NEW c \in Seq(Block), NEW b \in Block, NEW d, Grows(d, c, b), TxsOnce(d),
         b.index = Len(c), NEW index, TxsRight(index, c)
  PROVE  TxsRight(TxsApply(index, b), d)
<1> DEFINE new == TxsApply(index, b)
<1>1. DOMAIN new = Tx
      /\ \A t \in Tx : new[t] = IF t \in Range(b.data) THEN b.index ELSE index[t]
  BY DEF TxsApply, TxsRight
<1>2. /\ Len(c) \in Nat /\ 1..Len(d) = 1..Len(c) \cup {Len(d)} /\ d[Len(d)] = b
      /\ Len(d) - 1 = Len(c) /\ \A i \in 1..Len(c) : d[i] = c[i] /\ i # Len(d)
  BY DEF Grows
<1>3. \A t \in Tx, i \in 1..Len(c) : t \in Range(d[i].data) => t \notin Range(b.data)
  <2>1. ASSUME NEW t \in Tx, NEW i \in 1..Len(c), t \in Range(d[i].data), t \in Range(b.data)
        PROVE  FALSE
    <3>1. i \in 1..Len(d) /\ Len(d) \in 1..Len(d) /\ i # Len(d)
      BY <1>2
    <3> QED
      BY <1>2, <2>1, <3>1 DEF TxsOnce
  <2> QED
    BY <2>1
<1> HIDE DEF new
<1>4. ASSUME NEW t \in Tx
      PROVE  /\ \A i \in 1..Len(d) : t \in Range(d[i].data) => new[t] = i - 1
             /\ (\A i \in 1..Len(d) : t \notin Range(d[i].data)) => new[t] = Unknown
  <2>1. CASE t \in Range(b.data)
    <3>1. Len(d) \in 1..Len(d) /\ new[t] = b.index
      BY <1>1, <1>2, <2>1
    <3> QED
      BY <1>2, <1>3, <2>1, <3>1
  <2>2. CASE t \notin Range(b.data)
    <3>1. new[t] = index[t] /\ t \notin Range(d[Len(d)].data)
      BY <1>1, <1>2, <2>2
    <3> QED
      BY <1>2, <3>1 DEF TxsRight
  <2> QED
    BY <2>1, <2>2
<1>5. TxsRight(new, d)
  BY <1>1, <1>4 DEF TxsRight
<1> QED
  BY <1>5 DEF new

(* What is cut off a chain.                                                *)
LEMMA CutOff ==
  ASSUME NEW c \in Seq(Block), NEW n \in 0..Len(c)
  PROVE  LET gone == SubSeq(c, n + 1, Len(c))
         IN  /\ DOMAIN gone = 1..(Len(c) - n)
             /\ \A i \in 1..(Len(c) - n) : gone[i] = c[n + i] /\ n + i \in 1..Len(c)
             /\ \A j \in 1..Len(c) : j > n => j - n \in DOMAIN gone /\ gone[j - n] = c[j]
<1> DEFINE gone == SubSeq(c, n + 1, Len(c))
<1>1. /\ Len(c) \in Nat /\ n \in Nat
      /\ gone \in Seq(Block) /\ Len(gone) = Len(c) - n
      /\ \A i \in 1..(Len(c) - n) : gone[i] = c[n + i]
  OBVIOUS
<1> HIDE DEF gone
<1>2. /\ DOMAIN gone = 1..(Len(c) - n) /\ \A i \in 1..(Len(c) - n) : n + i \in 1..Len(c)
      /\ \A j \in 1..Len(c) : j > n => j - n \in 1..(Len(c) - n) /\ n + (j - n) = j
  BY <1>1
<1>3. \A j \in 1..Len(c) : j > n => j - n \in DOMAIN gone /\ gone[j - n] = c[j]
  BY <1>1, <1>2
<1> QED
  BY <1>1, <1>2, <1>3 DEF gone

(* Blocks that are cut off leave the lookups, and what stays is found as   *)
(* before: no hash and no transaction is on both sides of the cut.         *)
LEMMA HashesBack ==
  ASSUME NEW c \in Seq(Block), NEW n \in 0..Len(c), HashesOnce(c),
         NEW index, HashesRight(index, c)
  PROVE  HashesRight(HashesRollback(index, SubSeq(c, n + 1, Len(c))), Prefix(c, n))
<1> DEFINE gone == SubSeq(c, n + 1, Len(c))
           new == HashesRollback(index, gone)
           p == Prefix(c, n)
<1>1. DOMAIN new = Hash
      /\ \A h \in Hash : new[h] = IF \E i \in DOMAIN gone : gone[i].hash = h THEN Unknown ELSE index[h]
  BY DEF HashesRollback
<1>2. Len(p) = n /\ \A i \in 1..n : p[i] = c[i] /\ i \in 1..Len(c)
  BY PrefixFacts
<1>3. /\ DOMAIN gone = 1..(Len(c) - n)
      /\ \A i \in 1..(Len(c) - n) : gone[i] = c[n + i] /\ n + i \in 1..Len(c)
      /\ \A j \in 1..Len(c) : j > n => j - n \in DOMAIN gone /\ gone[j - n] = c[j]
  BY CutOff
<1> HIDE DEF gone, new, p
<1>4. \A h \in Hash, i \in 1..n : c[i].hash = h => ~ \E j \in DOMAIN gone : gone[j].hash = h
  <2>1. ASSUME NEW i \in 1..n, NEW j \in 1..(Len(c) - n), gone[j].hash = c[i].hash PROVE FALSE
    <3>1. i = n + j
      BY <1>2, <1>3, <2>1 DEF HashesOnce
    <3> QED
      BY <3>1
  <2> QED
    BY <1>3, <2>1
<1>5. ASSUME NEW h \in Hash, \A i \in 1..n : c[i].hash # h,
             ~ \E j \in DOMAIN gone : gone[j].hash = h
      PROVE  \A i \in 1..Len(c) : c[i].hash # h
  <2>1. \A i \in 1..Len(c) : i \in 1..n \/ i > n
    OBVIOUS
  <2> QED
    BY <1>3, <1>5, <2>1
<1>6. \A h \in Hash : /\ \A i \in 1..n : c[i].hash = h => new[h] = i - 1
                      /\ (\A i \in 1..n : c[i].hash # h) => new[h] = Unknown
  BY <1>1, <1>2, <1>4, <1>5 DEF HashesRight
<1>7. HashesRight(new, p)
  BY <1>1, <1>2, <1>6 DEF HashesRight
<1> QED
  BY <1>7 DEF new, p, gone

(* Rolling back the blocks above n leaves the transactions up to it.      *)
LEMMA TxsBack ==
  ASSUME NEW c \in Seq(Block), NEW n \in 0..Len(c), TxsOnce(c),
         NEW index, TxsRight(index, c)
  PROVE  TxsRight(TxsRollback(index, SubSeq(c, n + 1, Len(c))), Prefix(c, n))
<1> DEFINE gone == SubSeq(c, n + 1, Len(c))
           new == TxsRollback(index, gone)
           p == Prefix(c, n)
<1>1. DOMAIN new = Tx
      /\ \A t \in Tx : new[t] = IF \E i \in DOMAIN gone : t \in Range(gone[i].data) THEN Unknown ELSE index[t]
  BY DEF TxsRollback
<1>2. Len(p) = n /\ \A i \in 1..n : p[i] = c[i] /\ i \in 1..Len(c)
  BY PrefixFacts
<1>3. /\ DOMAIN gone = 1..(Len(c) - n)
      /\ \A i \in 1..(Len(c) - n) : gone[i] = c[n + i] /\ n + i \in 1..Len(c)
      /\ \A j \in 1..Len(c) : j > n => j - n \in DOMAIN gone /\ gone[j - n] = c[j]
  BY CutOff
<1> HIDE DEF gone, new, p
<1>4. \A t \in Tx, i \in 1..n :
        t \in Range(c[i].data) => ~ \E j \in DOMAIN gone : t \in Range(gone[j].data)
  <2>1. ASSUME NEW t \in Tx, NEW i \in 1..n, NEW j \in 1..(Len(c) - n),
               t \in Range(c[i].data), t \in Range(gone[j].data)
        PROVE  FALSE
    <3>1. i = n + j
      BY <1>2, <1>3, <2>1 DEF TxsOnce
    <3> QED
      BY <3>1
  <2> QED
    BY <1>3, <2>1
<1>5. ASSUME NEW t \in Tx, \A i \in 1..n : t \notin Range(c[i].data),
             ~ \E j \in DOMAIN gone : t \in Range(gone[j].data)
      PROVE  \A i \in 1..Len(c) : t \notin Range(c[i].data)
  <2>1. \A i \in 1..Len(c) : i \in 1..n \/ i > n
    OBVIOUS
  <2> QED
    BY <1>3, <1>5, <2>1
<1>6. \A t \in Tx : /\ \A i \in 1..n : t \in Range(c[i].data) => new[t] = i - 1
                    /\ (\A i \in 1..n : t \notin Range(c[i].data)) => new[t] = Unknown
  BY <1>1, <1>2, <1>4, <1>5 DEF TxsRight
<1>7. TxsRight(new, p)
  BY <1>1, <1>2, <1>6 DEF TxsRight
<1> QED
  BY <1>7 DEF new, p, gone


-----------------------------------------------------------------------------
(* The history of an address. *)

\* What of some outpoints, and of a set of unspent outputs, is an address's.
Mine(a, outs) == {o \in outs : AddressOf(o) = a}
Balance(a, U) == Value(Mine(a, Outs(U)))

Entries == [txId : Tx, blockIndex : Nat, received : Nat, spent : Nat]

\* What the entries of a history change, and those below a height together.
Changes(h) == [i \in DOMAIN h |-> h[i].received - h[i].spent]
Below(h, n) == {i \in DOMAIN h : h[i].blockIndex < n}

(* A history of an address over c: the entries are in the order of their   *)
(* blocks, and up to any height they add up to the balance there.          *)
HistoryRight(h, a, c) ==
  /\ h \in Seq(Entries)
  /\ \A i, j \in DOMAIN h : i <= j => h[i].blockIndex <= h[j].blockIndex
  /\ \A i \in DOMAIN h : h[i].blockIndex < Len(c)
  /\ \A n \in 0..Len(c) :
       SumFunctionOnSet(Changes(h), Below(h, n)) = Balance(a, Unspent(Prefix(c, n)))

(* The places of a list are finitely many.                                 *)
LEMMA FinitePlaces ==
  ASSUME NEW n \in Nat, NEW S \in SUBSET (1..n)
  PROVE  IsFiniteSet(S)
<1>1. 1 \in Int /\ n \in Int
  OBVIOUS
<1>2. IsFiniteSet(1..n)
  BY <1>1, FS_Interval
<1> QED
  BY <1>2, FS_Subset

(* What some outputs of a transaction add up to.                           *)
LEMMA OutputsAt ==
  ASSUME NEW t \in Tx, NEW N \in SUBSET DOMAIN TxOuts[t]
  PROVE  LET outs == {<<t, n - 1>> : n \in N}
         IN  /\ IsFiniteSet(outs) /\ outs \subseteq Creates(t)
             /\ SumFunction([n \in N |-> TxOuts[t][n].amount]) = Value(outs)
             /\ Value(outs) \in Nat
<1> DEFINE f == [i \in N |-> TxOuts[t][i].amount]
           h == [i \in N |-> <<t, i - 1>>]
           outs == {<<t, n - 1>> : n \in N}
<1>1. TxOuts[t] \in Seq([address : Address, amount : Nat])
  BY TxAssumption
<1>2. DOMAIN TxOuts[t] = 1..Len(TxOuts[t]) /\ Len(TxOuts[t]) \in Nat
  BY <1>1
<1>3. IsFiniteSet(N)
  BY <1>2, FinitePlaces
<1>4. {h[i] : i \in N} = outs /\ outs \subseteq Creates(t)
  BY DEF Creates
<1>5. ASSUME NEW i \in N PROVE f[i] \in Nat /\ f[i] = Amount[h[i]] /\ i \in Nat \ {0}
  <2>1. i \in Nat \ {0} /\ TxOuts[t][i].amount \in Nat
    BY OutputType
  <2>2. h[i] \in Tx \X Nat /\ h[i][1] = t /\ h[i][2] + 1 = i
    BY <2>1
  <2>3. Amount[h[i]] = TxOuts[t][i].amount
    BY <2>2 DEF Amount, AmountOf
  <2> QED
    BY <2>1, <2>3
<1>6. \A i, j \in N : h[i] = h[j] => i = j
  <2>1. ASSUME NEW i \in N, NEW j \in N, h[i] = h[j] PROVE i = j
    <3>1. i - 1 = j - 1 /\ i \in Nat /\ j \in Nat
      BY <1>5, <2>1
    <3> QED
      BY <3>1
  <2> QED
    BY <2>1
<1>7. SumFunction(f) = SumFunctionOnSet(f, N)
  BY DEF SumFunction
<1>8. IsFiniteSet({h[i] : i \in N})
  <2>1. h \in Surjection(N, {h[i] : i \in N})
    BY DEF Surjection
  <2> QED
    BY <1>3, <2>1, FS_Surjection
<1> HIDE DEF f, h, outs
<1>9. SumFunctionOnSet(Amount, {h[i] : i \in N}) = SumFunctionOnSet(f, N)
  BY <1>3, <1>5, <1>6, SumRenamed
<1>10. SumFunctionOnSet(f, N) \in Nat
  BY <1>3, <1>5, SumType
<1> QED
  BY <1>4, <1>7, <1>8, <1>9, <1>10 DEF Value, f, outs

(* What some inputs of a transaction add up to.                            *)
LEMMA InputsAt ==
  ASSUME NEW t \in Tx, IsInjective(TxIns[t]), NEW I \in SUBSET DOMAIN TxIns[t],
         \A i \in I : \E p \in Tx : TxIns[t][i] \in Creates(p)
  PROVE  LET ins == {TxIns[t][i] : i \in I}
         IN  /\ IsFiniteSet(ins) /\ ins \subseteq Spends(t)
             /\ SumFunction([i \in I |-> AmountOf(TxIns[t][i])]) = Value(ins)
             /\ Value(ins) \in Nat
<1> DEFINE h == TxIns[t]
           f == [i \in I |-> AmountOf(h[i])]
           g == [i \in I |-> h[i]]
           ins == {h[i] : i \in I}
<1>1. h \in Seq(Outpoint)
  BY TxAssumption
<1>2. DOMAIN h = 1..Len(h) /\ Len(h) \in Nat
  BY <1>1
<1>3. IsFiniteSet(I)
  BY <1>2, FinitePlaces
<1>4. {g[i] : i \in I} = ins /\ ins \subseteq Spends(t)
  BY DEF Spends, Range
<1>5. ASSUME NEW i \in I PROVE f[i] \in Nat /\ f[i] = Amount[g[i]]
  <2>1. Amount[h[i]] = AmountOf(h[i]) /\ Amount[h[i]] \in Nat
    BY AmountType
  <2> QED
    BY <2>1
<1>6. \A i, j \in I : g[i] = g[j] => i = j
  BY DEF IsInjective
<1>7. SumFunction(f) = SumFunctionOnSet(f, I)
  BY DEF SumFunction
<1>8. IsFiniteSet({g[i] : i \in I})
  <2>1. g \in Surjection(I, {g[i] : i \in I})
    BY DEF Surjection
  <2> QED
    BY <1>3, <2>1, FS_Surjection
<1> HIDE DEF f, h, g, ins
<1>9. SumFunctionOnSet(Amount, {g[i] : i \in I}) = SumFunctionOnSet(f, I)
  BY <1>3, <1>5, <1>6, SumRenamed
<1>10. SumFunctionOnSet(f, I) \in Nat
  BY <1>3, <1>5, SumType
<1> QED
  BY <1>4, <1>7, <1>8, <1>9, <1>10 DEF Value, f, h, ins

(* Where every term is 0, so is the sum.                                   *)
LEMMA SumOfNothing ==
  ASSUME NEW f, NEW S, IsFiniteSet(S), \A x \in S : f[x] = 0
  PROVE  SumFunctionOnSet(f, S) = 0
<1>1. \A x \in S : f[x] \in Int /\ f[x] = f[x] - f[x]
  OBVIOUS
<1>2. SumFunctionOnSet(f, S) = SumFunctionOnSet(f, S) - SumFunctionOnSet(f, S)
  BY <1>1, SumMinus
<1>3. SumFunctionOnSet(f, S) \in Int
  BY <1>1, SumType
<1> QED
  BY <1>2, <1>3

-----------------------------------------------------------------------------
(* What a block does to an address. *)

\* Of what transaction k of b makes, and of what it takes from the set U or
\* from the block before it, the outpoints of an address.
Gained(a, b, k) == Mine(a, Creates(b.data[k]))
Lost(a, b, k, U) == Mine(a, {o \in Spends(b.data[k]) : Resolves(o, b, k, U)})

(* What a transaction of a block that validates spends is resolved, but    *)
(* for what the first one names.                                           *)
LEMMA InputsResolve ==
  ASSUME NEW U, NEW b \in Block, NEW mtp, ValidateBlockTxs(b.data, U, b.index, mtp),
         NEW k \in 2..Len(b.data), NEW o \in Spends(b.data[k])
  PROVE  Resolves(o, b, k, U)
<1> DEFINE txs == b.data
<1>1. txs \in Seq(Tx)
  BY BlockFields
<1>2. PICK u \in SeenBy(k, txs, U, b.index) : u.out = o
  BY DEF ValidateBlockTxs, ValidateTx, ValidateTxIn
<1>3. CASE u \in U
  BY <1>2, <1>3 DEF Resolves, Outs
<1>4. CASE \E j \in 2..(k - 1) : u.out \in Creates(txs[j])
  <2>1. PICK j \in 2..(k - 1) : u.out \in Creates(txs[j])
    BY <1>4
  <2> DEFINE before == SubSeq(txs, 1, k - 1)
  <2>2. j \in DOMAIN before /\ before[j] = txs[j]
    BY <1>1, <2>1
  <2>3. o \in CreatedBy(before)
    <3> HIDE DEF before
    <3> QED
      BY <1>2, <2>1, <2>2 DEF CreatedBy
  <2> QED
    BY <2>3 DEF Resolves
<1> QED
  BY <1>2, <1>3, <1>4, SeenOuts

(* What is resolved was made: it is in the set or an output of the block.  *)
LEMMA ResolvedIsMade ==
  ASSUME NEW U, NEW b \in Block, NEW k \in DOMAIN b.data, NEW o, Resolves(o, b, k, U)
  PROVE  o \in Outs(U) \cup CreatedBy(b.data)
<1> DEFINE before == SubSeq(b.data, 1, k - 1)
<1>1. b.data \in Seq(Tx) /\ k \in 1..Len(b.data)
  BY BlockFields
<1>2. \A i \in DOMAIN before : i \in DOMAIN b.data /\ before[i] = b.data[i]
  BY <1>1
<1> HIDE DEF before
<1>3. CreatedBy(before) \subseteq CreatedBy(b.data)
  BY <1>2 DEF CreatedBy
<1> QED
  BY <1>3 DEF Resolves, before

(* What AddressEntry says of transaction k of a block that validates.      *)
LEMMA EntryIs ==
  ASSUME NEW c \in Seq(Block), NEW b \in Block, NEW mtp,
         ValidateBlockTxs(b.data, Unspent(c), b.index, mtp),
         Counted(Outs(Unspent(c))), NEW k \in DOMAIN b.data, NEW a \in Address
  PROVE  LET e == AddressEntry(a, b, k, Unspent(c))
         IN  /\ e \in Entries /\ e.blockIndex = b.index
             /\ IsFiniteSet(Gained(a, b, k)) /\ e.received = Value(Gained(a, b, k))
             /\ IsFiniteSet(Lost(a, b, k, Unspent(c))) /\ e.spent = Value(Lost(a, b, k, Unspent(c)))
             /\ k \notin Touching(a, b, Unspent(c)) => Gained(a, b, k) = {} /\ Lost(a, b, k, Unspent(c)) = {}
             /\ \A o \in Gained(a, b, k) \cup Lost(a, b, k, Unspent(c)) : \E p \in Tx : o \in Creates(p)
<1> DEFINE U == Unspent(c)
           txs == b.data
           t == txs[k]
           N == ReceivedOf(a, b, k)
           I == SpentOf(a, b, k, U)
           e == AddressEntry(a, b, k, U)
<1>1. /\ txs \in Seq(Tx) /\ b.index \in Nat /\ t \in Tx /\ BlockShape(b) /\ U \in SUBSET UTxOut
      /\ Len(txs) \in Nat /\ DOMAIN txs = 1..Len(txs) /\ k \in 1..Len(txs)
  <2>1. txs \in Seq(Tx) /\ b.index \in Nat
    BY BlockFields
  <2>2. BlockShape(b) /\ U \in SUBSET UTxOut
    BY ValidShape, UnspentType
  <2> QED
    BY <2>1, <2>2
<1>2. {<<t, n - 1>> : n \in N} = Gained(a, b, k) /\ N \in SUBSET DOMAIN TxOuts[t]
  <2>1. ASSUME NEW n \in DOMAIN TxOuts[t] PROVE AddressOf(<<t, n - 1>>) = TxOuts[t][n].address
    <3>1. n \in Nat \ {0}
      BY <1>1, OutputType
    <3>2. (n - 1) + 1 = n
      BY <3>1
    <3> QED
      BY <3>2 DEF AddressOf
  <2> QED
    BY <2>1 DEF Gained, Mine, Creates, ReceivedOf
<1>3. /\ IsFiniteSet(Gained(a, b, k)) /\ Gained(a, b, k) \subseteq Creates(t)
      /\ SumFunction([n \in N |-> TxOuts[t][n].amount]) = Value(Gained(a, b, k))
      /\ Value(Gained(a, b, k)) \in Nat
  <2> HIDE DEF t, N
  <2> QED
    BY <1>1, <1>2, OutputsAt
<1>4. \A o : Resolves(o, b, k, U) => \E p \in Tx : o \in Creates(p)
  <2> SUFFICES ASSUME NEW o, Resolves(o, b, k, U) PROVE \E p \in Tx : o \in Creates(p)
    OBVIOUS
  <2>1. o \in Outs(U) \cup CreatedBy(txs)
    BY <1>1, ResolvedIsMade
  <2>2. o \in CreatedBy(txs) => \E p \in Tx : o \in Creates(p)
    BY <1>1 DEF CreatedBy
  <2> QED
    BY <2>1, <2>2 DEF Counted
<1>5. {TxIns[t][i] : i \in I} = Lost(a, b, k, U) /\ I \in SUBSET DOMAIN TxIns[t]
  BY DEF Lost, Mine, SpentOf, Spends, Range
<1>6. /\ IsFiniteSet(Lost(a, b, k, U))
      /\ SumFunction([i \in I |-> AmountOf(TxIns[t][i])]) = Value(Lost(a, b, k, U))
      /\ Value(Lost(a, b, k, U)) \in Nat
      /\ \A o \in Lost(a, b, k, U) : \E p \in Tx : o \in Creates(p)
  <2>1. IsInjective(TxIns[t])
    BY <1>1 DEF ValidateBlockTxs, NoDuplicateInputs
  <2>2. \A o \in Lost(a, b, k, U) : \E p \in Tx : o \in Creates(p)
    BY <1>4 DEF Lost, Mine
  <2>3. \A i \in I : \E p \in Tx : TxIns[t][i] \in Creates(p)
    BY <1>5, <2>2
  <2> HIDE DEF t, I
  <2> QED
    BY <1>1, <1>5, <2>1, <2>2, <2>3, InputsAt
<1>7. e = [txId |-> t, blockIndex |-> b.index, received |-> Value(Gained(a, b, k)),
           spent |-> Value(Lost(a, b, k, U))]
  BY <1>3, <1>6 DEF AddressEntry
<1>8. k \notin Touching(a, b, U) => Gained(a, b, k) = {} /\ Lost(a, b, k, U) = {}
  <2>1. k \notin Touching(a, b, U) => N = {} /\ I = {}
    BY DEF Touching
  <2> QED
    BY <1>2, <1>5, <2>1
<1> HIDE DEF e
<1>9. e \in Entries
  BY <1>1, <1>3, <1>6, <1>7 DEF Entries
<1> QED
  BY <1>1, <1>3, <1>6, <1>7, <1>8, <1>9 DEF e


(* No block accounts for an output twice: what transactions gain, and what *)
(* they lose, is apart.                                                    *)
LEMMA PartsApart ==
  ASSUME NEW b \in Block, IsInjective(b.data), NoDuplicateInputs(b.data), NEW a, NEW U
  PROVE  \A j, k \in DOMAIN b.data : j # k =>
           /\ Gained(a, b, j) \cap Gained(a, b, k) = {}
           /\ Lost(a, b, j, U) \cap Lost(a, b, k, U) = {}
<1> SUFFICES ASSUME NEW j \in DOMAIN b.data, NEW k \in DOMAIN b.data, j # k
             PROVE  /\ Gained(a, b, j) \cap Gained(a, b, k) = {}
                    /\ Lost(a, b, j, U) \cap Lost(a, b, k, U) = {}
  OBVIOUS
<1>1. b.data \in Seq(Tx) /\ b.data[j] \in Tx /\ b.data[k] \in Tx
  BY BlockFields
<1>2. b.data[j] # b.data[k]
  BY DEF IsInjective
<1>3. Creates(b.data[j]) \cap Creates(b.data[k]) = {}
  BY <1>1, <1>2, CreatesType
<1>4. Spends(b.data[j]) \cap Spends(b.data[k]) = {}
  BY DEF NoDuplicateInputs
<1> QED
  BY <1>3, <1>4 DEF Gained, Lost, Mine

\* The outputs of an address a block makes, and those it spends.
GainedIn(a, b) == UNION {Gained(a, b, k) : k \in DOMAIN b.data}
LostIn(a, b, U) == UNION {Lost(a, b, k, U) : k \in DOMAIN b.data}

(* A block moves the balance of an address by what it gains and loses.     *)
LEMMA BalanceMoves ==
  ASSUME NEW c \in Seq(Block), NEW b \in Block, NEW d, Grows(d, c, b), Sound(d),
         NEW mtp, ValidateBlockTxs(b.data, Unspent(c), b.index, mtp),
         Counted(Outs(Unspent(c))), NEW a \in Address,
         Counted(GainedIn(a, b)), Counted(LostIn(a, b, Unspent(c)))
  PROVE  /\ Balance(a, Unspent(d)) = Balance(a, Unspent(c)) + Value(GainedIn(a, b)) - Value(LostIn(a, b, Unspent(c)))
         /\ Balance(a, Unspent(c)) \in Int /\ Balance(a, Unspent(d)) \in Int
         /\ Value(GainedIn(a, b)) \in Int /\ Value(LostIn(a, b, Unspent(c))) \in Int
<1> DEFINE U == Unspent(c)
           txs == b.data
           old == Mine(a, Outs(Unspent(c)))
           new == Mine(a, Outs(Unspent(d)))
           in == GainedIn(a, b)
           out == LostIn(a, b, U)
<1>1. /\ txs \in Seq(Tx) /\ Len(txs) \in Nat /\ DOMAIN txs = 1..Len(txs) /\ BlockShape(b)
  <2>1. BlockShape(b)
    BY ValidShape, UnspentType
  <2> QED
    BY <2>1, BlockFields
<1>2. in = Mine(a, CreatedBy(txs))
  BY DEF GainedIn, Gained, Mine, CreatedBy
<1>3. \A o \in Outs(U) \cup CreatedBy(txs) :
        AddressOf(o) = a /\ o \in SpentBy(txs) => o \in out
  <2> SUFFICES ASSUME NEW o \in Outs(U) \cup CreatedBy(txs), AddressOf(o) = a,
                      NEW k \in DOMAIN txs, o \in Spends(txs[k])
               PROVE  o \in out
    BY DEF SpentBy
  <2>1. Resolves(o, b, k, U)
    <3>1. CASE k = 1
      <4>1. txs # << >>
        BY <1>1, <3>1
      <4>2. o \notin CreatedBy(txs)
        BY <3>1, <4>1, FirstTakesNoneOfItsBlock
      <4> QED
        BY <4>2 DEF Resolves
    <3>2. CASE k # 1
      <4>1. k \in 2..Len(txs)
        BY <1>1, <3>2
      <4> HIDE DEF U, txs
      <4> QED
        BY <4>1, InputsResolve DEF U, txs
    <3> QED
      BY <3>1, <3>2
  <2>2. o \in Lost(a, b, k, U)
    BY <2>1 DEF Lost, Mine
  <2> QED
    BY <2>2 DEF LostIn
<1>4. \A o \in out : /\ o \in SpentBy(txs) /\ AddressOf(o) = a
                     /\ o \in Outs(U) \cup CreatedBy(txs)
  <2> SUFFICES ASSUME NEW k \in DOMAIN txs, NEW o \in Lost(a, b, k, U)
               PROVE  /\ o \in SpentBy(txs) /\ AddressOf(o) = a
                      /\ o \in Outs(U) \cup CreatedBy(txs)
    BY DEF LostIn
  <2>1. o \in Spends(txs[k]) /\ AddressOf(o) = a /\ Resolves(o, b, k, U)
    BY DEF Lost, Mine
  <2>2. o \in Outs(U) \cup CreatedBy(txs)
    BY <2>1, ResolvedIsMade
  <2> QED
    BY <2>1, <2>2 DEF SpentBy
<1>6. Outs(Unspent(d)) = {o \in Outs(Unspent(c)) \cup CreatedBy(txs) : o \notin SpentBy(txs)}
  <2>1. Unspent(d) = UpdateUTxOuts(txs, Unspent(c), b.index)
    BY <1>1, UnspentStep
  <2>2. Outs(New(CreatedBy(txs), b.index)) = CreatedBy(txs)
    BY OutsOfNew
  <2> QED
    BY <2>1, <2>2 DEF Outs, UpdateUTxOuts
<1>7. Outs(Unspent(c)) \cap CreatedBy(txs) = {}
  <2>1. \A u \in Unspent(c) : u.out \notin CreatedBy(txs)
    BY NewNotUnspent DEF Sound
  <2> QED
    BY <2>1 DEF Outs
<1>8. new \cup out = old \cup in /\ new \cap out = {} /\ old \cap in = {}
  BY <1>2, <1>3, <1>4, <1>6, <1>7 DEF Mine
<1>9. Counted(old)
  <2>1. old \in SUBSET Outs(Unspent(c))
    BY DEF Mine
  <2> QED
    BY <2>1, FS_Subset DEF Counted
<1> HIDE DEF U, old, new, in, out
<1>10. /\ Counted(old \cup in) /\ Value(old) \in Int /\ Value(in) \in Int
       /\ Value(old \cup in) = Value(old) + Value(in)
  BY <1>8, <1>9, CountedUnion DEF in, U
<1>11. Counted(new)
  <2>1. new \in SUBSET (old \cup in)
    BY <1>8
  <2> QED
    BY <1>10, <2>1, FS_Subset DEF Counted
<1>12. Value(new) \in Int /\ Value(out) \in Int /\ Value(new \cup out) = Value(new) + Value(out)
  BY <1>8, <1>11, CountedUnion DEF out, U
<1>13. Value(new) = Value(old) + Value(in) - Value(out)
  <2> DEFINE x == Value(new)
             y == Value(old)
             v == Value(in)
             w == Value(out)
  <2>1. x \in Int /\ y \in Int /\ v \in Int /\ w \in Int /\ x + w = y + v
    BY <1>8, <1>10, <1>12
  <2> HIDE DEF x, y, v, w
  <2>2. x = y + v - w
    BY <2>1
  <2> QED
    BY <2>2 DEF x, y, v, w
<1> QED
  BY <1>10, <1>12, <1>13 DEF Balance, old, new, in, out, U

\* All the outpoints of some sets of them.
AllOf(p, K) == UNION {p[k] : k \in K}

(* What sets of outpoints that share nothing are worth together.           *)
LEMMA ValueOfAll ==
  ASSUME NEW K, IsFiniteSet(K), NEW p, NEW v,
         \A k \in K : IsFiniteSet(p[k]) /\ v[k] = Value(p[k]),
         \A k \in K : \A o \in p[k] : Amount[o] \in Int,
         \A j, k \in K : j # k => p[j] \cap p[k] = {}
  PROVE  Value(AllOf(p, K)) = SumFunctionOnSet(v, K)
<1>1. \A k \in K : IsFiniteSet(p[k]) /\ v[k] = SumFunctionOnSet(Amount, p[k])
  BY DEF Value
<1>2. /\ IsFiniteSet(K) /\ \A k \in K : \A o \in p[k] : Amount[o] \in Int
      /\ \A j, k \in K : j # k => p[j] \cap p[k] = {}
  OBVIOUS
<1>3. SumFunctionOnSet(Amount, UNION {p[k] : k \in K}) = SumFunctionOnSet(v, K)
  BY ONLY <1>1, <1>2, SumFamily
<1> QED
  BY <1>3 DEF Value, AllOf

(* The entries a block makes for an address move its history by the same.  *)
LEMMA EntriesMove ==
  ASSUME NEW c \in Seq(Block), NEW b \in Block, NEW d, Grows(d, c, b), Sound(d),
         NEW mtp, ValidateBlockTxs(b.data, Unspent(c), b.index, mtp),
         Counted(Outs(Unspent(c))), NEW a \in Address
  PROVE  LET es == BlockEntries(a, b, Unspent(c))
         IN  /\ es \in Seq(Entries) /\ \A i \in DOMAIN es : es[i].blockIndex = b.index
             /\ SumFunctionOnSet(Changes(es), 1..Len(es))
                  = Balance(a, Unspent(d)) - Balance(a, Unspent(c))
             /\ Balance(a, Unspent(c)) \in Int /\ Balance(a, Unspent(d)) \in Int
<1> DEFINE U == Unspent(c)
           txs == b.data
           K == DOMAIN txs
           T == Touching(a, b, U)
           size == Cardinality(T)
           place(i) == CHOOSE k \in T : Cardinality({j \in T : j <= k}) = i
           es == BlockEntries(a, b, U)
           gained == [k \in K |-> Gained(a, b, k)]
           lost == [k \in K |-> Lost(a, b, k, U)]
           plus == [k \in K |-> Value(Gained(a, b, k))]
           minus == [k \in K |-> Value(Lost(a, b, k, U))]
           move == [k \in K |-> plus[k] - minus[k]]
<1>1. /\ txs \in Seq(Tx) /\ Len(txs) \in Nat /\ K = 1..Len(txs) /\ IsFiniteSet(K)
      /\ T \in SUBSET K /\ IsFiniteSet(T) /\ IsFiniteSet(K \ T)
      /\ NoDuplicateInputs(txs) /\ IsInjective(txs)
  <2>1. txs \in Seq(Tx) /\ T \in SUBSET K
    BY BlockFields DEF Touching
  <2>2. Len(txs) \in Nat /\ K = 1..Len(txs)
    BY <2>1
  <2>3. IsFiniteSet(K) /\ IsFiniteSet(T) /\ IsFiniteSet(K \ T)
    <3>1. T \in SUBSET (1..Len(txs)) /\ K \ T \in SUBSET (1..Len(txs)) /\ K \in SUBSET (1..Len(txs))
      BY <2>1, <2>2
    <3> QED
      BY <2>2, <3>1, FinitePlaces
  <2> QED
    BY <2>1, <2>2, <2>3 DEF ValidateBlockTxs
<1>2. \A k \in K : /\ gained[k] = Gained(a, b, k) /\ lost[k] = Lost(a, b, k, U)
                   /\ plus[k] = Value(gained[k]) /\ minus[k] = Value(lost[k])
                   /\ move[k] = plus[k] - minus[k]
  OBVIOUS
<1>3. gained = [k \in K |-> Gained(a, b, k)] /\ lost = [k \in K |-> Lost(a, b, k, U)]
  OBVIOUS
<1> HIDE DEF gained, lost, plus, minus, move
<1>4. ASSUME NEW k \in K
      PROVE  LET e == AddressEntry(a, b, k, U)
             IN  /\ e \in Entries /\ e.blockIndex = b.index
                 /\ IsFiniteSet(gained[k]) /\ IsFiniteSet(lost[k])
                 /\ e.received = plus[k] /\ e.spent = minus[k]
                 /\ k \notin T => gained[k] = {} /\ lost[k] = {}
                 /\ \A o \in gained[k] \cup lost[k] : \E p \in Tx : o \in Creates(p)
  <2> DEFINE e == AddressEntry(a, b, k, U)
  <2>1. /\ e \in Entries /\ e.blockIndex = b.index
        /\ IsFiniteSet(Gained(a, b, k)) /\ e.received = Value(Gained(a, b, k))
        /\ IsFiniteSet(Lost(a, b, k, U)) /\ e.spent = Value(Lost(a, b, k, U))
        /\ k \notin Touching(a, b, Unspent(c)) => Gained(a, b, k) = {} /\ Lost(a, b, k, U) = {}
        /\ \A o \in Gained(a, b, k) \cup Lost(a, b, k, U) : \E p \in Tx : o \in Creates(p)
    BY EntryIs
  <2> HIDE DEF e, K
  <2> QED
    BY <1>2, <2>1 DEF e
<1>5. \A k \in K : plus[k] \in Int /\ minus[k] \in Int /\ move[k] \in Int
  <2> SUFFICES ASSUME NEW k \in K PROVE plus[k] \in Int /\ minus[k] \in Int /\ move[k] \in Int
    OBVIOUS
  <2>1. plus[k] \in Nat /\ minus[k] \in Nat
    BY <1>4 DEF Entries
  <2> QED
    BY <1>2, <2>1
<1>6. size \in Nat /\ \A i \in 1..size : place(i) \in T /\ Rank(place(i), T) = i
  <2>1. size \in Nat /\ \A i \in 1..size : \E k \in T : Rank(k, T) = i
    BY <1>1, Ranks
  <2>2. \A i \in 1..size : place(i) \in T /\ Cardinality({j \in T : j <= place(i)}) = i
    BY <2>1 DEF Rank
  <2> QED
    BY <2>1, <2>2 DEF Rank
<1>7. \A k \in T : \E i \in 1..size : place(i) = k
  <2> SUFFICES ASSUME NEW k \in T PROVE \E i \in 1..size : place(i) = k
    OBVIOUS
  <2>1. Rank(k, T) \in 1..size
    BY <1>1, Ranks
  <2>2. place(Rank(k, T)) \in T /\ Rank(place(Rank(k, T)), T) = Rank(k, T)
    BY <1>6, <2>1
  <2> DEFINE m == place(Rank(k, T))
  <2>3. m = k
    <3>1. m \in Nat /\ k \in Nat
      BY <1>1, <2>2
    <3>2. Rank(m, T) \in Nat
      BY <2>1, <2>2
    <3>3. \A i, j \in T : i < j => Rank(i, T) < Rank(j, T)
      BY <1>1, Ranks
    <3> HIDE DEF m
    <3>4. ~ (m < k) /\ ~ (k < m)
      BY <2>1, <2>2, <3>2, <3>3 DEF m
    <3> QED
      BY <3>1, <3>4
  <2> QED
    BY <2>1, <2>3
<1>8. /\ DOMAIN es = 1..size /\ es \in Seq(Entries) /\ Len(es) = size
      /\ \A i \in 1..size : es[i] = AddressEntry(a, b, place(i), U)
  <2>1. es = [i \in 1..size |-> AddressEntry(a, b, place(i), U)]
    BY DEF BlockEntries
  <2>2. \A i \in 1..size : AddressEntry(a, b, place(i), U) \in Entries
    BY <1>1, <1>4, <1>6
  <2> HIDE DEF es, size, T, U, place
  <2> QED
    BY <1>6, <2>1, <2>2
<1>9. SumFunctionOnSet(Changes(es), 1..size) = SumFunctionOnSet(move, T)
  <2> DEFINE h == [i \in 1..size |-> place(i)]
             g == Changes(es)
             I == 1..size
  <2>1. ASSUME NEW i \in I PROVE g[i] \in Int /\ g[i] = move[h[i]]
    <3>1. place(i) \in K /\ h[i] = place(i)
      BY <1>1, <1>6
    <3>2. es[i].received = plus[h[i]] /\ es[i].spent = minus[h[i]]
      BY <1>4, <1>8, <3>1
    <3>3. g[i] = es[i].received - es[i].spent
      BY <1>8 DEF Changes
    <3>4. h[i] \in K
      BY <3>1
    <3> HIDE DEF es, K, h, g
    <3>5. g[i] = plus[h[i]] - minus[h[i]]
      BY <3>2, <3>3
    <3> QED
      BY <1>2, <1>5, <3>4, <3>5
  <2>2. \A i, j \in I : h[i] = h[j] => i = j
    <3>1. \A i \in I : h[i] = place(i)
      OBVIOUS
    <3>2. \A i \in I : Rank(h[i], T) = i
      BY <1>6, <3>1
    <3> HIDE DEF h, I, T
    <3> QED
      BY <3>2
  <2>3. {h[i] : i \in I} = T
    <3>1. \A i \in I : h[i] \in T
      BY <1>6
    <3>2. \A k \in T : \E i \in I : h[i] = k
      BY <1>7
    <3> HIDE DEF h, I, T
    <3> QED
      BY <3>1, <3>2
  <2>4. IsFiniteSet(I)
    BY <1>6, FinitePlaces
  <2> HIDE DEF h, g, I
  <2>5. \A i \in I : g[i] \in Int /\ g[i] = move[h[i]]
    BY <2>1
  <2>6. SumFunctionOnSet(move, {h[i] : i \in I}) = SumFunctionOnSet(g, I)
    BY <2>2, <2>4, <2>5, SumRenamed
  <2> QED
    BY <2>3, <2>6 DEF g, I
<1>10. SumFunctionOnSet(move, T) = SumFunctionOnSet(move, K)
  <2>1. \A k \in K \ T : move[k] = 0
    <3> SUFFICES ASSUME NEW k \in K \ T PROVE move[k] = 0
      OBVIOUS
    <3>1. gained[k] = {} /\ lost[k] = {}
      BY <1>4
    <3>2. plus[k] = minus[k] /\ plus[k] \in Int /\ move[k] = plus[k] - minus[k]
      BY <1>2, <1>5, <3>1
    <3> QED
      BY <3>2
  <2>2. SumFunctionOnSet(move, K \ T) = 0
    <3> DEFINE rest == K \ T
    <3>1. IsFiniteSet(rest) /\ \A k \in rest : move[k] = 0
      BY <1>1, <2>1
    <3> HIDE DEF rest
    <3>2. SumFunctionOnSet(move, rest) = 0
      BY <3>1, SumOfNothing
    <3> QED
      BY <3>2 DEF rest
  <2>3. SumFunctionOnSet(move, K) = SumFunctionOnSet(move, T) + SumFunctionOnSet(move, K \ T)
    <3> DEFINE rest == K \ T
    <3>1. /\ IsFiniteSet(T) /\ IsFiniteSet(rest) /\ T \cap rest = {} /\ K = T \cup rest
          /\ \A k \in T \cup rest : move[k] \in Int
      BY <1>1, <1>5
    <3> HIDE DEF rest, T, K
    <3>2. SumFunctionOnSet(move, T \cup rest) = SumFunctionOnSet(move, T) + SumFunctionOnSet(move, rest)
      BY <3>1, SumUnion
    <3> QED
      BY <3>1, <3>2 DEF rest
  <2>4. SumFunctionOnSet(move, T) \in Int
    <3>1. IsFiniteSet(T) /\ \A k \in T : move[k] \in Int
      BY <1>1, <1>5
    <3> HIDE DEF T
    <3> QED
      BY <3>1, SumType
  <2> QED
    BY <2>2, <2>3, <2>4
<1>11. SumFunctionOnSet(move, K) = SumFunctionOnSet(plus, K) - SumFunctionOnSet(minus, K)
  <2>1. \A k \in K : plus[k] \in Int /\ minus[k] \in Int /\ move[k] = plus[k] - minus[k]
    BY <1>2, <1>5
  <2> HIDE DEF K
  <2> QED
    BY <1>1, <2>1, SumMinus
<1>12. /\ \A k \in K : \A o \in gained[k] \cup lost[k] : Amount[o] \in Int
       /\ \A j, k \in K : j # k => gained[j] \cap gained[k] = {} /\ lost[j] \cap lost[k] = {}
  <2>1. \A k \in K : \A o \in gained[k] \cup lost[k] : Amount[o] \in Int
    BY <1>4, AmountType
  <2>2. \A j, k \in K : j # k => gained[j] \cap gained[k] = {} /\ lost[j] \cap lost[k] = {}
    BY <1>1, <1>2, PartsApart
  <2> QED
    BY <2>1, <2>2
<1>13. GainedIn(a, b) = AllOf(gained, K) /\ LostIn(a, b, U) = AllOf(lost, K)
  BY <1>2 DEF GainedIn, LostIn, AllOf
<1>14. Value(GainedIn(a, b)) = SumFunctionOnSet(plus, K) /\ Value(LostIn(a, b, U)) = SumFunctionOnSet(minus, K)
  <2>1. \A k \in K : /\ IsFiniteSet(gained[k]) /\ plus[k] = Value(gained[k])
                    /\ IsFiniteSet(lost[k]) /\ minus[k] = Value(lost[k])
    BY <1>2, <1>4
  <2>2. IsFiniteSet(K)
    BY <1>1
  <2> HIDE DEF K
  <2>3. Value(AllOf(gained, K)) = SumFunctionOnSet(plus, K)
    BY <1>12, <2>1, <2>2, ValueOfAll
  <2>4. Value(AllOf(lost, K)) = SumFunctionOnSet(minus, K)
    BY <1>12, <2>1, <2>2, ValueOfAll
  <2> QED
    BY <1>13, <2>3, <2>4
<1>15. Counted(GainedIn(a, b)) /\ Counted(LostIn(a, b, U))
  <2>1. IsFiniteSet({gained[k] : k \in K}) /\ IsFiniteSet({lost[k] : k \in K})
    <3>1. /\ gained \in Surjection(K, {gained[k] : k \in K})
          /\ lost \in Surjection(K, {lost[k] : k \in K})
      BY <1>3 DEF Surjection
    <3> QED
      BY <1>1, <3>1, FS_Surjection
  <2>2. IsFiniteSet(UNION {gained[k] : k \in K}) /\ IsFiniteSet(UNION {lost[k] : k \in K})
    <3>1. \A s \in {gained[k] : k \in K} : IsFiniteSet(s)
      BY <1>4
    <3>2. \A s \in {lost[k] : k \in K} : IsFiniteSet(s)
      BY <1>4
    <3> QED
      BY <2>1, <3>1, <3>2, FS_UNION
  <2> QED
    BY <1>4, <1>13, <2>2 DEF Counted, AllOf
<1>16. /\ Balance(a, Unspent(d)) = Balance(a, U) + Value(GainedIn(a, b)) - Value(LostIn(a, b, U))
       /\ Balance(a, U) \in Int /\ Balance(a, Unspent(d)) \in Int
       /\ Value(GainedIn(a, b)) \in Int /\ Value(LostIn(a, b, U)) \in Int
  BY <1>15, BalanceMoves
<1>17. SumFunctionOnSet(Changes(es), 1..size) = Balance(a, Unspent(d)) - Balance(a, U)
  <2>1. SumFunctionOnSet(Changes(es), 1..size) = Value(GainedIn(a, b)) - Value(LostIn(a, b, U))
    BY <1>9, <1>10, <1>11, <1>14
  <2> DEFINE x == Balance(a, Unspent(d))
             y == Balance(a, U)
             v == Value(GainedIn(a, b))
             w == Value(LostIn(a, b, U))
  <2>2. x = y + v - w /\ x \in Int /\ y \in Int /\ v \in Int /\ w \in Int
    BY <1>16
  <2> HIDE DEF x, y, v, w
  <2>3. v - w = x - y
    BY <2>2
  <2> QED
    BY <2>1, <2>3 DEF x, y, v, w
<1>18. ASSUME NEW i \in 1..size PROVE es[i].blockIndex = b.index
  <2>1. place(i) \in K /\ es[i] = AddressEntry(a, b, place(i), U)
    BY <1>1, <1>6, <1>8
  <2> QED
    BY <1>4, <2>1
<1> QED
  BY <1>8, <1>16, <1>17, <1>18


-----------------------------------------------------------------------------
(* The history through blocks that are added and taken back. *)

\* f has the k terms of g and then the n terms of h.
Joins(f, g, k, h, n) ==
  /\ \A i \in 1..k : g[i] \in Int /\ f[i] = g[i]
  /\ \A i \in 1..n : h[i] \in Int /\ f[k + i] = h[i]

(* A list after another adds up to the sum of both.                        *)
LEMMA SumJoined ==
  ASSUME NEW k \in Nat, NEW n \in Nat, NEW f, NEW g, NEW h, Joins(f, g, k, h, n)
  PROVE  SumFunctionOnSet(f, 1..(k + n)) = SumFunctionOnSet(g, 1..k) + SumFunctionOnSet(h, 1..n)
<1> DEFINE first == 1..k
           rest == {k + i : i \in 1..n}
           to == [i \in 1..n |-> k + i]
           I == 1..n
<1>1. IsFiniteSet(first) /\ IsFiniteSet(I)
  BY FinitePlaces
<1>2. first \cap rest = {} /\ first \cup rest = 1..(k + n)
  <2>1. ASSUME NEW i \in 1..(k + n), i \notin first PROVE i \in rest
    <3>1. i - k \in 1..n /\ i = k + (i - k)
      BY <2>1
    <3> QED
      BY <3>1
  <2>2. \A i \in 1..n : k + i \in 1..(k + n) /\ k + i \notin first
    OBVIOUS
  <2>3. \A i \in first : i \in 1..(k + n)
    OBVIOUS
  <2> HIDE DEF first
  <2> QED
    BY <2>1, <2>2, <2>3
<1>3. \A i \in first : f[i] \in Int /\ f[i] = g[i]
  BY DEF Joins
<1>4. \A i \in I : h[i] \in Int /\ h[i] = f[to[i]] /\ to[i] = k + i
  BY DEF Joins
<1>5. \A i, j \in I : to[i] = to[j] => i = j
  OBVIOUS
<1>6. {to[i] : i \in I} = rest
  BY <1>4
<1>7. IsFiniteSet(rest)
  <2>1. to \in Surjection(I, {to[i] : i \in I})
    BY DEF Surjection
  <2> HIDE DEF to, I, rest
  <2> QED
    BY <1>1, <1>6, <2>1, FS_Surjection
<1>8. \A i \in rest : f[i] \in Int
  BY <1>4
<1> HIDE DEF first, rest, to, I
<1>9. SumFunctionOnSet(f, rest) = SumFunctionOnSet(h, I)
  <2>1. SumFunctionOnSet(f, {to[i] : i \in I}) = SumFunctionOnSet(h, I)
    BY <1>1, <1>4, <1>5, SumRenamed
  <2> QED
    BY <1>6, <2>1
<1>10. SumFunctionOnSet(f, first) = SumFunctionOnSet(g, first)
  BY <1>1, <1>3, SumSame
<1>11. SumFunctionOnSet(f, first \cup rest) = SumFunctionOnSet(f, first) + SumFunctionOnSet(f, rest)
  <2>1. \A i \in first \cup rest : f[i] \in Int
    BY <1>3, <1>8
  <2> QED
    BY <1>1, <1>2, <1>7, <2>1, SumUnion
<1> QED
  BY <1>2, <1>9, <1>10, <1>11 DEF first, I

(* Each entry of a history changes the balance by a whole number.          *)
LEMMA ChangesType ==
  ASSUME NEW h \in Seq(Entries)
  PROVE  /\ Len(h) \in Nat /\ DOMAIN h = 1..Len(h) /\ DOMAIN Changes(h) = 1..Len(h)
         /\ \A i \in 1..Len(h) : /\ Changes(h)[i] = h[i].received - h[i].spent
                                 /\ Changes(h)[i] \in Int /\ h[i].blockIndex \in Nat
<1>1. Len(h) \in Nat /\ DOMAIN h = 1..Len(h) /\ \A i \in 1..Len(h) : h[i] \in Entries
  OBVIOUS
<1>2. DOMAIN Changes(h) = 1..Len(h)
      /\ \A i \in 1..Len(h) : Changes(h)[i] = h[i].received - h[i].spent
  BY <1>1 DEF Changes
<1>3. \A i \in 1..Len(h) : h[i].received \in Nat /\ h[i].spent \in Nat /\ h[i].blockIndex \in Nat
  BY <1>1 DEF Entries
<1> QED
  BY <1>1, <1>2, <1>3

(* A block is added: its entries follow those before it.                   *)
LEMMA HistoryStep ==
  ASSUME NEW c \in Seq(Block), NEW b \in Block, NEW d \in Seq(Block), Grows(d, c, b), Sound(d),
         b.index = Len(c), \A n \in 0..Len(c) : Prefix(d, n) = Prefix(c, n),
         NEW mtp, ValidateBlockTxs(b.data, Unspent(c), b.index, mtp),
         Counted(Outs(Unspent(c))), NEW a \in Address, NEW h, HistoryRight(h, a, c)
  PROVE  HistoryRight(h \o BlockEntries(a, b, Unspent(c)), a, d)
<1> DEFINE es == BlockEntries(a, b, Unspent(c))
           new == h \o es
           k == Len(h)
           m == Len(es)
           top == Len(c)
<1>1. /\ es \in Seq(Entries) /\ \A i \in DOMAIN es : es[i].blockIndex = b.index
      /\ SumFunctionOnSet(Changes(es), 1..m) = Balance(a, Unspent(d)) - Balance(a, Unspent(c))
      /\ Balance(a, Unspent(c)) \in Int /\ Balance(a, Unspent(d)) \in Int
  BY EntriesMove
<1>2. h \in Seq(Entries) /\ top \in Nat /\ Len(d) = top + 1
  BY DEF HistoryRight, Grows
<1> HIDE DEF es
<1>3. k \in Nat /\ m \in Nat /\ DOMAIN h = 1..k /\ DOMAIN es = 1..m
  BY <1>1, <1>2
<1>4. /\ new \in Seq(Entries) /\ Len(new) = k + m
      /\ \A i \in 1..k : new[i] = h[i] /\ i \in 1..(k + m)
      /\ \A i \in 1..m : new[k + i] = es[i] /\ k + i \in 1..(k + m)
  BY <1>1, <1>2
<1> HIDE DEF new
<1>5. \A i \in 1..(k + m) : i \in 1..k \/ (i - k \in 1..m /\ k + (i - k) = i)
  BY <1>3
<1>6. DOMAIN new = 1..(k + m)
  BY <1>4
<1>7. \A i \in 1..k : h[i].blockIndex \in Nat /\ h[i].blockIndex < top
  BY <1>2, <1>3, ChangesType DEF HistoryRight
<1>8. \A i \in 1..(k + m) : /\ new[i].blockIndex \in 0..top
                            /\ i \in 1..k => new[i] = h[i] /\ new[i].blockIndex < top
                            /\ i \notin 1..k => new[i].blockIndex = top
  <2> SUFFICES ASSUME NEW i \in 1..(k + m)
               PROVE  /\ new[i].blockIndex \in 0..top
                      /\ i \in 1..k => new[i] = h[i] /\ new[i].blockIndex < top
                      /\ i \notin 1..k => new[i].blockIndex = top
    OBVIOUS
  <2>1. CASE i \in 1..k
    BY <1>2, <1>4, <1>7, <2>1
  <2>2. CASE i \notin 1..k
    <3>1. i - k \in 1..m /\ new[k + (i - k)] = es[i - k] /\ k + (i - k) = i
      BY <1>4, <1>5, <2>2
    <3>2. new[i].blockIndex = top
      BY <1>1, <1>3, <3>1
    <3> QED
      BY <1>2, <2>2, <3>2
  <2> QED
    BY <2>1, <2>2
<1>9. \A i, j \in 1..(k + m) : i <= j => new[i].blockIndex <= new[j].blockIndex
  <2> SUFFICES ASSUME NEW i \in 1..(k + m), NEW j \in 1..(k + m), i <= j
               PROVE  new[i].blockIndex <= new[j].blockIndex
    OBVIOUS
  <2>1. CASE j \in 1..k
    <3>1. i \in 1..k /\ new[i] = h[i] /\ new[j] = h[j]
      BY <1>3, <1>8, <2>1
    <3> QED
      BY <1>3, <2>1, <3>1 DEF HistoryRight
  <2>2. CASE j \notin 1..k
    BY <1>2, <1>8, <2>2
  <2> QED
    BY <2>1, <2>2
<1>10. ASSUME NEW n \in 0..top
       PROVE  SumFunctionOnSet(Changes(new), Below(new, n)) = Balance(a, Unspent(Prefix(d, n)))
  <2>1. Below(new, n) = Below(h, n)
    <3>1. \A i \in 1..(k + m) : new[i].blockIndex < n => i \in 1..k
      BY <1>2, <1>8
    <3> QED
      BY <1>3, <1>4, <1>6, <1>8, <3>1 DEF Below
  <2>2. Below(h, n) \in SUBSET (1..k) /\ IsFiniteSet(Below(h, n))
    <3>1. Below(h, n) \in SUBSET (1..k)
      BY <1>3 DEF Below
    <3> QED
      BY <1>3, <3>1, FinitePlaces
  <2>3. \A i \in Below(h, n) : Changes(new)[i] = Changes(h)[i]
    <3>1. ASSUME NEW i \in 1..k PROVE Changes(new)[i] = Changes(h)[i]
      BY <1>3, <1>4, <1>6 DEF Changes
    <3> QED
      BY <2>2, <3>1
  <2> DEFINE S == Below(h, n)
             f == Changes(new)
             g == Changes(h)
  <2>4. IsFiniteSet(S) /\ \A i \in S : f[i] = g[i]
    BY <2>2, <2>3
  <2>5. SumFunctionOnSet(g, S) = Balance(a, Unspent(Prefix(c, n)))
    BY DEF HistoryRight
  <2> HIDE DEF S, f, g
  <2>6. SumFunctionOnSet(f, S) = SumFunctionOnSet(g, S)
    BY <2>4, SumSame
  <2> QED
    BY <2>1, <2>5, <2>6 DEF S, f, g
<1>11. SumFunctionOnSet(Changes(new), Below(new, top + 1)) = Balance(a, Unspent(Prefix(d, top + 1)))
  <2> DEFINE f == Changes(new)
             g == Changes(h)
             e == Changes(es)
             x == Balance(a, Unspent(c))
             y == Balance(a, Unspent(d))
  <2>1. Below(new, top + 1) = 1..(k + m)
    BY <1>2, <1>6, <1>8 DEF Below
  <2>2. Below(h, top) = 1..k
    BY <1>3, <1>7 DEF Below
  <2>3. SumFunctionOnSet(g, 1..k) = x
    <3>1. SumFunctionOnSet(Changes(h), Below(h, top)) = Balance(a, Unspent(Prefix(c, top)))
      BY <1>2 DEF HistoryRight
    <3> QED
      BY <2>2, <3>1, PrefixOfAll
  <2>4. \A i \in 1..k : g[i] \in Int /\ f[i] = g[i]
    BY <1>2, <1>3, <1>4, <1>6, ChangesType DEF Changes
  <2>5. \A i \in 1..m : e[i] \in Int /\ f[k + i] = e[i]
    BY <1>1, <1>3, <1>4, <1>6, ChangesType DEF Changes
  <2>6. SumFunctionOnSet(e, 1..m) = y - x /\ x \in Int /\ y \in Int
    BY <1>1
  <2>7. Prefix(d, top + 1) = d
    BY <1>2, PrefixOfAll
  <2> HIDE DEF f, g, e, x, y, k, m
  <2>8. SumFunctionOnSet(f, 1..(k + m)) = SumFunctionOnSet(g, 1..k) + SumFunctionOnSet(e, 1..m)
    <3>1. k \in Nat /\ m \in Nat
      BY <1>3
    <3>2. Joins(f, g, k, e, m)
      BY <2>4, <2>5 DEF Joins
    <3> QED
      BY <3>1, <3>2, SumJoined
  <2>9. SumFunctionOnSet(f, 1..(k + m)) = y
    BY <2>3, <2>6, <2>8
  <2> QED
    BY <2>1, <2>7, <2>9 DEF f, y
<1>12. \A n \in 0..Len(d) :
         SumFunctionOnSet(Changes(new), Below(new, n)) = Balance(a, Unspent(Prefix(d, n)))
  <2>1. \A n \in 0..Len(d) : n \in 0..top \/ n = top + 1
    BY <1>2
  <2> QED
    BY <1>10, <1>11, <2>1
<1>13. \A i \in DOMAIN new : new[i].blockIndex < Len(d)
  BY <1>2, <1>6, <1>8
<1>14. HistoryRight(new, a, d)
  BY <1>4, <1>6, <1>9, <1>12, <1>13 DEF HistoryRight
<1> QED
  BY <1>14 DEF new, es

(* What AddressesRollbackTo leaves of a history: the entries of the blocks *)
(* below the cut.                                                          *)
LEMMA HistoryBack ==
  ASSUME NEW c \in Seq(Block), NEW n \in 0..Len(c), NEW a, NEW h, HistoryRight(h, a, c)
  PROVE  HistoryRight(SubSeq(h, 1, Max({0} \cup {i \in DOMAIN h : h[i].blockIndex < n})),
                      a, Prefix(c, n))
<1> DEFINE stays == {0} \cup {i \in DOMAIN h : h[i].blockIndex < n}
           m == Max(stays)
           new == SubSeq(h, 1, m)
           p == Prefix(c, n)
           k == Len(h)
<1>1. /\ h \in Seq(Entries) /\ n \in Nat /\ Len(c) \in Nat /\ k \in Nat /\ DOMAIN h = 1..k
      /\ \A i \in 1..k : h[i].blockIndex \in Nat
  BY ChangesType DEF HistoryRight
<1>2. m \in stays /\ \A i \in stays : i <= m
  <2> DEFINE D == {k - i : i \in stays}
  <2>1. \A i \in stays : i \in 0..k
    BY <1>1
  <2>2. D \in SUBSET Nat /\ D # {}
    <3>1. \A i \in stays : k - i \in Nat
      BY <1>1, <2>1
    <3> QED
      BY <3>1
  <2>3. PICK x \in D : \A y \in D : x <= y
    <3> HIDE DEF D
    <3> QED
      BY <2>2, LeastNumber
  <2>4. PICK j \in stays : x = k - j
    OBVIOUS
  <2>5. \A i \in stays : j >= i
    <3> SUFFICES ASSUME NEW i \in stays PROVE j >= i
      OBVIOUS
    <3>1. x <= k - i /\ i \in 0..k /\ j \in 0..k
      BY <2>1, <2>3
    <3> HIDE DEF D, stays
    <3> QED
      BY <1>1, <2>4, <3>1
  <2>6. m = CHOOSE i \in stays : \A l \in stays : i >= l
    BY DEF Max
  <2> HIDE DEF stays, m, D
  <2>7. m \in stays /\ \A i \in stays : m >= i
    BY <2>5, <2>6
  <2> QED
    BY <2>1, <2>7
<1>3. m \in 0..k /\ (m # 0 => h[m].blockIndex < n)
  BY <1>1, <1>2
<1>4. \A i \in 1..k : i <= m <=> h[i].blockIndex < n
  <2> SUFFICES ASSUME NEW i \in 1..k PROVE i <= m <=> h[i].blockIndex < n
    OBVIOUS
  <2>1. h[i].blockIndex < n => i <= m
    <3>1. h[i].blockIndex < n => i \in stays
      BY <1>1
    <3> QED
      BY <1>2, <3>1
  <2>2. ASSUME i <= m PROVE h[i].blockIndex < n
    <3> HIDE DEF m
    <3>1. m \in 1..k
      BY <1>3, <2>2
    <3>2. h[i].blockIndex <= h[m].blockIndex /\ h[m].blockIndex < n
      BY <1>1, <1>3, <2>2, <3>1 DEF HistoryRight
    <3> QED
      BY <1>1, <3>1, <3>2
  <2> QED
    BY <2>1, <2>2
<1> HIDE DEF m, stays
<1>5. /\ new \in Seq(Entries) /\ Len(new) = m /\ DOMAIN new = 1..m
      /\ \A i \in 1..m : new[i] = h[i] /\ i \in 1..k
  BY <1>1, <1>3
<1>6. p \in Seq(Block) /\ Len(p) = n /\ \A l \in 0..n : Prefix(p, l) = Prefix(c, l)
  BY PrefixFacts
<1> HIDE DEF new, p
<1>7. \A i, j \in 1..m : i <= j => new[i].blockIndex <= new[j].blockIndex
  BY <1>1, <1>5 DEF HistoryRight
<1>8. \A i \in 1..m : new[i].blockIndex < n
  BY <1>4, <1>5
<1>9. ASSUME NEW l \in 0..n
      PROVE  SumFunctionOnSet(Changes(new), Below(new, l)) = Balance(a, Unspent(Prefix(p, l)))
  <2>1. Below(new, l) = Below(h, l)
    <3>1. \A i \in 1..k : h[i].blockIndex < l => i \in 1..m
      BY <1>1, <1>3, <1>4
    <3> QED
      BY <1>1, <1>5, <3>1 DEF Below
  <2>2. Below(h, l) \in SUBSET (1..k) /\ Below(h, l) \in SUBSET (1..m) /\ IsFiniteSet(Below(h, l))
    <3>1. Below(h, l) \in SUBSET (1..k)
      BY <1>1 DEF Below
    <3>2. Below(new, l) \in SUBSET (1..m)
      BY <1>5 DEF Below
    <3> QED
      BY <1>1, <2>1, <3>1, <3>2, FinitePlaces
  <2> DEFINE S == Below(h, l)
             f == Changes(new)
             g == Changes(h)
  <2>3. \A i \in S : f[i] = g[i]
    <3>1. ASSUME NEW i \in 1..m PROVE f[i] = g[i]
      BY <1>1, <1>5 DEF Changes
    <3> HIDE DEF S, f, g
    <3> QED
      BY <2>2, <3>1 DEF S
  <2>4. SumFunctionOnSet(g, S) = Balance(a, Unspent(Prefix(c, l)))
    <3>1. l \in 0..Len(c)
      BY <1>1
    <3> QED
      BY <3>1 DEF HistoryRight
  <2>5. IsFiniteSet(S)
    BY <2>2
  <2> HIDE DEF S, f, g
  <2>6. SumFunctionOnSet(f, S) = SumFunctionOnSet(g, S)
    BY <2>3, <2>5, SumSame
  <2> QED
    BY <1>6, <2>1, <2>4, <2>6 DEF S, f, g
<1>10. HistoryRight(new, a, p)
  BY <1>5, <1>6, <1>7, <1>8, <1>9 DEF HistoryRight
<1> QED
  BY <1>10 DEF new, p, m, stays


-----------------------------------------------------------------------------
(* The indexes together. *)

\* What is indexed is the chain c.  Where a transaction is found is only
\* certain when every transaction spends something.
IndexesRight(at, c) ==
  /\ HashesRight(at.hashes, c)
  /\ EveryTxSpends => TxsRight(at.txs, c)
  /\ \A a \in Address : HistoryRight(at.addresses[a], a, c)
  /\ at.indexed = Unspent(c)

\* d is c with b added to it, validly.
Extends(d, c, b) ==
  /\ c \in Seq(Block) /\ d \in Seq(Block) /\ b \in Block
  /\ Grows(d, c, b) /\ \A n \in 0..Len(c) : Prefix(d, n) = Prefix(c, n)
  /\ d[1] = Genesis /\ Sound(d) /\ Revalidates(d)
  /\ b.index = Len(c)
  /\ \E mtp : ValidateBlockTxs(b.data, Unspent(c), b.index, mtp)
  /\ Counted(Outs(Unspent(c)))

(* A block that is indexed.                                                *)
LEMMA IndexBlockRight ==
  ASSUME NEW c, NEW d, NEW b, Extends(d, c, b), NEW at, IndexesRight(at, c)
  PROVE  IndexesRight(IndexBlock(at, b), d)
<1> DEFINE new == IndexBlock(at, b)
<1>1. /\ c \in Seq(Block) /\ d \in Seq(Block) /\ b \in Block /\ Grows(d, c, b)
      /\ d[1] = Genesis /\ Sound(d) /\ Revalidates(d) /\ b.index = Len(c)
      /\ Counted(Outs(Unspent(c))) /\ \A n \in 0..Len(c) : Prefix(d, n) = Prefix(c, n)
      /\ at.indexed = Unspent(c)
  BY DEF Extends, IndexesRight
<1>2. PICK mtp : ValidateBlockTxs(b.data, Unspent(c), b.index, mtp)
  BY DEF Extends
<1>3. /\ new.addresses = AddressesApply(at.addresses, b, Unspent(c))
      /\ new.hashes = HashesApply(at.hashes, b)
      /\ new.txs = TxsApply(at.txs, b)
      /\ new.indexed = UpdateUTxOuts(b.data, Unspent(c), b.index)
  BY <1>1 DEF IndexBlock
<1> HIDE DEF new
<1>4. HashesRight(new.hashes, d)
  <2>1. HashesOnce(d)
    <3>1. d # << >>
      BY <1>1 DEF Grows
    <3> QED
      BY <1>1, <3>1, ChainHashesOnce
  <2>2. HashesRight(at.hashes, c)
    BY DEF IndexesRight
  <2> DEFINE index == at.hashes
  <2> HIDE DEF index
  <2>3. HashesRight(index, c)
    BY <2>2 DEF index
  <2>4. HashesRight(HashesApply(index, b), d)
    BY <1>1, <2>1, <2>3, HashesStep
  <2> QED
    BY <1>3, <2>4 DEF index
<1>5. ASSUME EveryTxSpends PROVE TxsRight(new.txs, d)
  <2>1. TxsOnce(d)
    BY <1>1, <1>5, ChainTxsOnce
  <2> DEFINE index == at.txs
  <2>2. TxsRight(index, c)
    BY <1>5 DEF IndexesRight
  <2> HIDE DEF index
  <2>3. TxsRight(TxsApply(index, b), d)
    BY <1>1, <2>1, <2>2, TxsStep
  <2> QED
    BY <1>3, <2>3 DEF index
<1>6. ASSUME NEW a \in Address PROVE HistoryRight(new.addresses[a], a, d)
  <2> DEFINE h == at.addresses[a]
  <2>1. HistoryRight(h, a, c)
    BY DEF IndexesRight
  <2>2. new.addresses[a] = h \o BlockEntries(a, b, Unspent(c))
    BY <1>3 DEF AddressesApply
  <2> HIDE DEF h
  <2>3. HistoryRight(h \o BlockEntries(a, b, Unspent(c)), a, d)
    BY <1>1, <1>2, <2>1, HistoryStep
  <2> QED
    BY <2>2, <2>3
<1>7. new.indexed = Unspent(d)
  <2>1. Len(c) \in Nat /\ b.data \in Seq(Tx)
    BY <1>1, BlockFields
  <2> QED
    BY <1>1, <1>3, <2>1, UnspentStep
<1>8. IndexesRight(new, d)
  BY <1>4, <1>5, <1>6, <1>7 DEF IndexesRight
<1> QED
  BY <1>8 DEF new

(* Every block of a chain extends the blocks before it.                    *)
LEMMA EachExtends ==
  ASSUME NEW c \in Seq(Block), c # << >>, c[1] = Genesis, Sound(c), Revalidates(c),
         NEW i \in 2..Len(c)
  PROVE  Extends(Prefix(c, i), Prefix(c, i - 1), c[i])
<1> DEFINE p == Prefix(c, i - 1)
           d == Prefix(c, i)
           b == c[i]
<1>1. /\ i \in 1..Len(c) /\ i \in 0..Len(c) /\ i - 1 \in 0..Len(c) /\ i - 1 # 0
      /\ i - 1 \in 0..i /\ 1 \in 1..i /\ 1 \in 1..(i - 1) /\ b \in Block
  OBVIOUS
<1>2. /\ p \in Seq(Block) /\ Len(p) = i - 1 /\ p[1] = Genesis
      /\ \A n \in 0..(i - 1) : Prefix(p, n) = Prefix(c, n)
  BY <1>1, PrefixFacts
<1>3. /\ d \in Seq(Block) /\ Len(d) = i /\ d[1] = Genesis
      /\ \A n \in 0..i : Prefix(d, n) = Prefix(c, n)
  BY <1>1, PrefixFacts
<1>4. Grows(d, p, b)
  BY <1>1, PrefixGrows
<1>5. Sound(p) /\ Sound(d) /\ Revalidates(p) /\ Revalidates(d)
  BY <1>1, PrefixSound, RevalidatesPrefix
<1>6. b.index = i - 1 /\ ValidateBlockTxs(b.data, Unspent(p), b.index, MedianTimePast(p))
  BY DEF Revalidates, TxsAccepted
<1> HIDE DEF p, d, b
<1>7. Counted(Outs(Unspent(p)))
  <2>1. p # << >>
    BY <1>1, <1>2
  <2> QED
    BY <1>2, <1>5, <2>1, ChainBalanced DEF Balanced
<1>8. \A n \in 0..Len(p) : Prefix(d, n) = Prefix(p, n)
  <2>1. \A n \in 0..(i - 1) : n \in 0..i
    BY <1>1
  <2> QED
    BY <1>2, <1>3, <2>1
<1>9. Extends(d, p, b)
  BY <1>1, <1>2, <1>3, <1>4, <1>5, <1>6, <1>7, <1>8 DEF Extends
<1> QED
  BY <1>9 DEF p, d, b

(* What is indexed without the blocks after the first n.                   *)
LEMMA RolledBackRight ==
  ASSUME blockchain \in Seq(Block), blockchain # << >>, blockchain[1] = Genesis,
         Sound(blockchain), Revalidates(blockchain),
         NEW n \in 0..Len(blockchain), atCommon = Unspent(Prefix(blockchain, n)),
         NEW U, IndexesRight([addresses |-> byAddress, hashes |-> blockByHash,
                              txs |-> blockByTxId, indexed |-> U], blockchain)
  PROVE  IndexesRight(RolledBack(n), Prefix(blockchain, n))
<1> DEFINE gone == SubSeq(blockchain, n + 1, Len(blockchain))
           at == RolledBack(n)
           p == Prefix(blockchain, n)
<1>1. /\ HashesRight(blockByHash, blockchain)
      /\ EveryTxSpends => TxsRight(blockByTxId, blockchain)
      /\ \A a \in Address : HistoryRight(byAddress[a], a, blockchain)
  BY DEF IndexesRight
<1>2. /\ at.addresses = IF gone = << >> THEN byAddress
                        ELSE AddressesRollbackTo(byAddress, gone[1].index)
      /\ at.hashes = HashesRollback(blockByHash, gone)
      /\ at.txs = TxsRollback(blockByTxId, gone)
      /\ at.indexed = Unspent(p)
  BY DEF RolledBack
<1> HIDE DEF at
<1>3. HashesRight(at.hashes, p)
  BY <1>1, <1>2, ChainHashesOnce, HashesBack
<1>4. EveryTxSpends => TxsRight(at.txs, p)
  BY <1>1, <1>2, ChainTxsOnce, TxsBack
<1>5. ASSUME NEW a \in Address PROVE HistoryRight(at.addresses[a], a, p)
  <2>1. CASE n = Len(blockchain)
    <3>1. gone = << >>
      BY <2>1
    <3>2. p = blockchain
      BY <2>1, PrefixOfAll
    <3> QED
      BY <1>1, <1>2, <3>1, <3>2
  <2>2. CASE n # Len(blockchain)
    <3> DEFINE h == byAddress[a]
               m == Max({0} \cup {i \in DOMAIN h : h[i].blockIndex < n})
    <3>1. n + 1 \in 1..Len(blockchain) /\ n \in Nat /\ Len(blockchain) \in Nat
      BY <2>2
    <3>2. gone # << >> /\ gone[1] = blockchain[n + 1]
      <4>1. DOMAIN gone = 1..(Len(blockchain) - n) /\ 1 \in 1..(Len(blockchain) - n)
        BY <3>1, CutOff
      <4>2. gone[1] = blockchain[n + 1]
        BY <4>1, CutOff
      <4>3. 1 \notin DOMAIN << >>
        OBVIOUS
      <4> QED
        BY <4>1, <4>2, <4>3
    <3>3. gone[1].index = n
      BY <3>1, <3>2 DEF Sound, Heights
    <3>4. at.addresses[a] = SubSeq(h, 1, m)
      <4>1. at.addresses = AddressesRollbackTo(byAddress, n)
        BY <1>2, <3>2, <3>3
      <4> QED
        BY <4>1 DEF AddressesRollbackTo
    <3>5. HistoryRight(h, a, blockchain)
      BY <1>1
    <3> HIDE DEF h
    <3>6. HistoryRight(SubSeq(h, 1, m), a, p)
      BY <3>5, HistoryBack
    <3> QED
      BY <3>4, <3>6
  <2> QED
    BY <2>1, <2>2
<1>6. IndexesRight(at, p)
  BY <1>2, <1>3, <1>4, <1>5 DEF IndexesRight
<1> QED
  BY <1>6 DEF at, p


\* The indexes after each of the blocks of c from the n-th on.
Indexing(at, c, n, m) ==
  CHOOSE g : g = [i \in n..m |-> IF i = n THEN at ELSE IndexBlock(g[i - 1], c[i])]

IsIndexing(at, c, n, m, g) ==
  g = [i \in n..m |-> IF i = n THEN at ELSE IndexBlock(g[i - 1], c[i])]

(* They exist.                                                             *)
LEMMA IndexingExists ==
  ASSUME NEW at, NEW c, NEW n \in Nat, NEW k \in Nat
  PROVE  IsIndexing(at, c, n, n + k, Indexing(at, c, n, n + k))
<1> DEFINE Is(m, g) == IsIndexing(at, c, n, n + m, g)
           Bad == {m \in Nat : ~ \E g : Is(m, g)}
<1>1. Bad = {}
  <2> SUFFICES ASSUME Bad # {} PROVE FALSE
    OBVIOUS
  <2>1. PICK m \in Bad : \A j \in Bad : m <= j
    <3>1. Bad \in SUBSET Nat
      OBVIOUS
    <3> HIDE DEF Bad
    <3> QED
      BY <3>1, LeastNumber
  <2>2. m \in Nat /\ ~ \E g : Is(m, g)
    OBVIOUS
  <2>3. CASE m = 0
    <3> DEFINE g == [i \in n..(n + m) |-> at]
    <3>1. g = [i \in n..(n + m) |-> IF i = n THEN at ELSE IndexBlock(g[i - 1], c[i])]
      BY <2>3
    <3>2. Is(m, g)
      BY <3>1 DEF IsIndexing
    <3> QED
      BY <3>2, <2>2
  <2>4. CASE m # 0
    <3>1. m - 1 \in Nat /\ m - 1 \notin Bad
      <4>1. m - 1 \in Nat /\ ~ (m <= m - 1)
        BY <2>2, <2>4
      <4> HIDE DEF Bad
      <4> QED
        BY <4>1, <2>1
    <3>2. PICK g : Is(m - 1, g)
      BY <3>1
    <3> DEFINE h == [i \in n..(n + m) |-> IF i = n THEN at ELSE IndexBlock(g[i - 1], c[i])]
    <3>3. ASSUME NEW i \in n..(n + (m - 1)) PROVE h[i] = g[i]
      <4>1. i \in n..(n + m)
        BY <2>2
      <4>2. g[i] = IF i = n THEN at ELSE IndexBlock(g[i - 1], c[i])
        BY <3>2 DEF IsIndexing
      <4> QED
        BY <4>1, <4>2
    <3>4. ASSUME NEW i \in n..(n + m), i # n PROVE h[i - 1] = g[i - 1]
      <4>1. i - 1 \in n..(n + (m - 1))
        BY <2>2, <3>4
      <4> HIDE DEF h
      <4> QED
        BY <3>3, <4>1
    <3>5. h = [i \in n..(n + m) |-> IF i = n THEN at ELSE IndexBlock(h[i - 1], c[i])]
      BY <3>4
    <3>6. Is(m, h)
      <4> HIDE DEF h
      <4> QED
        BY <3>5 DEF IsIndexing
    <3> QED
      BY <3>6, <2>2
  <2> QED
    BY <2>3, <2>4
<1>2. \E g : Is(k, g)
  BY <1>1
<1> QED
  BY <1>2 DEF IsIndexing, Indexing

(* The blocks of a chain that follow those indexed are indexed.            *)
LEMMA IndexFromRight ==
  ASSUME NEW c \in Seq(Block), c # << >>, c[1] = Genesis, Sound(c), Revalidates(c),
         NEW n \in 1..Len(c), NEW at, IndexesRight(at, Prefix(c, n))
  PROVE  IndexesRight(IndexFrom(at, c, n), c)
<1> DEFINE top == Len(c)
           done == Indexing(at, c, n, top)
           Bad == {i \in n..top : ~ IndexesRight(done[i], Prefix(c, i))}
<1>1. top \in Nat /\ n \in Nat /\ top - n \in Nat /\ n + (top - n) = top /\ top \in n..top
  OBVIOUS
<1>2. IsIndexing(at, c, n, top, done)
  <2> DEFINE k == top - n
  <2>1. k \in Nat /\ n + k = top /\ n \in Nat
    BY <1>1
  <2> HIDE DEF k, top, done
  <2>2. IsIndexing(at, c, n, n + k, Indexing(at, c, n, n + k))
    BY <2>1, IndexingExists
  <2> QED
    BY <2>1, <2>2 DEF done
<1>3. IndexFrom(at, c, n) = done[top]
  BY DEF IndexFrom, Indexing
<1> HIDE DEF done
<1>4. \A i \in n..top : done[i] = IF i = n THEN at ELSE IndexBlock(done[i - 1], c[i])
  BY <1>2 DEF IsIndexing
<1>5. Bad = {}
  <2> SUFFICES ASSUME Bad # {} PROVE FALSE
    OBVIOUS
  <2>1. PICK i \in Bad : \A j \in Bad : i <= j
    <3>1. Bad \in SUBSET Nat
      BY <1>1
    <3> HIDE DEF Bad
    <3> QED
      BY <3>1, LeastNumber
  <2>2. i \in n..top /\ ~ IndexesRight(done[i], Prefix(c, i))
    OBVIOUS
  <2>3. i # n
    BY <1>4, <2>2
  <2>4. i - 1 \in n..top /\ ~ (i <= i - 1) /\ i \in 2..Len(c)
    BY <1>1, <2>2, <2>3
  <2>5. IndexesRight(done[i - 1], Prefix(c, i - 1))
    <3>1. i - 1 \notin Bad
      <4> HIDE DEF Bad
      <4> QED
        BY <2>1, <2>4
    <3> QED
      BY <2>4, <3>1
  <2> DEFINE p == Prefix(c, i - 1)
             d == Prefix(c, i)
             b == c[i]
             before == done[i - 1]
  <2>6. Extends(d, p, b)
    BY <2>4, EachExtends
  <2>7. done[i] = IndexBlock(before, b)
    BY <1>4, <2>2, <2>3
  <2>8. IndexesRight(before, p)
    BY <2>5
  <2> HIDE DEF p, d, b, before
  <2>9. IndexesRight(IndexBlock(before, b), d)
    BY <2>6, <2>8, IndexBlockRight
  <2> QED
    BY <2>2, <2>7, <2>9 DEF d
<1>6. IndexesRight(done[top], Prefix(c, top))
  BY <1>1, <1>5
<1> QED
  BY <1>3, <1>6, PrefixOfAll

-----------------------------------------------------------------------------
(* The cached work. *)

\* The work of the first i blocks of c.
WorkTo(c, i) == SumFunctionOnSet(BlockWork(c), 1..i)

\* What is cached is the work of c.
WorkRight(cache, c) ==
  /\ cache \in Seq(Int) /\ Len(cache) <= Len(c)
  /\ \A i \in 1..Len(cache) : cache[i] = WorkTo(c, i)

(* The work of a block is added to that of those before it.                *)
LEMMA WorkToStep ==
  ASSUME NEW c \in Seq(Block), NEW i \in 1..Len(c)
  PROVE  /\ WorkTo(c, i) = c[i].work + (IF i = 1 THEN 0 ELSE WorkTo(c, i - 1))
         /\ WorkTo(c, i) \in Int
<1> DEFINE f == BlockWork(c)
           n == i - 1
<1>1. \A k \in 1..Len(c) : f[k] = c[k].work /\ f[k] \in Int
  <2>1. ASSUME NEW k \in 1..Len(c) PROVE f[k] = c[k].work /\ f[k] \in Int
    BY BlockWorkType DEF BlockWork
  <2> QED
    BY <2>1
<1>2. n \in Nat /\ n + 1 = i /\ 1..n \subseteq 1..Len(c)
  OBVIOUS
<1> HIDE DEF f
<1>3. SumFunctionOnSet(f, 1..(n + 1)) = SumFunctionOnSet(f, 1..n) + f[n + 1]
  <2>1. \A k \in 1..n : f[k] \in Int /\ f[k] = f[k]
    BY <1>1, <1>2
  <2>2. f[n + 1] \in Int
    BY <1>1, <1>2
  <2> HIDE DEF n
  <2> QED
    BY <1>2, <2>1, <2>2, SumAppend
<1>4. SumFunctionOnSet(f, 1..n) \in Int
  <2> DEFINE S == 1..n
  <2>1. IsFiniteSet(S) /\ \A k \in S : f[k] \in Int
    BY <1>1, <1>2, FinitePlaces
  <2> HIDE DEF S
  <2>2. SumFunctionOnSet(f, S) \in Int
    BY <2>1, SumType
  <2> QED
    BY <2>2 DEF S
<1>5. n = 0 => SumFunctionOnSet(f, 1..n) = 0
  <2> SUFFICES ASSUME n = 0 PROVE SumFunctionOnSet(f, 1..n) = 0
    OBVIOUS
  <2>1. 1..n = {} /\ IsFiniteSet({})
    BY FS_EmptySet
  <2>2. SumFunctionOnSet(f, {}) = 0
    BY <2>1, SumStep
  <2> QED
    BY <2>1, <2>2
<1> DEFINE x == SumFunctionOnSet(f, 1..n)
<1>6. WorkTo(c, i) = x + c[i].work /\ c[i].work \in Int /\ x \in Int /\ WorkTo(c, i - 1) = x
  BY <1>1, <1>2, <1>3, <1>4 DEF WorkTo, f
<1>7. i = 1 => x = 0
  BY <1>5
<1> HIDE DEF x
<1> QED
  BY <1>6, <1>7


(* The cache filled up to some block is the work of the chain.             *)
LEMMA FilledRight ==
  ASSUME NEW c \in Seq(Block), NEW n \in 0..Len(c), NEW cache, WorkRight(cache, c)
  PROVE  WorkRight(FilledTo(cache, c, n), c)
<1> DEFINE I == 1..n
           exact == [i \in I |-> WorkTo(c, i)]
           Is(g) == g = [i \in I |-> IF i <= Len(cache) THEN cache[i]
                                     ELSE c[i].work + (IF i = 1 THEN 0 ELSE g[i - 1])]
           work == CHOOSE g : Is(g)
           Bad == {i \in I : work[i] # WorkTo(c, i)}
<1>1. FilledTo(cache, c, n) = IF n <= Len(cache) THEN cache ELSE work
  BY DEF FilledTo
<1>2. CASE n <= Len(cache)
  BY <1>1, <1>2
<1>3. CASE ~ (n <= Len(cache))
  <2>1. n \in Nat /\ Len(c) \in Nat /\ Len(cache) \in Nat /\ n <= Len(c) /\ I \subseteq 1..Len(c)
    BY DEF WorkRight
  <2>2. Is(exact)
    <3>1. ASSUME NEW i \in I
          PROVE  WorkTo(c, i) = IF i <= Len(cache) THEN cache[i]
                                ELSE c[i].work + (IF i = 1 THEN 0 ELSE exact[i - 1])
      <4>1. CASE i <= Len(cache)
        <5>1. i \in 1..Len(cache)
          BY <2>1, <4>1
        <5> QED
          BY <4>1, <5>1 DEF WorkRight
      <4>2. CASE ~ (i <= Len(cache))
        <5>1. i = 1 \/ i - 1 \in I
          BY <2>1
        <5>2. i # 1 => exact[i - 1] = WorkTo(c, i - 1)
          BY <5>1
        <5>3. WorkTo(c, i) = c[i].work + (IF i = 1 THEN 0 ELSE WorkTo(c, i - 1))
          BY <2>1, WorkToStep
        <5> HIDE DEF exact
        <5> QED
          BY <4>2, <5>2, <5>3
      <4> QED
        BY <4>1, <4>2
    <3> QED
      BY <3>1
  <2>3. Is(work)
    <3> HIDE DEF exact, Is
    <3> QED
      BY <2>2
  <2> HIDE DEF work
  <2>4. \A i \in I : work[i] = IF i <= Len(cache) THEN cache[i]
                               ELSE c[i].work + (IF i = 1 THEN 0 ELSE work[i - 1])
    <3> DEFINE g == [i \in I |-> IF i <= Len(cache) THEN cache[i]
                                 ELSE c[i].work + (IF i = 1 THEN 0 ELSE work[i - 1])]
    <3>1. work = g
      BY <2>3
    <3>2. \A i \in I : g[i] = IF i <= Len(cache) THEN cache[i]
                              ELSE c[i].work + (IF i = 1 THEN 0 ELSE work[i - 1])
      OBVIOUS
    <3> HIDE DEF g
    <3> QED
      BY <3>1, <3>2
  <2>5. Bad = {}
    <3> SUFFICES ASSUME Bad # {} PROVE FALSE
      OBVIOUS
    <3>1. PICK i \in Bad : \A j \in Bad : i <= j
      <4>1. Bad \in SUBSET Nat
        OBVIOUS
      <4> HIDE DEF Bad
      <4> QED
        BY <4>1, LeastNumber
    <3>2. i \in I /\ work[i] # WorkTo(c, i) /\ i \in Nat
      OBVIOUS
    <3>3. CASE i <= Len(cache)
      <4>1. i \in 1..Len(cache) /\ work[i] = cache[i]
        BY <2>1, <2>4, <3>2, <3>3
      <4> QED
        BY <3>2, <4>1 DEF WorkRight
    <3>4. CASE ~ (i <= Len(cache))
      <4>1. i # 1 => work[i - 1] = WorkTo(c, i - 1)
        <5> SUFFICES ASSUME i # 1 PROVE work[i - 1] = WorkTo(c, i - 1)
          OBVIOUS
        <5>1. i - 1 \in I /\ ~ (i <= i - 1)
          BY <2>1, <3>2
        <5>2. i - 1 \notin Bad
          <6> HIDE DEF Bad
          <6> QED
            BY <3>1, <5>1
        <5> QED
          BY <5>1, <5>2
      <4>2. WorkTo(c, i) = c[i].work + (IF i = 1 THEN 0 ELSE WorkTo(c, i - 1))
        BY <2>1, <3>2, WorkToStep
      <4>3. work[i] = c[i].work + (IF i = 1 THEN 0 ELSE work[i - 1])
        BY <2>4, <3>2, <3>4
      <4> QED
        BY <3>2, <4>1, <4>2, <4>3
    <3> QED
      BY <3>3, <3>4
  <2>6. \A i \in I : work[i] = WorkTo(c, i) /\ WorkTo(c, i) \in Int
    BY <2>1, <2>5, WorkToStep
  <2>7. work \in Seq(Int) /\ Len(work) = n
    <3>1. work = [i \in 1..n |-> work[i]]
      BY <2>3
    <3> QED
      BY <2>1, <2>6, <3>1
  <2> QED
    BY <1>1, <1>3, <2>1, <2>6, <2>7 DEF WorkRight
<1> QED
  BY <1>2, <1>3

(* What dropWorkFrom keeps is the work of any chain that starts alike.     *)
LEMMA DroppedRight ==
  ASSUME NEW c \in Seq(Block), WorkRight(cumulativeWork, c), NEW n \in 0..Len(c),
         NEW d \in Seq(Block), n <= Len(d), \A i \in 1..n : d[i] = c[i]
  PROVE  WorkRight(DropWorkFrom(n), d)
<1> DEFINE cache == cumulativeWork
           m == Min({n, Len(cache)})
           new == DropWorkFrom(n)
<1>1. cache \in Seq(Int) /\ Len(cache) \in Nat /\ n \in Nat /\ Len(d) \in Nat
  BY DEF WorkRight
<1>2. m \in Nat /\ m <= n /\ m <= Len(cache)
  <2> DEFINE least(x) == x \in {n, Len(cache)} /\ \A y \in {n, Len(cache)} : x <= y
  <2>1. least(n) \/ least(Len(cache))
    BY <1>1
  <2>2. m = CHOOSE x \in {n, Len(cache)} : \A y \in {n, Len(cache)} : x <= y
    BY DEF Min
  <2>3. least(m)
    BY <2>1, <2>2
  <2> HIDE DEF m
  <2> QED
    BY <1>1, <2>3
<1>3. new = SubSeq(cache, 1, m)
  BY DEF DropWorkFrom
<1> HIDE DEF m, new, cache
<1>4. new \in Seq(Int) /\ Len(new) = m /\ \A i \in 1..m : new[i] = cache[i]
  BY <1>1, <1>2, <1>3
<1>5. ASSUME NEW i \in 1..m PROVE cache[i] = WorkTo(d, i)
  <2>1. i \in 1..Len(cache) /\ i \in Nat /\ i <= n
    BY <1>1, <1>2
  <2>2. cache[i] = WorkTo(c, i)
    BY <2>1 DEF WorkRight, cache
  <2> DEFINE S == 1..i
             f == BlockWork(c)
             g == BlockWork(d)
  <2>3. IsFiniteSet(S)
    BY <2>1, FinitePlaces
  <2>4. \A k \in S : f[k] = g[k]
    <3>1. \A k \in 1..n : k \in 1..Len(c) /\ k \in 1..Len(d)
      BY <1>1
    <3>2. \A k \in 1..n : f[k] = g[k]
      BY <3>1 DEF BlockWork
    <3>3. \A k \in S : k \in 1..n
      BY <1>1, <2>1
    <3> HIDE DEF S, f, g
    <3> QED
      BY <3>2, <3>3
  <2> HIDE DEF S, f, g
  <2>5. SumFunctionOnSet(f, S) = SumFunctionOnSet(g, S)
    BY <2>3, <2>4, SumSame
  <2> QED
    BY <2>2, <2>5 DEF WorkTo, S, f, g
<1>6. m <= Len(d)
  BY <1>1, <1>2
<1>7. \A i \in 1..m : new[i] = WorkTo(d, i)
  BY <1>4, <1>5
<1>8. WorkRight(new, d)
  BY <1>4, <1>6, <1>7 DEF WorkRight
<1> QED
  BY <1>8 DEF new

-----------------------------------------------------------------------------
(* The invariant. *)

\* The indexes of the node, over the set of unspent outputs it keeps.
Indexed == [addresses |-> byAddress, hashes |-> blockByHash, txs |-> blockByTxId,
            indexed |-> uTxOuts]

\* The chain is right, and what is kept beside it is right for that chain.
IndexedInv ==
  /\ ChainInv /\ PinInv
  /\ IndexesRight(Indexed, blockchain)
  /\ WorkRight(cumulativeWork, blockchain)

(* The indexes of the genesis block.                                       *)
LEMMA IndexedInitInv == IndexedInit => IndexedInv
<1> SUFFICES ASSUME IndexedInit PROVE IndexedInv
  OBVIOUS
<1>1. ChainInv /\ PinInv
  <2>1. Init
    BY DEF IndexedInit
  <2> QED
    BY <2>1, InitInv DEF Init, PinInv
<1> DEFINE c == << >>
           d == <<Genesis>>
           at == [addresses |-> [a \in Address |-> << >>], hashes |-> [h \in Hash |-> Unknown],
                  txs |-> [t \in Tx |-> Unknown], indexed |-> {}]
<1>2. blockchain = d /\ d \in Seq(Block) /\ Len(d) = 1 /\ d[1] = Genesis /\ Sound(d) /\ Revalidates(d)
  <2>1. blockchain = d
    BY DEF IndexedInit, Init
  <2>2. Genesis \in Block
    BY GenesisAssumption
  <2> QED
    BY <1>1, <2>1, <2>2 DEF ChainInv, StoreInv
<1>3. c \in Seq(Block) /\ Len(c) = 0 /\ Unspent(c) = {}
  BY DEF Unspent
<1>4. Extends(d, c, Genesis)
  <2>1. Genesis \in Block /\ Genesis.index = 0 /\ ValidateBlockTxs(Genesis.data, {}, 0, 0)
    BY GenesisAssumption
  <2>2. Grows(d, c, Genesis)
    BY <1>2, <1>3 DEF Grows
  <2>3. Counted(Outs(Unspent(c)))
    <3>1. Outs(Unspent(c)) = {}
      BY <1>3 DEF Outs
    <3> QED
      BY <3>1, FS_EmptySet DEF Counted
  <2>4. \A n \in 0..Len(c) : Prefix(d, n) = Prefix(c, n)
    <3>1. SubSeq(d, 1, 0) = << >> /\ SubSeq(c, 1, 0) = << >>
      BY <1>2, <1>3
    <3>2. \A n \in 0..Len(c) : n = 0
      BY <1>3
    <3> HIDE DEF c, d
    <3> QED
      BY <3>1, <3>2 DEF Prefix
  <2> HIDE DEF c, d
  <2> QED
    BY <1>2, <1>3, <2>1, <2>2, <2>3, <2>4 DEF Extends
<1>5. IndexesRight(at, c)
  <2>1. HashesRight(at.hashes, c) /\ TxsRight(at.txs, c)
    BY <1>3 DEF HashesRight, TxsRight
  <2>2. ASSUME NEW a \in Address PROVE HistoryRight(at.addresses[a], a, c)
    <3> DEFINE h == << >>
    <3>1. at.addresses[a] = h /\ h \in Seq(Entries) /\ DOMAIN h = {}
      OBVIOUS
    <3>2. \A n \in 0..Len(c) : n = 0 /\ Prefix(c, n) = c
      BY <1>3 DEF Prefix
    <3>3. Balance(a, Unspent(c)) = 0
      <4>1. Mine(a, Outs(Unspent(c))) = {}
        BY <1>3 DEF Mine, Outs
      <4>2. SumFunctionOnSet(Amount, {}) = 0
        BY FS_EmptySet, SumStep
      <4> QED
        BY <4>1, <4>2 DEF Balance, Value
    <3>4. SumFunctionOnSet(Changes(h), Below(h, 0)) = 0
      <4>1. Below(h, 0) = {}
        BY <3>1 DEF Below
      <4> DEFINE f == Changes(h)
      <4> HIDE DEF f
      <4>2. SumFunctionOnSet(f, {}) = 0
        BY FS_EmptySet, SumStep
      <4> QED
        BY <4>1, <4>2 DEF f
    <3> HIDE DEF h, c
    <3>5. HistoryRight(h, a, c)
      BY <3>1, <3>2, <3>3, <3>4 DEF HistoryRight
    <3> QED
      BY <3>1, <3>5
  <2> QED
    BY <1>3, <2>1, <2>2 DEF IndexesRight
<1>6. Indexed = IndexBlock(at, Genesis)
  <2>1. Genesis.index = 0
    BY GenesisAssumption
  <2> QED
    BY <2>1 DEF Indexed, IndexBlock, IndexedInit, Init
<1>7. IndexesRight(Indexed, blockchain)
  <2> HIDE DEF c, d, at
  <2> QED
    BY <1>2, <1>4, <1>5, <1>6, IndexBlockRight
<1>8. WorkRight(cumulativeWork, blockchain)
  <2>1. cumulativeWork = << >>
    BY DEF IndexedInit
  <2>2. << >> \in Seq(Int) /\ Len(<< >>) = 0
    OBVIOUS
  <2> QED
    BY <1>2, <2>1, <2>2 DEF WorkRight
<1> QED
  BY <1>1, <1>7, <1>8 DEF IndexedInv


(* addBlockToChain indexes the block.                                      *)
LEMMA IndexedAddInv ==
  ASSUME IndexedInv, ChainInv', PinInv',
         NEW b \in Block, NEW now \in Clock, IndexedAddBlock(b, now)
  PROVE  IndexedInv'
<1> DEFINE c == blockchain
           d == Append(c, b)
<1>1. /\ c \in Seq(Block) /\ c # << >> /\ c[1] = Genesis /\ Sound(c) /\ Revalidates(c)
      /\ uTxOuts = Unspent(c) /\ undoLog \in Seq(Undo) /\ UndoMatches(undoLog, c)
  BY DEF IndexedInv, ChainInv, TypeOK, StoreInv, UTxOutsAreUnspent, UndoRestores
<1>2. /\ AddBlockToChain(b, now) /\ IsBlockValid(b, c, now) /\ TxsAccepted(b, Unspent(c), c)
      /\ blockchain' = d /\ cumulativeWork' = cumulativeWork
      /\ uTxOuts' = UpdateUTxOuts(b.data, uTxOuts, b.index)
  BY <1>1 DEF IndexedAddBlock, AddBlockToChain
<1>3. Indexed' = IndexBlock(Indexed, b)
  BY <1>2 DEF IndexedAddBlock, Indexed, IndexBlock
<1>4. Extends(d, c, b)
  <2>1. d \in Seq(Block) /\ Grows(d, c, b) /\ \A n \in 0..Len(c) : Prefix(d, n) = Prefix(c, n)
    BY <1>1, AppendGrows
  <2>2. d[1] = Genesis /\ Sound(d) /\ Revalidates(d)
    BY <1>1, <1>2, AcceptedBlock
  <2>3. b.index = Len(c)
    <3>1. b.index = c[Len(c)].index + 1 /\ Len(c) \in 1..Len(c)
      BY <1>1, <1>2 DEF IsBlockValid, IsHeaderValid, Tip
    <3>2. c[Len(c)].index = Len(c) - 1
      BY <1>1, <3>1 DEF Sound, Heights
    <3> QED
      BY <1>1, <3>1, <3>2
  <2>4. ValidateBlockTxs(b.data, Unspent(c), b.index, MedianTimePast(c))
    BY <1>2 DEF TxsAccepted
  <2>5. Counted(Outs(Unspent(c)))
    BY <1>1, ChainBalanced DEF Balanced
  <2> HIDE DEF c, d
  <2> QED
    BY <1>1, <2>1, <2>2, <2>3, <2>4, <2>5 DEF Extends
<1>5. IndexesRight(Indexed, c)
  BY DEF IndexedInv
<1>6. IndexesRight(IndexBlock(Indexed, b), d)
  <2> DEFINE at == Indexed
  <2> HIDE DEF c, d, at
  <2>1. IndexesRight(at, c)
    BY <1>5 DEF at
  <2>2. IndexesRight(IndexBlock(at, b), d)
    BY <1>4, <2>1, IndexBlockRight
  <2> QED
    BY <2>2 DEF at
<1>7. WorkRight(cumulativeWork, d)
  <2> DEFINE n == Len(cumulativeWork)
  <2>1. /\ WorkRight(cumulativeWork, c) /\ cumulativeWork \in Seq(Int) /\ n \in 0..Len(c)
        /\ \A i \in 1..n : cumulativeWork[i] = WorkTo(c, i)
    BY <1>1 DEF IndexedInv, WorkRight
  <2>2. d \in Seq(Block) /\ Len(c) <= Len(d) /\ \A i \in 1..Len(c) : d[i] = c[i]
    BY <1>1, AppendGrows DEF Grows
  <2>3. Len(c) \in 0..Len(c) /\ Len(c) \in Nat
    BY <1>1
  <2> HIDE DEF c, d
  <2>4. WorkRight(DropWorkFrom(Len(c)), d)
    <3> DEFINE k == Len(c)
    <3>1. k \in 0..Len(c) /\ k <= Len(d) /\ \A i \in 1..k : d[i] = c[i]
      BY <2>2, <2>3
    <3> HIDE DEF k
    <3>2. WorkRight(DropWorkFrom(k), d)
      BY <1>1, <2>1, <2>2, <3>1, DroppedRight
    <3> QED
      BY <3>2 DEF k
  <2>5. DropWorkFrom(Len(c)) = cumulativeWork
    <3>1. Min({Len(c), n}) = n
      BY <2>1, <2>3 DEF Min
    <3> QED
      BY <2>1, <3>1 DEF DropWorkFrom
  <2> QED
    BY <2>4, <2>5
<1> QED
  <2>1. IndexesRight(Indexed, blockchain)'
    BY <1>2, <1>3, <1>6
  <2>2. WorkRight(cumulativeWork, blockchain)'
    BY <1>2, <1>7
  <2> QED
    BY <2>1, <2>2 DEF IndexedInv

(* replaceChain rolls the indexes back to the fork and indexes the branch. *)
LEMMA IndexedAdoptInv ==
  ASSUME IndexedInv, ChainInv', PinInv', IndexedAdopt
  PROVE  IndexedInv'
<1> DEFINE c == blockchain
           d == chain
           n == common
           at == RolledBack(n)
           done == IndexFrom(at, d, n)
<1>1. /\ c \in Seq(Block) /\ c # << >> /\ c[1] = Genesis /\ Sound(c) /\ Revalidates(c)
      /\ uTxOuts = Unspent(c) /\ IndexesRight(Indexed, c) /\ WorkRight(cumulativeWork, c)
  BY DEF IndexedInv, ChainInv, TypeOK, StoreInv, UTxOutsAreUnspent
<1>2. /\ phase = "apply" /\ blockchain' = d /\ uTxOuts' = working
      /\ byAddress' = done.addresses /\ blockByHash' = done.hashes /\ blockByTxId' = done.txs
      /\ cumulativeWork' = FilledTo(DropWorkFrom(n), d, Len(d))
  BY DEF IndexedAdopt, Adopt
<1>3. /\ n \in 0..Len(c) /\ n # 0 /\ n <= Len(d) /\ \A i \in 1..n : d[i] = c[i]
      /\ d \in Seq(Block) /\ d # << >> /\ d[1] = Genesis /\ Sound(d) /\ Revalidates(d)
      /\ atCommon = Unspent(Prefix(c, n)) /\ working = Unspent(d)
  BY <1>2 DEF IndexedInv, ChainInv, ForkInv, Keeps, PinInv, TypeOK
<1>4. n \in 1..Len(d) /\ n \in 0..Len(d) /\ Len(d) \in 0..Len(d)
  BY <1>1, <1>3
<1>5. Prefix(d, n) = Prefix(c, n)
  <2>1. /\ Prefix(d, n) \in Seq(Block) /\ Prefix(c, n) \in Seq(Block)
        /\ Len(Prefix(d, n)) = n /\ Len(Prefix(c, n)) = n
    BY <1>1, <1>3, <1>4, PrefixFacts
  <2>2. \A i \in 1..n : Prefix(d, n)[i] = Prefix(c, n)[i]
    <3>1. ASSUME NEW i \in 1..n PROVE Prefix(d, n)[i] = Prefix(c, n)[i]
      <4>1. Prefix(d, n)[i] = d[i]
        BY <1>3, <1>4, PrefixFacts
      <4>2. Prefix(c, n)[i] = c[i]
        BY <1>1, <1>3, PrefixFacts
      <4> QED
        BY <1>3, <4>1, <4>2
    <3> QED
      BY <3>1
  <2> QED
    BY <2>1, <2>2
<1>6. IndexesRight(at, Prefix(c, n))
  <2>1. IndexesRight([addresses |-> byAddress, hashes |-> blockByHash,
                      txs |-> blockByTxId, indexed |-> uTxOuts], blockchain)
    BY <1>1 DEF Indexed
  <2> QED
    BY <1>1, <1>3, <2>1, RolledBackRight
<1>7. IndexesRight(done, d)
  <2>1. IndexesRight(at, Prefix(d, n))
    BY <1>5, <1>6
  <2> HIDE DEF at, d, n
  <2> QED
    BY <1>3, <1>4, <2>1, IndexFromRight
<1>8. IndexesRight(Indexed, blockchain)'
  <2>1. done.indexed = Unspent(d)
    BY <1>7 DEF IndexesRight
  <2> HIDE DEF done
  <2>2. /\ Indexed'.addresses = done.addresses /\ Indexed'.hashes = done.hashes
        /\ Indexed'.txs = done.txs /\ Indexed'.indexed = done.indexed
    BY <1>2, <1>3, <2>1 DEF Indexed
  <2> DEFINE new == Indexed'
  <2> HIDE DEF new
  <2>3. IndexesRight(new, d)
    BY <1>7, <2>2 DEF IndexesRight, new
  <2> QED
    BY <1>2, <2>3 DEF new
<1>9. WorkRight(cumulativeWork, blockchain)'
  <2> DEFINE kept == DropWorkFrom(n)
             m == Len(d)
  <2>1. WorkRight(kept, d)
    BY <1>1, <1>3, DroppedRight
  <2>2. m \in 0..Len(d)
    BY <1>4
  <2> HIDE DEF kept, m, d
  <2>3. WorkRight(FilledTo(kept, d, m), d)
    BY <1>3, <2>1, <2>2, FilledRight
  <2> QED
    BY <1>2, <2>3 DEF kept, m
<1> QED
  BY <1>8, <1>9 DEF IndexedInv

(* workUpTo fills the cache.                                               *)
LEMMA WorkUpToInv ==
  ASSUME IndexedInv, ChainInv', PinInv', NEW b \in Block, WorkUpTo(b.index)
  PROVE  IndexedInv'
<1> DEFINE c == blockchain
           n == Min({b.index + 1, Len(c)})
<1>1. c \in Seq(Block) /\ WorkRight(cumulativeWork, c) /\ IndexesRight(Indexed, c)
  BY DEF IndexedInv, ChainInv, TypeOK
<1>2. n \in 0..Len(c)
  <2>1. b.index \in Nat /\ Len(c) \in Nat
    BY <1>1, BlockFields
  <2> DEFINE x == b.index + 1
             y == Len(c)
             least(z) == z \in {x, y} /\ \A w \in {x, y} : z <= w
  <2>2. x \in Nat /\ y \in Nat
    BY <2>1
  <2>3. n = CHOOSE z \in {x, y} : \A w \in {x, y} : z <= w
    BY DEF Min
  <2> HIDE DEF x, y, n
  <2>4. least(x) \/ least(y)
    BY <2>2
  <2>5. least(n)
    BY <2>3, <2>4
  <2>6. n \in 0..y
    BY <2>2, <2>5
  <2> QED
    BY <2>6 DEF y
<1>3. /\ cumulativeWork' = FilledTo(cumulativeWork, c, n)
      /\ blockchain' = c /\ Indexed' = Indexed
  BY DEF WorkUpTo, vars, store, Indexed
<1>4. WorkRight(FilledTo(cumulativeWork, c, n), c)
  <2> DEFINE cache == cumulativeWork
  <2>1. WorkRight(cache, c)
    BY <1>1
  <2> HIDE DEF n, c, cache
  <2>2. WorkRight(FilledTo(cache, c, n), c)
    BY <1>1, <1>2, <2>1, FilledRight
  <2> QED
    BY <2>2 DEF cache
<1>5. IndexesRight(Indexed, blockchain)'
  BY <1>1, <1>3
<1>6. WorkRight(cumulativeWork, blockchain)'
  BY <1>3, <1>4
<1> QED
  BY <1>5, <1>6 DEF IndexedInv

(* Every step keeps the invariant.                                         *)
LEMMA IndexedStep ==
  IndexedInv /\ ChainInv' /\ PinInv' /\ [IndexedNext]_<<vars, indexes>> => IndexedInv'
<1> SUFFICES ASSUME IndexedInv, ChainInv', PinInv', [IndexedNext]_<<vars, indexes>>
             PROVE  IndexedInv'
  OBVIOUS
<1>1. ASSUME NEW b \in Block, NEW now \in Clock, IndexedAddBlock(b, now) PROVE IndexedInv'
  BY <1>1, IndexedAddInv
<1>2. CASE IndexedAdopt
  BY <1>2, IndexedAdoptInv
<1>3. ASSUME NEW b \in Block, WorkUpTo(b.index) PROVE IndexedInv'
  BY <1>3, WorkUpToInv
<1>4. CASE UNCHANGED <<blockchain, uTxOuts>> /\ UNCHANGED indexes
  <2>1. /\ Indexed' = Indexed /\ blockchain' = blockchain /\ cumulativeWork' = cumulativeWork
    BY <1>4 DEF Indexed, indexes
  <2>2. IndexesRight(Indexed, blockchain)' /\ WorkRight(cumulativeWork, blockchain)'
    BY <2>1 DEF IndexedInv
  <2> QED
    BY <2>2 DEF IndexedInv
<1>5. CASE ReplaceStep
  <2>1. UNCHANGED <<blockchain, uTxOuts>> /\ UNCHANGED indexes
    BY <1>5 DEF ReplaceStep, StartReplace, RewindBlock, UndoMissing, ReplayBlock, StartApply,
                ApplyBlock, RejectBlock, RejectLighter, store
  <2> QED
    BY <1>4, <2>1
<1>6. CASE UNCHANGED <<vars, indexes>>
  BY <1>4, <1>6 DEF vars, store
<1> QED
  BY <1>1, <1>2, <1>3, <1>5, <1>6 DEF IndexedNext

(* Whatever blocks and reorganisations come, the indexes are those of the  *)
(* chain.                                                                  *)
THEOREM IndexedInvariant == IndexedSpec => []IndexedInv
<1>1. IndexedInv /\ ChainInv' /\ PinInv' /\ [IndexedNext]_<<vars, indexes>> => IndexedInv'
  BY IndexedStep
<1> QED
  BY <1>1, IndexedInitInv, IndexedIsChain, ChainInvariant, PinInvariant, PTL DEF IndexedSpec


(* A lookup that is right says what a scan would.                          *)
LEMMA HashesFound ==
  ASSUME NEW index, NEW c, HashesRight(index, c), NEW h \in Hash
  PROVE  LET at == {i \in 1..Len(c) : c[i].hash = h}
         IN  IF at = {} THEN index[h] = Unknown ELSE \A i \in at : index[h] = i - 1
BY DEF HashesRight

(* A transaction is found where a scan would find it.                      *)
LEMMA TxsFound ==
  ASSUME NEW index, NEW c, TxsRight(index, c), NEW t \in Tx
  PROVE  LET at == {i \in 1..Len(c) : t \in Range(c[i].data)}
         IN  IF at = {} THEN index[t] = Unknown ELSE \A i \in at : index[t] = i - 1
BY DEF TxsRight

(* The work cache is exact.                                                *)
LEMMA WorkFollows ==
  ASSUME NEW c \in Seq(Block), WorkRight(cumulativeWork, c), NEW n \in 1..Len(cumulativeWork)
  PROVE  cumulativeWork[n] = SumFunction([i \in 1..n |-> c[i].work])
<1> DEFINE f == [i \in 1..n |-> c[i].work]
           g == BlockWork(c)
           S == 1..n
<1>1. n \in Nat /\ n <= Len(c) /\ Len(c) \in Nat /\ cumulativeWork[n] = WorkTo(c, n)
  BY DEF WorkRight
<1>2. \A i \in S : i \in 1..Len(c) /\ f[i] = c[i].work
  BY <1>1
<1>3. \A i \in S : g[i] = f[i]
  BY <1>2 DEF BlockWork
<1>4. IsFiniteSet(S)
  BY <1>1, FinitePlaces
<1>5. SumFunction(f) = SumFunctionOnSet(f, S)
  BY DEF SumFunction
<1> HIDE DEF f, g, S
<1>6. SumFunctionOnSet(g, S) = SumFunctionOnSet(f, S)
  BY <1>3, <1>4, SumSame
<1> QED
  BY <1>1, <1>5, <1>6 DEF WorkTo, f, g, S

(* A history adds up to the balance.                                       *)
LEMMA HistoryFollows ==
  ASSUME NEW c \in Seq(Block), NEW a, NEW h, HistoryRight(h, a, c), Counted(Outs(Unspent(c)))
  PROVE  SumFunction([i \in DOMAIN h |-> h[i].received - h[i].spent])
           = SumFunction([o \in Mine(a, Outs(Unspent(c))) |-> AmountOf(o)])
<1> DEFINE mine == Mine(a, Outs(Unspent(c)))
           f == [o \in mine |-> AmountOf(o)]
<1>1. h \in Seq(Entries) /\ Len(c) \in Nat /\ Len(c) \in 0..Len(c)
  BY DEF HistoryRight
<1>2. Below(h, Len(c)) = DOMAIN h
  BY DEF HistoryRight, Below
<1>3. SumFunction(Changes(h)) = SumFunctionOnSet(Changes(h), DOMAIN h)
  BY DEF SumFunction, Changes
<1>4. SumFunction(Changes(h)) = Value(mine)
  <2>1. SumFunctionOnSet(Changes(h), Below(h, Len(c))) = Balance(a, Unspent(Prefix(c, Len(c))))
    BY <1>1 DEF HistoryRight
  <2> QED
    BY <1>2, <1>3, <2>1, PrefixOfAll DEF Balance
<1>5. IsFiniteSet(mine) /\ \A o \in mine : f[o] = Amount[o]
  <2>1. mine \in SUBSET Outs(Unspent(c))
    BY DEF Mine
  <2>2. IsFiniteSet(mine)
    BY <2>1, FS_Subset DEF Counted
  <2> QED
    BY <2>1, <2>2, AmountType DEF Counted
<1>6. SumFunction(f) = SumFunctionOnSet(f, mine)
  BY DEF SumFunction
<1> HIDE DEF f, mine
<1>7. SumFunctionOnSet(f, mine) = SumFunctionOnSet(Amount, mine)
  BY <1>5, SumSame
<1> QED
  BY <1>4, <1>6, <1>7 DEF Value, Changes, f, mine

(* Through every reorganisation, what an address received less what it     *)
(* spent, by its history, is what it has (applyBlock, rollbackTo).         *)
THEOREM HistoryExact == IndexedSpec => []HistoryMatchesBalance
<1>1. IndexedInv => HistoryMatchesBalance
  <2> SUFFICES ASSUME IndexedInv, NEW a \in Address
               PROVE  SumFunction([i \in DOMAIN byAddress[a] |->
                                     byAddress[a][i].received - byAddress[a][i].spent])
                        = SumFunction([o \in {o \in Outs(uTxOuts) : AddressOf(o) = a} |-> AmountOf(o)])
    BY DEF HistoryMatchesBalance
  <2>1. /\ blockchain \in Seq(Block) /\ blockchain # << >> /\ blockchain[1] = Genesis
        /\ Sound(blockchain) /\ Revalidates(blockchain) /\ uTxOuts = Unspent(blockchain)
    BY DEF IndexedInv, ChainInv, TypeOK, StoreInv, UTxOutsAreUnspent
  <2>2. Counted(Outs(Unspent(blockchain)))
    BY <2>1, ChainBalanced DEF Balanced
  <2> DEFINE h == byAddress[a]
  <2>3. HistoryRight(h, a, blockchain)
    BY DEF IndexedInv, IndexesRight, Indexed
  <2> HIDE DEF h
  <2>4. SumFunction([i \in DOMAIN h |-> h[i].received - h[i].spent])
          = SumFunction([o \in Mine(a, Outs(Unspent(blockchain))) |-> AmountOf(o)])
    BY <2>1, <2>2, <2>3, HistoryFollows
  <2> QED
    BY <2>1, <2>4 DEF h, Mine
<1> QED
  BY <1>1, IndexedInvariant, PTL

(* No fork leaves work of another chain in the cache (dropWorkFrom).       *)
THEOREM CachedWorkExact == IndexedSpec => []WorkCacheExact
<1>1. IndexedInv => WorkCacheExact
  <2> SUFFICES ASSUME IndexedInv PROVE WorkCacheExact
    OBVIOUS
  <2>1. blockchain \in Seq(Block) /\ WorkRight(cumulativeWork, blockchain)
    BY DEF IndexedInv, ChainInv, TypeOK
  <2>2. Len(cumulativeWork) <= Len(blockchain)
    BY <2>1 DEF WorkRight
  <2> QED
    BY <2>1, <2>2, WorkFollows DEF WorkCacheExact
<1> QED
  BY <1>1, IndexedInvariant, PTL

(* Where every transaction spends something, the lookups too are those of  *)
(* the chain: everything kept beside it agrees with it at every step.      *)
(* Without the assumption they need not be: see MinedIsFound.              *)
THEOREM IndexesFollow ==
  ASSUME EveryTxSpends
  PROVE  IndexedSpec => []IndexesFollowChain
<1>1. IndexedInv => LookupsFollowChain
  <2> SUFFICES ASSUME IndexedInv PROVE LookupsFollowChain
    OBVIOUS
  <2>1. HashesRight(blockByHash, blockchain) /\ TxsRight(blockByTxId, blockchain)
    BY DEF IndexedInv, IndexesRight, Indexed
  <2> QED
    BY <2>1, HashesFound, TxsFound DEF LookupsFollowChain
<1> QED
  BY <1>1, IndexedInvariant, HistoryExact, CachedWorkExact, PTL DEF IndexesFollowChain
=============================================================================
