------------------------------- MODULE Wallet -------------------------------
(***************************************************************************)
(* The hierarchical wallet of a node (src/wallet.js): the wallet file and  *)
(* the copy of it kept in memory, its passphrase and the timer that locks  *)
(* it again (src/rpc.js), the addresses handed out, the payments made from *)
(* it, and its recovery from the mnemonic.  JavaScript runs an operation   *)
(* to its end; a write may fail half way, and the process may die in it.   *)
(*                                                                         *)
(* A key is its mnemonic, branch and index: derivation is injective.       *)
(***************************************************************************)
EXTENDS Integers, SequencesExt, FiniteSetsExt

CONSTANTS
  Mnemonics, Passphrases, Nobody,    \* Nobody: no passphrase, no wallet read
  Wrong,                             \* what is typed by mistake
  ENV,                               \* LIMCOIN_WALLET_PASSPHRASE
  LEGACY,                            \* a privateKey file of the old format is there
  GAP_LIMIT, MAX_SCAN, DUST, BNB_MAX_TRIES, FEE_ROUNDS,
  IN_SIZE, OUT_SIZE,                 \* bytes of an input and of an output
  Amounts, Payments, Rates,          \* amounts received, amounts sent, fee rates
  SampleCoins, SampleAmounts,        \* bound: what the selection is checked on
  Bounds     \* each behaviour has one: keys of a branch, coins, failed writes, a passphrase or none

ASSUME WalletConstants ==
  /\ {Nobody, Wrong} \cap (Passphrases \cup Mnemonics) = {} /\ ENV \in Passphrases \cup {Nobody}
  /\ LEGACY \in BOOLEAN
  /\ {GAP_LIMIT, DUST, BNB_MAX_TRIES} \subseteq Nat \ {0} /\ FEE_ROUNDS \in Nat
  /\ MAX_SCAN % GAP_LIMIT = 0
  /\ Bounds \subseteq [keys : Nat, coins : Nat, faults : Nat, sealing : BOOLEAN]
  /\ Payments \subseteq {a \in Nat : a >= DUST} /\ Rates \subseteq Nat

VARIABLES
  up,        \* the process runs
  file,      \* the wallet file: a wallet and the passphrase it is sealed with
  cache,     \* cache.wallet
  pass,      \* passphrase
  relock,    \* relockTimer is set
  coins,     \* confirmed outputs
  pool,      \* payments of this wallet waiting in the memory pool
  used,      \* keys the address index has seen in a block
  issued,    \* history: keys handed out by a wallet that could save them
  unsaved,   \* history: the last write failed, the copy in memory is ahead
  timed,     \* history: the wallet was opened for a time
  told,      \* history: passphrases the file may be sealed with
  nextCoin, faults, bound

walletVars == <<up, file, cache, pass, relock, coins, pool, used, issued, unsaved, timed, told,
                nextCoin, faults, bound>>
memory == <<up, pass, relock, timed>>
money == <<coins, pool, used, nextCoin, bound>>

-----------------------------------------------------------------------------
(* Keys. *)
Key(words, branch, index) == [words |-> words, branch |-> branch, index |-> index]
LegacyKey == Key(Nobody, "imported", 0)

AllKeys(w) ==
  {Key(w.words, "receive", i) : i \in 0 .. w.receive - 1}
    \cup {Key(w.words, "change", i) : i \in 0 .. w.change - 1} \cup w.imported

(* restoreFromMnemonic: how many keys of a branch were used, up to a gap.  *)
\* Fault: whole batches are looked at, as the first version did.
RECURSIVE ScanInBatches(_, _, _)
ScanInBatches(words, branch, i) ==
  LET hits == {k \in i .. i + GAP_LIMIT - 1 : Key(words, branch, k) \in used}
  IN  IF hits = {} \/ i >= MAX_SCAN THEN 0
      ELSE LET later == ScanInBatches(words, branch, i + GAP_LIMIT)
           IN  IF later = 0 THEN Max(hits) + 1 ELSE later

RECURSIVE ScanFrom(_, _, _, _, _)
ScanFrom(words, branch, i, count, unused) ==
  IF unused = GAP_LIMIT \/ (i >= MAX_SCAN /\ i % GAP_LIMIT = 0) THEN count
  ELSE IF Key(words, branch, i) \in used
       THEN ScanFrom(words, branch, i + 1, i + 1, 0)
       ELSE ScanFrom(words, branch, i + 1, count, unused + 1)

ScanBatched(words, branch) == ScanInBatches(words, branch, 0)
Scan(words, branch) == ScanFrom(words, branch, 0, 0, 0)

-----------------------------------------------------------------------------
(* Choosing the coins of a payment. *)
Total(cs) == MapThenSumSet(LAMBDA c : c.amount, cs)
Before(c, d) == c.id < d.id
LargestFirst(cs) ==
  SetToSortSeq(cs, LAMBDA c, d : c.amount > d.amount \/ (c.amount = d.amount /\ Before(c, d)))

NoMatch(tries) == [found |-> FALSE, chosen |-> {}, tries |-> tries]

(* The depth-first search of findExactMatch, from the i-th coin on. *)
RECURSIVE Search(_, _, _, _, _)
Search(sorted, i, sum, need, tries) ==
  IF need <= sum /\ sum < need + DUST THEN [found |-> TRUE, chosen |-> {}, tries |-> tries]
  ELSE IF sum > need \/ sum + Total({sorted[k] : k \in i .. Len(sorted)}) < need
       THEN NoMatch(tries)
  ELSE IF tries >= BNB_MAX_TRIES THEN NoMatch(tries + 1)
  ELSE LET with == Search(sorted, i + 1, sum + sorted[i].amount, need, tries + 1)
       IN  IF with.found THEN [with EXCEPT !.chosen = @ \cup {sorted[i]}]
           ELSE Search(sorted, i + 1, sum, need, with.tries)

Chosen(cs, need) == [ok |-> TRUE, ins |-> cs, left |-> Total(cs) - need]

\* Fault: the largest coins are taken without looking for one that is enough.
GreedyOnly(need, cs) ==
  LET sorted == LargestFirst(cs)
      taken(n) == {sorted[k] : k \in 1 .. n}
  IN  IF Total(cs) < need THEN [ok |-> FALSE, ins |-> {}, left |-> 0]
      ELSE Chosen(taken(Min({n \in 1 .. Len(sorted) : Total(taken(n)) >= need})), need)

Select(need, cs) ==
  LET exact == Search(LargestFirst(cs), 1, 0, need, 0)
      enough == {c \in cs : c.amount >= need}
      smallest == CHOOSE c \in enough : \A d \in enough \ {c} :
                    c.amount < d.amount \/ (c.amount = d.amount /\ Before(c, d))
  IN  IF exact.found THEN Chosen(exact.chosen, need)
      ELSE IF enough # {} THEN Chosen({smallest}, need)
      ELSE GreedyOnly(need, cs)

(* One draft of createTx, and the loop that looks for a fee at a rate. *)
ChangeKeys(draft) == IF draft.ok /\ draft.left >= DUST THEN 1 ELSE 0
Size(draft) == Cardinality(draft.ins) * IN_SIZE + (1 + ChangeKeys(draft)) * OUT_SIZE

Quote(draft, fee, keys, last) == [draft |-> draft, fee |-> fee, keys |-> keys, last |-> last]

RECURSIVE FeeLoop(_, _, _, _, _, _)
FeeLoop(amount, rate, cs, guess, keys, round) ==
  LET draft == Select(amount + guess, cs)
      burnt == keys + ChangeKeys(draft)
  IN  IF ~ draft.ok \/ round = FEE_ROUNDS \/ Size(draft) * rate <= guess
      THEN Quote(draft, guess, burnt, round = FEE_ROUNDS)
      ELSE FeeLoop(amount, rate, cs, Size(draft) * rate, burnt, round + 1)

Draft(amount, rate, cs) ==
  IF rate > 0 THEN FeeLoop(amount, rate, cs, 0, 0, 0)
  ELSE LET draft == Select(amount, cs) IN Quote(draft, 0, ChangeKeys(draft), FALSE)

-----------------------------------------------------------------------------
(* Reading the file. *)
File(w, p) == [state |-> "whole", wallet |-> w, sealed |-> p]
NoFile == [state |-> "none", wallet |-> Nobody, sealed |-> Nobody]
Torn == [state |-> "torn", wallet |-> Nobody, sealed |-> Nobody]

Readable == file.state = "whole"
IsEncrypted == Readable /\ file.sealed # Nobody
IsLocked == IsEncrypted /\ pass = Nobody

(* readWallet does not throw; requireWallet lets the request through. *)
Open == up /\ ~ IsLocked /\ (cache # Nobody \/ (Readable /\ file.sealed \in {Nobody, pass}))
Loaded == IF cache # Nobody THEN cache ELSE file.wallet

(* writeWallet: the copy in memory first, then the file in place. *)
Saved(w, p) ==
  /\ file' = File(w, p)
  /\ cache' = w /\ pass' = p /\ unsaved' = FALSE
  /\ UNCHANGED <<up, relock, timed, faults>>

SaveFails(w, p) ==
  /\ faults < bound.faults /\ faults' = faults + 1
  /\ file' \in {file, Torn}
  /\ cache' = w /\ pass' = p /\ unsaved' = TRUE
  /\ UNCHANGED <<up, relock, timed>>

Dead == /\ up' = FALSE /\ cache' = Nobody /\ pass' = ENV /\ unsaved' = FALSE
        /\ relock' = FALSE /\ timed' = FALSE

DiesSaving(w, p) ==
  /\ faults < bound.faults /\ faults' = faults + 1
  /\ file' \in {file, Torn, File(w, p)}
  /\ Dead

\* Fault: the address is given out although the write failed.
CommitAnyway(w, p, keys) == (Saved(w, p) \/ SaveFails(w, p)) /\ issued' = issued \cup keys

(* What a caller is given when the write succeeds. *)
Commit(w, p, keys) ==
  \/ Saved(w, p) /\ issued' = issued \cup keys
  \/ SaveFails(w, p) /\ UNCHANGED issued
  \/ DiesSaving(w, p) /\ UNCHANGED issued

-----------------------------------------------------------------------------
(* Starting, with a new wallet when there is no file (initWallet). *)
NewWallet(words) ==
  [words |-> words, receive |-> 1, change |-> 0, imported |-> IF LEGACY THEN {LegacyKey} ELSE {}]

Fresh(words) == \A k \in used : k.words # words

Start ==
  /\ ~ up /\ file # NoFile
  /\ up' = TRUE /\ told' = told \cup {ENV}
  /\ UNCHANGED <<file, cache, pass, relock, timed, unsaved, faults, issued>> /\ UNCHANGED money

(* The write of a new wallet may throw, and start with it, or be cut short. *)
StartNew ==
  /\ ~ up /\ file = NoFile
  /\ \E words \in Mnemonics :
       LET w == NewWallet(words)
       IN  /\ Fresh(words)
           /\ \/ file' = File(w, ENV) /\ cache' = w /\ up' = TRUE
                 /\ UNCHANGED <<pass, relock, timed, unsaved, faults>>
              \/ DiesSaving(w, ENV)
           /\ issued' = IF file' = File(w, ENV) THEN w.imported ELSE {}
  /\ told' = {ENV}
  /\ UNCHANGED money

Stop ==
  /\ up /\ Dead
  /\ UNCHANGED <<file, issued, told, faults>> /\ UNCHANGED money

(* The operator clears away a file nobody can read. *)
RemoveTorn ==
  /\ ~ up /\ file = Torn /\ file' = NoFile /\ issued' = {}
  /\ UNCHANGED <<up, cache, pass, relock, timed, unsaved, told, faults>> /\ UNCHANGED money

-----------------------------------------------------------------------------
(* The passphrase. *)
Drop == cache' = Nobody /\ unsaved' = FALSE

Right(candidate) == IsEncrypted /\ file.sealed = candidate

(* POST /me/unlock *)
Unlock(candidate) ==
  /\ up /\ Right(candidate)
  /\ pass' = candidate /\ timed' = FALSE /\ Drop
  /\ UNCHANGED <<up, file, relock, told, issued, faults>> /\ UNCHANGED money

\* Fault: the timer is cancelled before the passphrase is looked at.
WalletPassphraseCancelling(candidate, timeout) ==
  /\ up
  /\ IF Right(candidate)
     THEN pass' = candidate /\ timed' = timeout /\ relock' = timeout /\ Drop
     ELSE relock' = FALSE /\ UNCHANGED <<pass, timed, cache, unsaved>>
  /\ UNCHANGED <<up, file, told, issued, faults>> /\ UNCHANGED money

(* walletpassphrase, with and without a timeout *)
WalletPassphrase(candidate, timeout) ==
  /\ up /\ Right(candidate)
  /\ pass' = candidate /\ timed' = timeout /\ relock' = timeout /\ Drop
  /\ UNCHANGED <<up, file, told, issued, faults>> /\ UNCHANGED money

Lock ==
  /\ up /\ pass' = Nobody /\ timed' = FALSE /\ Drop
  /\ UNCHANGED <<up, file, told, issued, faults>> /\ UNCHANGED money

(* POST /me/lock, walletlock, and the timer *)
MeLock == Lock /\ UNCHANGED relock
WalletLock == Lock /\ relock' = FALSE
Relock == relock /\ Lock /\ relock' = FALSE

SetPassphrase(next) ==
  /\ bound.sealing /\ Open /\ Commit(Loaded, next, {})
  /\ told' = IF up' /\ ~ unsaved' THEN {next} ELSE told \cup {next}
  /\ UNCHANGED money

-----------------------------------------------------------------------------
(* Addresses. *)
ReceiveAddress ==
  /\ Open /\ cache' = Loaded
  /\ issued' = IF unsaved THEN issued
               ELSE issued \cup {Key(Loaded.words, "receive", Loaded.receive - 1)}
  /\ UNCHANGED <<file, unsaved, told, faults>> /\ UNCHANGED memory /\ UNCHANGED money

NewAddress ==
  /\ Open /\ Loaded.receive < bound.keys
  /\ Commit([Loaded EXCEPT !.receive = @ + 1], pass, {Key(Loaded.words, "receive", Loaded.receive)})
  /\ UNCHANGED told /\ UNCHANGED money

(* restoreFromMnemonic: the wallet is replaced, its imported key kept. *)
Restored(words) ==
  [words |-> words, receive |-> Max({1, Scan(words, "receive")}),
   change |-> Scan(words, "change"), imported |-> Loaded.imported]

Restore(words) ==
  /\ Open
  /\ LET w == Restored(words)
     IN  \/ Saved(w, pass) /\ issued' = (issued \cap used \cap AllKeys(w)) \cup w.imported
         \/ SaveFails(w, pass) /\ issued' = w.imported
         \/ DiesSaving(w, pass) /\ issued' = w.imported
  /\ UNCHANGED told /\ UNCHANGED money

-----------------------------------------------------------------------------
(* Payments. *)
Change(t) == IF t.change = Nobody THEN {} ELSE {[id |-> t.id, key |-> t.change, amount |-> t.left]}
Spent == {c.id : c \in UNION {t.ins : t \in pool}}

\* Fault: only what blocks hold is looked at.
AvailableConfirmed == {c \in coins : c.key \in AllKeys(Loaded)}

(* getSpendableUTxOuts and filterUTxOutsFromMempool *)
Available ==
  {c \in coins \cup UNION {Change(t) : t \in pool} : c.key \in AllKeys(Loaded) /\ c.id \notin Spent}

(* sendTx: every draft with change takes an address and saves the wallet;  *)
(* the memory pool may still refuse the payment.                           *)
Send(amount, rate) ==
  LET q == Draft(amount, rate, Available)
      taking(n) == [Loaded EXCEPT !.change = @ + n]
      change == IF ChangeKeys(q.draft) = 0 THEN Nobody
                ELSE Key(Loaded.words, "change", Loaded.change + q.keys - 1)
      tx == [id |-> nextCoin, ins |-> q.draft.ins, amount |-> amount, rate |-> rate,
             fee |-> q.fee, left |-> q.draft.left, change |-> change, last |-> q.last]
  IN  /\ Open /\ Loaded.change + q.keys <= bound.keys /\ nextCoin <= bound.coins
      /\ \/ /\ q.keys = 0 /\ cache' = Loaded
            /\ UNCHANGED <<file, issued, unsaved, faults>> /\ UNCHANGED memory
         \/ q.keys > 0 /\ Commit(taking(q.keys), pass, {change} \ {Nobody})
         \/ \E n \in 1 .. q.keys - 1 :
              (SaveFails(taking(n), pass) \/ DiesSaving(taking(n), pass)) /\ UNCHANGED issued
      /\ \/ UNCHANGED <<pool, nextCoin>>
         \/ /\ q.draft.ok /\ up' /\ (q.keys > 0 => ~ unsaved')
            /\ pool' = pool \cup {tx} /\ nextCoin' = nextCoin + 1
      /\ UNCHANGED <<coins, used, told, bound>>

(* Somebody pays an address the wallet gave out. *)
Pay(k, amount) ==
  /\ nextCoin <= bound.coins /\ nextCoin' = nextCoin + 1
  /\ coins' = coins \cup {[id |-> nextCoin, key |-> k, amount |-> amount]}
  /\ used' = used \cup {k}
  /\ UNCHANGED <<file, cache, pool, unsaved, issued, told, faults, bound>> /\ UNCHANGED memory

Mined(t) ==
  /\ t.ins \subseteq coins
  /\ coins' = (coins \ t.ins) \cup Change(t)
  /\ used' = used \cup ({t.change} \ {Nobody})
  /\ pool' = pool \ {t}
  /\ UNCHANGED <<file, cache, unsaved, issued, told, nextCoin, faults, bound>> /\ UNCHANGED memory

(* A payment nothing in the pool depends on leaves it unmined. *)
Dropped(t) ==
  /\ \A other \in pool : Change(t) \cap other.ins = {}
  /\ pool' = pool \ {t}
  /\ UNCHANGED <<file, cache, coins, used, unsaved, issued, told, nextCoin, faults, bound>>
  /\ UNCHANGED memory

-----------------------------------------------------------------------------
WalletInit ==
  /\ up = FALSE /\ file = NoFile /\ cache = Nobody /\ pass = ENV /\ relock = FALSE
  /\ coins = {} /\ pool = {} /\ used = {}
  /\ issued = {} /\ unsaved = FALSE /\ timed = FALSE /\ told = {ENV}
  /\ nextCoin = 1 /\ faults = 0 /\ bound \in Bounds

WalletNext ==
  \/ Start \/ StartNew \/ Stop \/ RemoveTorn
  \/ \E p \in Passphrases \cup {Wrong} : Unlock(p) \/ \E timeout \in BOOLEAN : WalletPassphrase(p, timeout)
  \/ MeLock \/ WalletLock \/ Relock
  \/ \E p \in Passphrases \cup {Nobody} : SetPassphrase(p)
  \/ ReceiveAddress \/ NewAddress \/ \E words \in Mnemonics : Restore(words)
  \/ \E amount \in Payments, rate \in Rates : Send(amount, rate)
  \/ \E k \in {i \in issued : i.branch # "change"}, amount \in Amounts : Pay(k, amount)
  \/ \E t \in pool : Mined(t) \/ Dropped(t)

WalletSpec == WalletInit /\ [][WalletNext]_walletVars

-----------------------------------------------------------------------------
KeyType ==
  [words : Mnemonics, branch : {"receive", "change"}, index : 0 .. bound.keys] \cup {LegacyKey}
WalletType ==
  [words : Mnemonics, receive : 1 .. bound.keys, change : 0 .. bound.keys, imported : SUBSET {LegacyKey}]
CoinType == [id : 1 .. bound.coins, key : KeyType, amount : Nat]

WalletTypes ==
  /\ file \in {NoFile, Torn} \cup {File(w, p) : w \in WalletType, p \in Passphrases \cup {Nobody}}
  /\ cache \in WalletType \cup {Nobody} /\ pass \in Passphrases \cup {Nobody}
  /\ {up, relock, unsaved, timed} \subseteq BOOLEAN
  /\ issued \cup used \subseteq KeyType /\ coins \subseteq CoinType

(* Every key the wallet gave out after a write that succeeded, and every   *)
(* change key of its payments, is a key of the file as long as the file    *)
(* can be read, whatever writes fail and whenever the process dies; so no  *)
(* address is given out twice and no payment to one is overlooked.  With   *)
(* the types of the variables (getNewAddress, getChangeAddress,            *)
(* writeWallet, readWallet).                                               *)
KeysKept ==
  /\ WalletTypes
  /\ Readable => issued \subseteq AllKeys(file.wallet)
  /\ cache # Nobody => issued \subseteq AllKeys(cache)

(* The selection does what its comments promise: it fails only when the    *)
(* money is short, it finds a combination without change when there is     *)
(* one, and else takes the smallest coin that is enough by itself.         *)
ChosenRight(need, cs, choice) ==
  LET exact == {c \in SUBSET cs : need <= Total(c) /\ Total(c) < need + DUST}
      enough == {c \in cs : c.amount >= need}
  IN  /\ choice.ok <=> Total(cs) >= need
      /\ choice.ok => choice.ins \subseteq cs /\ Total(choice.ins) = need + choice.left /\ choice.left >= 0
      /\ exact # {} => choice.left < DUST
      /\ exact = {} /\ enough # {} =>
           \E c \in enough : choice.ins = {c} /\ \A d \in enough : c.amount <= d.amount

Samples == {{[id |-> k, amount |-> f[k]] : k \in DOMAIN f} : f \in [SampleCoins -> SampleAmounts]}
SelectionExact ==
  \A cs \in Samples : \A need \in 1 .. Total(cs) + 1 : ChosenRight(need, cs, Select(need, cs))

Paid(t) == Total(t.ins) - t.amount - Total(Change(t))

(* What createTx builds: no two waiting payments spend the same coin, even *)
(* when one spends the other's change; the fee is the one asked for and    *)
(* less than DUST more; no change below DUST is made; at a fee rate the    *)
(* fee covers the size, unless the loop gave up on its last round.         *)
PaymentsExact ==
  /\ SelectionExact
  /\ \A t, u \in pool : t # u => t.ins \cap u.ins = {}
  /\ \A t \in pool :
       /\ t.fee <= Paid(t) /\ Paid(t) < t.fee + DUST
       /\ \A c \in Change(t) : c.amount >= DUST
       /\ ~ t.last => Paid(t) >= t.rate * (Cardinality(t.ins) * IN_SIZE + (1 + Cardinality(Change(t))) * OUT_SIZE)

(* How many keys of a branch a recovery must find: the first GAP_LIMIT     *)
(* unused keys in a row end the search.                                    *)
UsedBeforeGap(words, branch) ==
  Min({n \in 0 .. MAX_SCAN :
         \A k \in n .. n + GAP_LIMIT - 1 : n = MAX_SCAN \/ Key(words, branch, k) \notin used})

(* A recovery from the mnemonic finds exactly the keys used before the     *)
(* first gap, keeps the first receiving address and the imported key       *)
(* (restoreFromMnemonic), from any earlier wallet.                         *)
RestoreFindsPaid ==
  [][\A words \in Mnemonics : Restore(words) /\ up' =>
       /\ cache'.words = words /\ cache'.imported = Loaded.imported
       /\ cache'.receive = Max({1, UsedBeforeGap(words, "receive")})
       /\ cache'.change = UsedBeforeGap(words, "change")]_walletVars

(* A locked wallet keeps no keys in memory; one opened for a time has its  *)
(* timer running, whatever else is called; and the file is sealed as the   *)
(* operator last asked, never left open by a write from a locked wallet    *)
(* (lock, unlock, walletpassphrase, setPassphrase, writeWallet).           *)
LockHolds ==
  /\ IsLocked /\ ~ unsaved => cache = Nobody
  /\ timed /\ pass # Nobody => relock
  /\ Readable => file.sealed \in told
=============================================================================
