-------------------------------- MODULE Sync --------------------------------
(***************************************************************************)
(* Header-first synchronisation between nodes (src/p2p.js): a node that    *)
(* hears of a heavier chain asks for headers after a locator of its own    *)
(* chain, weighs them, and then asks for the blocks, batch by batch.       *)
(*                                                                         *)
(* Every node here follows the code, so that all blocks are valid and each *)
(* has a fixed place in a tree of blocks: a chain is named by its last     *)
(* block.  Links are FIFO in both directions; whatever is under way on a   *)
(* link is lost with it, as is the sync state, which belongs to the        *)
(* socket.  One action is one run of the message handler, or the dropping  *)
(* of a message before it (the rate limit, a sealed frame out of step).    *)
(***************************************************************************)
EXTENDS Integers, FiniteSets, SequencesExt

CONSTANTS Node, Block, Genesis,
          Dials,         \* pairs <<n, p>>: n dials p, and dials again
          Chain,         \* the chain that ends in a block, from Genesis on
          Work,          \* the work of that chain
          Size,          \* the bytes of its blocks as JSON
          DENSE,         \* locator: hashes before the steps double (10)
          MAX_HEADERS_PER_BATCH, MAX_BLOCKS_PER_BATCH, MAX_BATCH_BYTES,
          MAX_HEADER_BUFFER, MAX_SYNC_BUFFER,
          BAD_BLOCK, MALFORMED, FLOOD, BAN_THRESHOLD,
          MAX_NET        \* bound: news waits while a link holds more messages

Pairs == {l \in Node \X Node : l[1] # l[2]}
Other(l) == <<l[2], l[1]>>
Parent(b) == Chain[b][Len(Chain[b]) - 1]

ASSUME SyncConstants ==
  /\ Dials \subseteq Pairs /\ \A l \in Dials : Other(l) \notin Dials
  /\ Genesis \in Block /\ Chain \in [Block -> Seq(Block)] /\ Chain[Genesis] = <<Genesis>>
  /\ \A b \in Block \ {Genesis} :
       /\ Parent(b) \in Block /\ Chain[b] = Append(Chain[Parent(b)], b)
       /\ Work[b] > Work[Parent(b)]
  /\ Work \in [Block -> Nat] /\ Size \in [Block -> Nat]
  /\ DENSE \in Nat \ {0, 1}
  /\ MAX_HEADERS_PER_BATCH \in Nat \ {0} /\ MAX_BLOCKS_PER_BATCH \in Nat \ {0}
  /\ {MAX_HEADER_BUFFER, BAD_BLOCK, MALFORMED, FLOOD, BAN_THRESHOLD} \subseteq Nat

VARIABLES
  tip,        \* the last block of each node's chain
  links,      \* the pairs that are connected
  net,        \* net[<<n, p>>]: messages from n to p
  sync,       \* sync[<<n, p>>]: ws.sync of n's socket to p
  score,      \* score[<<n, p>>]: banScore of n's socket to p
  banned,     \* pairs <<n, p>>: n has banned p
  disturbed,  \* history: pairs <<n, p>> whose exchange did not go undisturbed:
              \* p's chain changed, n's was reorganised, a request timed out
              \* or a message was dropped
  missed,     \* history: pairs <<n, p>> such that p's tip is heavier and n let
              \* it go by, gave up on it or never heard of it
  calm        \* from now on no block is found and no connection breaks

syncVars == <<tip, links, net, sync, score, banned, disturbed, missed, calm>>

-----------------------------------------------------------------------------
Height(b) == Len(Chain[b]) - 1
Has(t, b) == Contains(Chain[t], b)

FreshSync ==
  [phase |-> "null", inFlight |-> FALSE, late |-> FALSE, headers |-> << >>,
   forkParent |-> -1, expected |-> {}, buffer |-> << >>, progressed |-> FALSE,
   astray |-> FALSE]   \* history: the last request threw and never left, or a
                       \* request or an answer was dropped

IsStale(s) == s.inFlight /\ s.late

\* Fault: the next batch is asked for after our own chain, whatever was buffered.
LocatorHeadOfChain(s, t) == << >>

\* What a locator says ahead of the node's own chain.
LocatorHead(s, t) ==
  IF s.buffer # << >> THEN <<Last(s.buffer)>>
  ELSE IF s.phase = "blocks" /\ s.forkParent # -1 THEN <<Chain[t][s.forkParent + 1]>>
  ELSE IF s.phase = "headers" /\ s.headers # << >> THEN <<Last(s.headers)>>
  ELSE << >>

\* Fault: batches need not meet.
BreaksOffNever(bs, parent) == FALSE

\* A batch after parent does not continue what was received.
BreaksOff(bs, parent) == bs # << >> /\ parent # Last(bs)

\* The fork height points past the end of the chain: buildLocator throws.
LocatorThrows(s, t) ==
  s.buffer = << >> /\ s.phase = "blocks" /\ s.forkParent > Height(t)

(* DENSE hashes one by one from the end, then in doubling steps, at last   *)
(* the genesis block.                                                      *)
BuildLocator(s, t) ==
  LET head == LocatorHead(s, t)
      dense == DENSE - Len(head)
      back(k) == IF k <= dense THEN k - 1 ELSE dense - 3 + 2 ^ (k - dense + 1)
      places == {k \in 1..Height(t) : back(k) < Height(t)}
  IN  head \o [k \in 1..Cardinality(places) |-> Chain[t][Height(t) - back(k) + 1]]
           \o <<Genesis>>

(* The height after the first hash of the locator that t's chain has.      *)
StartAfterLocator(locator, t) ==
  LET known == {k \in DOMAIN locator : Has(t, locator[k])}
  IN  IF known = {} THEN 0 ELSE Height(locator[Min(known)]) + 1

After(locator, t) == SubSeq(Chain[t], StartAfterLocator(locator, t) + 1, Height(t) + 1)

Upto(bs, n) == SubSeq(bs, 1, IF n < Len(bs) THEN n ELSE Len(bs))

\* Messages
GetLatest == [type |-> "GET_LATEST"]
Latest(t) == [type |-> "BLOCKCHAIN_RESPONSE", tip |-> t]
GetHeaders(s, t) == [type |-> "GET_HEADERS", locator |-> BuildLocator(s, t)]
GetBlocks(s, t) == [type |-> "GET_BLOCKS", locator |-> BuildLocator(s, t)]
Headers(bs, t) == [type |-> "HEADERS_RESPONSE", blocks |-> bs, height |-> Height(t)]
Blocks(bs, t) == [type |-> "BLOCKS_RESPONSE", blocks |-> bs, height |-> Height(t)]

ResponseHeaders(locator, t) == Headers(Upto(After(locator, t), MAX_HEADERS_PER_BATCH), t)

(* As many blocks as the count and the bytes allow, but one at least.      *)
ResponseBlocks(locator, t) ==
  LET all == Upto(After(locator, t), MAX_BLOCKS_PER_BATCH)
      fits == {k \in 1..Len(all) : k = 1 \/ Size[all[k]] - Size[Parent(all[1])] <= MAX_BATCH_BYTES}
  IN  Blocks(IF fits = {} THEN << >> ELSE SubSeq(all, 1, Max(fits)), t)

-----------------------------------------------------------------------------
SyncInit ==
  /\ tip \in [Node -> {Genesis}]
  /\ links = {} /\ banned = {} /\ disturbed = {} /\ calm = FALSE
  /\ net = [l \in Pairs |-> << >>]
  /\ sync = [l \in Pairs |-> FreshSync]
  /\ score = [l \in Pairs |-> 0] /\ missed = {}

Sent(q, l, messages) == [q EXCEPT ![l] = @ \o messages]
Read(l) == [net EXCEPT ![Other(l)] = Tail(@)]
Incoming(l, type) == net[Other(l)] # << >> /\ Head(net[Other(l)]).type = type
Message(l) == Head(net[Other(l)])

(* broadcastNewBlock *)
Broadcast(q, n, t) ==
  [l \in Pairs |-> IF l[1] = n /\ l \in links THEN Append(q[l], Latest(t)) ELSE q[l]]

(* The tip of n moves to t: exchanges that rest on n's chain are marked.   *)
MoveTip(n, t) ==
  /\ tip' = [tip EXCEPT ![n] = t]
  /\ disturbed' = disturbed \cup
       {l \in Pairs : /\ t # tip[n] /\ sync[l].phase # "null"
                      /\ l[2] = n \/ (l[1] = n /\ ~ Has(t, tip[n]))}

StayPut == UNCHANGED <<tip, disturbed>>

\* A missed tip is one until it moves or ours is as heavy.
Misses(K) ==
  missed' = {l \in missed \cup K : /\ tip'[l[2]] = tip[l[2]]
                                  /\ Work[tip'[l[1]]] < Work[tip[l[2]]]}

Linked == UNCHANGED <<links, score, banned>>

(* n sets the state of its sync with l[2] and sends messages to it.        *)
Answer(l, s, messages) ==
  /\ sync' = [sync EXCEPT ![l] = s]
  /\ net' = Sent(Read(l), l, messages)
  /\ Linked /\ Misses({})

\* n does no more about the tip b of l[2].
PassOver(l, b) == Misses({k \in {l} : b = tip[l[2]]})

Ignore(l, s, b) ==
  /\ sync' = [sync EXCEPT ![l] = s]
  /\ net' = Read(l)
  /\ Linked /\ PassOver(l, b)

Close(l) ==
  /\ links' = links \ {l, Other(l)}
  /\ net' = [net EXCEPT ![l] = << >>, ![Other(l)] = << >>]

(* misbehaving: at the threshold the peer is banned and cut off.           *)
Misbehaving(l, points, states) ==
  IF score[l] + points < BAN_THRESHOLD
  THEN /\ score' = [score EXCEPT ![l] = @ + points]
       /\ sync' = states
       /\ net' = Read(l)
       /\ UNCHANGED <<links, banned>>
  ELSE /\ banned' = banned \cup {l}
       /\ Close(l)
       /\ score' = [score EXCEPT ![l] = @ + points, ![Other(l)] = 0]
       /\ sync' = [sync EXCEPT ![l] = FreshSync, ![Other(l)] = FreshSync]

\* Fault: only the request is forgotten.
ResetRequest(l) == StayPut /\ Answer(l, [sync[l] EXCEPT !.inFlight = FALSE], << >>)

ResetSync(l) == StayPut /\ Ignore(l, FreshSync, tip[l[2]])
ResetBlaming(l) ==
  /\ StayPut /\ PassOver(l, tip[l[2]])
  /\ Misbehaving(l, BAD_BLOCK, [sync EXCEPT ![l] = FreshSync])

-----------------------------------------------------------------------------
(* Requests.  News that comes while something is under way is passed over. *)
(* A request that throws in buildLocator is marked as sent but never       *)
(* leaves, and the peer is blamed for the exception.                       *)
HeadersAsked(s) ==
  [s EXCEPT !.phase = "headers", !.inFlight = TRUE, !.late = FALSE, !.astray = FALSE]
BlocksAsked(s) ==
  [s EXCEPT !.phase = "blocks", !.inFlight = TRUE, !.late = FALSE, !.astray = FALSE]

RequestHeaders(l, s, t) ==
  LET r == IF IsStale(s) THEN FreshSync ELSE s
  IN  IF (s.phase = "blocks" /\ ~ IsStale(s)) \/ r.inFlight
      THEN Ignore(l, s, Message(l).tip)
      ELSE Answer(l, HeadersAsked(r), <<GetHeaders(HeadersAsked(r), t)>>)

RequestBlocks(l, s, t) ==
  IF LocatorThrows(BlocksAsked(s), t)
  THEN /\ Misbehaving(l, MALFORMED, [sync EXCEPT ![l] = [BlocksAsked(s) EXCEPT !.astray = TRUE]])
       /\ PassOver(l, tip[l[2]])
  ELSE Answer(l, BlocksAsked(s), <<GetBlocks(BlocksAsked(s), t)>>)

AnswerLatest(l) ==
  /\ Incoming(l, "GET_LATEST")
  /\ StayPut /\ Answer(l, sync[l], <<Latest(tip[l[1]])>>)

AnswerHeaders(l) ==
  /\ Incoming(l, "GET_HEADERS")
  /\ StayPut /\ Answer(l, sync[l], <<ResponseHeaders(Message(l).locator, tip[l[1]])>>)

AnswerBlocks(l) ==
  /\ Incoming(l, "GET_BLOCKS")
  /\ StayPut /\ Answer(l, sync[l], <<ResponseBlocks(Message(l).locator, tip[l[1]])>>)

(* handleBlockchainResponse: the block extends our tip, or the peer claims *)
(* more work, or there is nothing to do.                                   *)
HandleBlockchainResponse(l) ==
  /\ Incoming(l, "BLOCKCHAIN_RESPONSE")
  /\ LET n == l[1]
         b == Message(l).tip
     IN  IF b # Genesis /\ Parent(b) = tip[n]
         THEN /\ MoveTip(n, b)
              /\ net' = Broadcast(Read(l), n, b)
              /\ UNCHANGED sync /\ Linked /\ Misses({})
         ELSE /\ StayPut
              /\ IF Work[b] > Work[tip[n]]
                 THEN RequestHeaders(l, sync[l], tip[n])
                 ELSE Answer(l, sync[l], << >>)

-----------------------------------------------------------------------------
\* Fault: the longer chain, not the heavier one, is worth its blocks.
FinishHeadersIfLonger(l, s, t) ==
  IF s.headers = << >> \/ Height(Last(s.headers)) <= Height(t)
  THEN Answer(l, FreshSync, << >>)
  ELSE RequestBlocks(l, [s EXCEPT !.expected = ToSet(s.headers), !.headers = << >>], t)

(* The headers are in.  Only a heavier chain is worth its blocks.          *)
FinishHeaders(l, s, t) ==
  IF s.headers = << >> \/ Work[Last(s.headers)] <= Work[t]
  THEN Answer(l, FreshSync, << >>)
  ELSE RequestBlocks(l, [s EXCEPT !.expected = ToSet(s.headers), !.headers = << >>], t)

(* A first batch must join our chain somewhere, a later one the headers    *)
(* before it.                                                              *)
HandleHeadersResponse(l) ==
  /\ Incoming(l, "HEADERS_RESPONSE")
  /\ LET t == tip[l[1]]
         s == [sync[l] EXCEPT !.inFlight = FALSE]
         hs == Message(l).blocks
         fork == Parent(hs[1])
         got == [s EXCEPT !.headers = @ \o hs,
                          !.forkParent = IF s.headers = << >> THEN Height(fork) ELSE @]
         room == MAX_HEADER_BUFFER - Len(s.headers)
     IN  IF sync[l].phase # "headers" THEN StayPut /\ Ignore(l, sync[l], tip[l[2]])
         ELSE IF hs = << >> THEN StayPut /\ FinishHeaders(l, s, t)
         ELSE IF s.headers = << >> /\ ~ Has(t, fork) THEN ResetSync(l)
         ELSE IF BreaksOff(s.headers, fork) /\ room > 0 THEN ResetBlaming(l)
         ELSE IF Len(hs) > room THEN ResetSync(l)
         ELSE IF Height(Last(hs)) >= Message(l).height THEN StayPut /\ FinishHeaders(l, got, t)
         ELSE StayPut /\ RequestHeaders(l, got, t)

\* Fault: the branch was found heavier when its headers came, so it is taken.
FinishSyncUnweighed(l, s, t) ==
  LET n == l[1]
      wins == s.buffer # << >> /\ Has(t, Parent(s.buffer[1]))
      best == IF wins THEN Last(s.buffer) ELSE t
  IN  /\ MoveTip(n, best)
      /\ sync' = [sync EXCEPT ![l] = FreshSync]
      /\ net' = IF wins \/ s.progressed THEN Broadcast(Read(l), n, best) ELSE Read(l)
      /\ Linked /\ Misses({})

(* What was buffered replaces the end of our chain if that makes it        *)
(* heavier; what changed is announced.  (A second announcement of the same *)
(* tip, for blocks appended before, says nothing new.)  A branch that no   *)
(* longer starts in our chain is given up.                                 *)
FinishSync(l, s, t) ==
  LET n == l[1]
      joins == s.buffer = << >> \/ Has(t, Parent(s.buffer[1]))
      wins == s.buffer # << >> /\ joins /\ Work[Last(s.buffer)] > Work[t]
      best == IF wins THEN Last(s.buffer) ELSE t
  IN  /\ MoveTip(n, best)
      /\ sync' = [sync EXCEPT ![l] = FreshSync]
      /\ net' = IF wins \/ s.progressed THEN Broadcast(Read(l), n, best) ELSE Read(l)
      /\ Linked /\ Misses(IF joins THEN {} ELSE {l})

\* The rest of the handler, once a batch has been taken in.
AfterBatch(l, s, t, bs) ==
  IF Height(Last(bs)) >= Message(l).height THEN FinishSync(l, s, t)
  ELSE MoveTip(l[1], t) /\ RequestBlocks(l, s, t)

(* A batch that continues our chain is appended; any other is buffered if  *)
(* it joins our chain, or the buffer.                                      *)
HandleBlocksResponse(l) ==
  /\ Incoming(l, "BLOCKS_RESPONSE")
  /\ LET t == tip[l[1]]
         s == [sync[l] EXCEPT !.inFlight = FALSE]
         bs == Message(l).blocks
         fork == Parent(bs[1])
     IN  IF bs = << >> THEN FinishSync(l, s, t)
         ELSE IF s.expected # {} /\ ~ (ToSet(bs) \subseteq s.expected) THEN ResetBlaming(l)
         ELSE IF s.buffer = << >> /\ fork = t
         THEN AfterBatch(l, [s EXCEPT !.progressed = TRUE], Last(bs), bs)
         ELSE IF s.buffer = << >> /\ ~ Has(t, fork) THEN ResetSync(l)
         ELSE IF BreaksOff(s.buffer, fork) THEN ResetBlaming(l)
         ELSE IF Len(s.buffer) + Len(bs) > MAX_SYNC_BUFFER THEN ResetSync(l)
         ELSE AfterBatch(l, [s EXCEPT !.buffer = @ \o bs], t, bs)

-----------------------------------------------------------------------------
(* A block is found by the node's miner or comes from elsewhere, alone or  *)
(* as a heavier branch.                                                    *)
NewTip(n, b) ==
  /\ ~ calm
  /\ Work[b] > Work[tip[n]]
  /\ \A l \in Pairs : Len(net[l]) <= MAX_NET
  /\ MoveTip(n, b)
  /\ net' = Broadcast(net, n, b)
  /\ Misses({})
  /\ UNCHANGED <<links, sync, score, banned, calm>>

\* Both ends begin again.
Afresh(l) ==
  /\ sync' = [sync EXCEPT ![l] = FreshSync, ![Other(l)] = FreshSync]
  /\ score' = [score EXCEPT ![l] = 0, ![Other(l)] = 0]
  /\ disturbed' = disturbed \ {l, Other(l)} /\ missed' = missed \ {l, Other(l)}
  /\ UNCHANGED <<tip, banned, calm>>

\* A socket opens: both ends ask for the other's tip.
Connect(l) ==
  /\ l \notin links /\ {l, Other(l)} \cap banned = {}
  /\ links' = links \cup {l, Other(l)}
  /\ net' = [net EXCEPT ![l] = <<GetLatest>>, ![Other(l)] = <<GetLatest>>]
  /\ Afresh(l)

(* A connection breaks, with all that is under way on it.                  *)
Drop(l) ==
  /\ l \in links /\ ~ calm
  /\ Close(l)
  /\ Afresh(l)

(* SYNC_REQUEST_TIMEOUT has passed; the answer may still come.             *)
Timeout(l) ==
  /\ sync[l].inFlight /\ ~ sync[l].late
  /\ sync' = [sync EXCEPT ![l].late = TRUE]
  /\ disturbed' = disturbed \cup {l}
  /\ UNCHANGED <<tip, links, net, score, banned, missed, calm>>

\* Whose exchange the message on l belongs to.
Asker(l) ==
  IF Message(l).type \in {"BLOCKCHAIN_RESPONSE", "HEADERS_RESPONSE", "BLOCKS_RESPONSE"}
  THEN l ELSE Other(l)

\* The tip its reader will not hear of.
Unheard(l) ==
  IF Message(l).type = "BLOCKCHAIN_RESPONSE" THEN Message(l).tip ELSE tip[Asker(l)[2]]

(* A message is dropped before its handler sees it, and its sender is      *)
(* blamed: it is over the rate (FLOOD), or a sealed frame that is out of   *)
(* step since one before it was (MALFORMED; module Transport).             *)
Discard(l) ==
  /\ net[Other(l)] # << >>
  /\ \E points \in {FLOOD, MALFORMED} :
       Misbehaving(l, points, [sync EXCEPT ![Asker(l)].astray = TRUE])
  /\ disturbed' = disturbed \cup {l, Other(l)}
  /\ UNCHANGED <<tip, calm>>
  /\ PassOver(Asker(l), Unheard(l))

Settle ==
  ~ calm /\ calm' = TRUE
  /\ UNCHANGED <<tip, links, net, sync, score, banned, disturbed, missed>>

Receive(l) ==
  /\ \/ AnswerLatest(l) \/ AnswerHeaders(l) \/ AnswerBlocks(l)
     \/ HandleBlockchainResponse(l) \/ HandleHeadersResponse(l) \/ HandleBlocksResponse(l)
  /\ UNCHANGED calm

SyncNext ==
  \/ \E l \in Pairs : Receive(l) \/ Discard(l) \/ Timeout(l)
  \/ \E l \in Dials : Connect(l) \/ Drop(l)
  \/ \E n \in Node, b \in Block : NewTip(n, b)
  \/ Settle

(* Sockets deliver, and closed connections are made again                  *)
(* (scheduleReconnect).  Nothing else makes a connection begin anew.       *)
SyncFairness ==
  /\ WF_syncVars(\E l \in Pairs : Receive(l))
  /\ \A l \in Dials : WF_syncVars(Connect(l))

SyncSpec == SyncInit /\ [][SyncNext]_syncVars /\ SyncFairness

-----------------------------------------------------------------------------
(* Types; headers and buffered blocks are always a piece of one chain, and *)
(* a closed link has no state.                                             *)
SyncTypeOK ==
  /\ tip \in [Node -> Block]
  /\ links \subseteq Pairs /\ banned \subseteq Pairs
  /\ disturbed \subseteq Pairs /\ missed \subseteq Pairs
  /\ score \in [Pairs -> Nat]
  /\ \A l \in Pairs :
       /\ sync[l].phase \in {"null", "headers", "blocks"}
       /\ \A i \in 2..Len(sync[l].headers) : Parent(sync[l].headers[i]) = sync[l].headers[i - 1]
       /\ \A i \in 2..Len(sync[l].buffer) : Parent(sync[l].buffer[i]) = sync[l].buffer[i - 1]
       /\ sync[l].expected \subseteq Block
       /\ sync[l].forkParent \in Nat \cup {-1}
       /\ l \notin links => sync[l] = FreshSync /\ net[l] = << >>

(* A peer that follows the protocol is never blamed, as long as its chain  *)
(* stays, ours is not reorganised, no request times out and no message is  *)
(* dropped while we exchange: batches, locators and own new blocks give no *)
(* wrong verdict.                                                          *)
UndisturbedNotBlamed == \A l \in Pairs : score[l] > 0 => l \in disturbed

(* resetSync: "blame only for what the peer did wrong; a normal end of the *)
(* exchange costs nothing" (p2p.js:875-876).  Every peer here is honest.   *)
HonestNotBlamed == \A l \in Pairs : score[l] = 0

(* Only blocks of another branch are held in memory: what continues our    *)
(* chain is appended at once and not buffered (p2p.js:38-39).              *)
OnlyForksBuffered ==
  \A l \in Pairs : \A i \in DOMAIN sync[l].buffer : ~ Has(tip[l[1]], sync[l].buffer[i])

Request(phase) == IF phase = "headers" THEN "GET_HEADERS" ELSE "GET_BLOCKS"
Response(phase) == IF phase = "headers" THEN "HEADERS_RESPONSE" ELSE "BLOCKS_RESPONSE"

OnTheWay(l, phase) ==
  \/ \E k \in DOMAIN net[l] : net[l][k].type = Request(phase)
  \/ \E k \in DOMAIN net[Other(l)] : net[Other(l)][k].type = Response(phase)

(* No synchronisation waits for nobody: it has asked, and the request of   *)
(* its phase or an answer to it is on the way, whatever late answers came  *)
(* in between, unless building the request threw or the rate limit dropped *)
(* it or its answer (handleBlocksResponse, requestHeaders).                *)
NobodyWaitsInVain ==
  \A l \in Pairs : sync[l].phase # "null" =>
    sync[l].inFlight /\ (sync[l].astray \/ OnTheWay(l, sync[l].phase))

(* A node gives up its tip only for a heavier one, although headers were   *)
(* weighed against a tip that has moved since, and blocks of several       *)
(* peers interleave (finishHeaders, finishSync).                           *)
TipsGainWork ==
  [][\A n \in Node : tip'[n] # tip[n] => Work[tip'[n]] > Work[tip[n]]]_syncVars

(* Once no block is found and no connection breaks any more, connected     *)
(* nodes have chains of equal work, unless a ban keeps them apart, or the  *)
(* lighter end passed over the heavier tip itself: let its news go by      *)
(* while something was under way (requestHeaders), gave up the exchange,   *)
(* or lost a message.  Nothing asks again for such a tip; all others       *)
(* arrive, through batches, late answers and reorganisations.              *)
Behind(l) == Work[tip[l[1]]] < Work[tip[l[2]]]

CatchesUp ==
  <>[](calm => \A l \in Dials :
         \/ {l, Other(l)} \cap banned # {}
         \/ \A k \in {l, Other(l)} : Behind(k) => k \in missed)
=============================================================================
