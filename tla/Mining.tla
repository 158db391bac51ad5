------------------------------- MODULE Mining -------------------------------
(***************************************************************************)
(* Finding blocks: the callers of createNewBlock (src/blockchain.js), the  *)
(* automatic miner's loops (src/miner.js) and the pool of worker threads   *)
(* (src/pow-worker.js) they share.                                         *)
(*                                                                         *)
(* A caller has at most one job, so that a job is named by its caller; a   *)
(* message about a job that is settled already is renamed Old, which is    *)
(* all its job number is good for.  A stop message carries a job number    *)
(* that no worker looks at, so it is the bare Stop here.  Each run of a    *)
(* handler on the main thread, with the promise continuations it settles,  *)
(* is one action; worker and main thread talk through FIFO queues.         *)
(***************************************************************************)
EXTENDS Integers, FiniteSets, SequencesExt

CONSTANTS Loop,       \* loops the automatic miner may run at a time
          Caller,     \* requests POST /blocks under way at a time
          Worker,     \* the worker threads of the pool
          None, Old, Stop,
          MAX_CALLERS, \* bound: callers that mine or sleep at a time
          MAX_INBOX   \* bound: nothing new happens while a queue is longer

Agent == Loop \cup Caller

ASSUME MiningConstants ==
  /\ Loop \cap Caller = {} /\ IsFiniteSet(Agent)
  /\ {None, Old, Stop} \cap Agent = {} /\ None # Old /\ None # Stop /\ Old # Stop
  /\ MAX_CALLERS \in Nat /\ MAX_INBOX \in Nat

VARIABLES
  state,        \* what each caller does: "off", "mining", "pause" (a loop asleep)
  fresh,        \* callers whose template extends our tip
  listening,    \* callers whose block had room: a change of the pool restarts them
  current,      \* pow-worker.js: the job a worker searches for
  inbox,        \* messages to a worker it has not read
  outbox,       \* results the main thread has not read
  health,       \* "alive", "failed" (thread gone), "reported" (its error was seen)
  running, loopPromise,   \* miner.js
  stopping,     \* loops a stop() waits for
  clash         \* history: since the last time nobody mined, two jobs were
                \* live at once or a job was given to a pool with a dead worker

poolVars == <<current, inbox, outbox, health>>
minerVars == <<running, loopPromise, stopping>>
miningVars == <<state, fresh, listening, poolVars, minerVars, clash>>

Live == {a \in Agent : state[a] = "mining"}

MiningInit ==
  /\ state = [a \in Agent |-> "off"]
  /\ fresh = {} /\ listening = {}
  /\ current = [w \in Worker |-> None]
  /\ inbox = [w \in Worker |-> << >>]
  /\ outbox = [w \in Worker |-> << >>]
  /\ health = [w \in Worker |-> "alive"]
  /\ running = FALSE /\ loopPromise = None /\ stopping = {}
  /\ clash = FALSE

-----------------------------------------------------------------------------
Aged(job, settled) == IF job \in settled THEN Old ELSE job
AgedSeq(box, settled) == [k \in DOMAIN box |-> Aged(box[k], settled)]

\* Fault: workers are stopped when a job is given up, not when it is won.
ReleaseUnlessWon(boxes, settled, starts) ==
  /\ inbox' = [w \in Worker |->
       IF health[w] # "alive" THEN << >>
       ELSE AgedSeq(inbox[w], settled)
            \o (IF settled = {} \/ boxes # outbox THEN << >> ELSE <<Stop>>) \o starts]
  /\ outbox' = [w \in Worker |-> AgedSeq(boxes[w], settled)]
  /\ current' = [w \in Worker |-> Aged(current[w], settled)]

\* Fault: the new jobs are posted before the old ones are released.
ReleaseLast(boxes, settled, starts) ==
  /\ inbox' = [w \in Worker |->
       IF health[w] # "alive" THEN << >>
       ELSE AgedSeq(inbox[w], settled)
            \o starts \o (IF settled = {} THEN << >> ELSE <<Stop>>)]
  /\ outbox' = [w \in Worker |-> AgedSeq(boxes[w], settled)]
  /\ current' = [w \in Worker |-> Aged(current[w], settled)]

(* The jobs of "settled" end, each posting a stop to every worker; then    *)
(* the jobs of "starts" are posted.  Stops sent together act as one.       *)
Release(boxes, settled, starts) ==
  /\ inbox' = [w \in Worker |->
       IF health[w] # "alive" THEN << >>
       ELSE AgedSeq(inbox[w], settled)
            \o (IF settled = {} THEN << >> ELSE <<Stop>>) \o starts]
  /\ outbox' = [w \in Worker |-> AgedSeq(boxes[w], settled)]
  /\ current' = [w \in Worker |-> Aged(current[w], settled)]

(* New templates are made from our tip; a full one does not listen.        *)
MakeTemplates(stillFresh, settled, starts) ==
  /\ fresh' = (stillFresh \ settled) \cup ToSet(starts)
  /\ \E full \in SUBSET ToSet(starts) :
       listening' = (listening \ settled) \cup (ToSet(starts) \ full)
  /\ clash' =
       LET live == {a \in Agent : state'[a] = "mining"}
       IN  /\ live # {}
           /\ \/ clash
              \/ Cardinality(live) > 1
              \/ starts # << >> /\ \E w \in Worker : health[w] # "alive"

\* What a caller does when its promise has settled for good.
After(a) == IF a \in Loop THEN "pause" ELSE "off"
Answered(callers) == [a \in Agent |-> IF a \in callers THEN After(a) ELSE state[a]]

\* Bound: the environment waits until messages have been read.
Calm == \A w \in Worker : Len(inbox[w]) <= MAX_INBOX /\ Len(outbox[w]) <= MAX_INBOX

MayJoin(a) == state[a] = "off" /\ Cardinality({b \in Agent : state[b] # "off"}) < MAX_CALLERS

(* findBlockInWorkers for a caller that had no job                         *)
BeginJob(a) ==
  /\ state' = [state EXCEPT ![a] = "mining"]
  /\ Release(outbox, {}, <<a>>)
  /\ MakeTemplates(fresh, {}, <<a>>)
  /\ UNCHANGED health

-----------------------------------------------------------------------------
(* miner.js *)
StartMiner ==
  /\ ~ running /\ Calm
  /\ \E l \in Loop :
       /\ MayJoin(l)
       /\ running' = TRUE /\ loopPromise' = l
       /\ BeginJob(l)
  /\ UNCHANGED stopping

StopMiner ==
  /\ running
  /\ running' = FALSE
  /\ stopping' = stopping \cup {loopPromise}
  /\ UNCHANGED <<state, fresh, listening, poolVars, loopPromise, clash>>

(* The pause is over: the next block, or the end of the loop and of the    *)
(* stop() that waits for it.                                               *)
LoopWake(l) ==
  /\ state[l] = "pause"
  /\ \/ running /\ Calm /\ BeginJob(l) /\ UNCHANGED minerVars
     \/ /\ ~ running
        /\ state' = [state EXCEPT ![l] = "off"]
        /\ stopping' = stopping \ {l}
        /\ loopPromise' = IF l \in stopping /\ loopPromise = l THEN None ELSE loopPromise
        /\ UNCHANGED <<fresh, listening, poolVars, running, clash>>

(* POST /blocks *)
CallMine(c) ==
  /\ MayJoin(c) /\ Calm
  /\ BeginJob(c)
  /\ UNCHANGED minerVars

-----------------------------------------------------------------------------
(* pow-worker.js: a job replaces the one before, a stop ends it.           *)
ReadMessage(w) ==
  /\ health[w] = "alive" /\ inbox[w] # << >>
  /\ inbox' = [inbox EXCEPT ![w] = Tail(@)]
  /\ current' = [current EXCEPT ![w] = IF Head(inbox[w]) = Stop THEN None ELSE Head(inbox[w])]
  /\ UNCHANGED <<state, fresh, listening, outbox, health, minerVars, clash>>

(* A nonce is found.                                                       *)
Find(w) ==
  /\ current[w] # None
  /\ current' = [current EXCEPT ![w] = None]
  /\ outbox' = [outbox EXCEPT ![w] = Append(@, current[w])]
  /\ UNCHANGED <<state, fresh, listening, inbox, health, minerVars, clash>>

(* A worker ends: its thread is gone, its error and its exit are still to  *)
(* be told.                                                                *)
Crash(w) ==
  /\ \A v \in Worker : health[v] = "alive"
  /\ current[w] # None
  /\ health' = [health EXCEPT ![w] = "failed"]
  /\ inbox' = [inbox EXCEPT ![w] = << >>]
  /\ current' = [current EXCEPT ![w] = None]
  /\ UNCHANGED <<state, fresh, listening, outbox, minerVars, clash>>

-----------------------------------------------------------------------------
(* The result of a job that is over is ignored.                            *)
IgnoreResult(w) ==
  /\ outbox[w] # << >> /\ Head(outbox[w]) = Old
  /\ outbox' = [outbox EXCEPT ![w] = Tail(@)]
  /\ UNCHANGED <<state, fresh, listening, current, inbox, health, minerVars, clash>>

\* The callers a change of the pool sends back for a new template.
Restarting(told, winner) == IF told THEN (listening \cap Live) \ winner ELSE {}

(* The first result wins.  If the tip is still the template's, the block   *)
(* is added, which makes every other template stale and may change the     *)
(* pool; a template made stale since, or a block that is refused, is an    *)
(* error for the caller.                                                   *)
Win(w) ==
  /\ outbox[w] # << >> /\ Head(outbox[w]) \in Agent
  /\ LET a == Head(outbox[w])
         boxes == [outbox EXCEPT ![w] = Tail(@)]
     IN  /\ state' = Answered({a})
         /\ \/ /\ a \in fresh
               /\ \E told \in BOOLEAN : \E starts \in SetToSeqs(Restarting(told, {a})) :
                    /\ Release(boxes, {a} \cup ToSet(starts), starts)
                    /\ MakeTemplates({}, {a} \cup ToSet(starts), starts)
            \/ /\ Release(boxes, {a}, << >>)
               /\ MakeTemplates(fresh, {a}, << >>)
  /\ UNCHANGED <<health, minerVars>>

(* onChange: a transaction came in or went: TEMPLATE_STALE                 *)
PoolChanges ==
  /\ Calm /\ Restarting(TRUE, {}) # {}
  /\ \E starts \in SetToSeqs(Restarting(TRUE, {})) :
       /\ Release(outbox, ToSet(starts), starts)
       /\ UNCHANGED state
       /\ MakeTemplates(fresh, ToSet(starts), starts)
  /\ UNCHANGED <<health, minerVars>>

(* A peer's block or branch becomes our tip.                               *)
TipMoves ==
  /\ Calm /\ fresh # {}
  /\ \E told \in BOOLEAN : \E starts \in SetToSeqs(Restarting(told, {})) :
       /\ Release(outbox, ToSet(starts), starts)
       /\ UNCHANGED state
       /\ MakeTemplates({}, ToSet(starts), starts)
  /\ UNCHANGED <<health, minerVars>>

(* The timer of 500 ms: a job whose tip is gone is given up.               *)
CancelIfStale(a) ==
  /\ a \in Live \ fresh
  /\ state' = Answered({a})
  /\ Release(outbox, {a}, << >>)
  /\ MakeTemplates(fresh, {a}, << >>)
  /\ UNCHANGED <<health, minerVars>>

\* Fault: a worker's error is nobody's business.
WorkerErrorUnheard(w) ==
  /\ health[w] = "failed"
  /\ health' = [health EXCEPT ![w] = "reported"]
  /\ UNCHANGED <<state, fresh, listening, current, inbox, outbox, minerVars, clash>>

(* "error": every job of the pool listens to each of its workers           *)
WorkerError(w) ==
  /\ health[w] = "failed" /\ Live # {}
  /\ health' = [health EXCEPT ![w] = "reported"]
  /\ state' = Answered(Live)
  /\ Release(outbox, Live, << >>)
  /\ MakeTemplates(fresh, Live, << >>)
  /\ UNCHANGED minerVars

(* An "error" nobody listens to ends the process, which is started anew.   *)
UncaughtError(w) ==
  /\ health[w] = "failed" /\ Live = {}
  /\ state' = [a \in Agent |-> "off"]
  /\ health' = [v \in Worker |-> "alive"]
  /\ inbox' = [v \in Worker |-> << >>]
  /\ outbox' = [v \in Worker |-> << >>]
  /\ current' = [v \in Worker |-> None]
  /\ running' = FALSE /\ loopPromise' = None /\ stopping' = {}
  /\ UNCHANGED <<fresh, listening, clash>>

(* "exit": the pool is given up, its other workers are terminated.         *)
WorkerExit(w) ==
  /\ health[w] = "reported"
  /\ health' = [v \in Worker |-> "alive"]
  /\ inbox' = [v \in Worker |-> << >>]
  /\ outbox' = [v \in Worker |-> << >>]
  /\ current' = [v \in Worker |-> None]
  /\ UNCHANGED <<state, fresh, listening, minerVars, clash>>

-----------------------------------------------------------------------------
WorkerStep(w) == ReadMessage(w) \/ Find(w) \/ Crash(w)
ResultStep(w) == IgnoreResult(w) \/ Win(w)
WorkerEnds(w) == WorkerError(w) \/ UncaughtError(w) \/ WorkerExit(w)
News == PoolChanges \/ TipMoves

MiningNext ==
  \/ StartMiner \/ StopMiner
  \/ \E l \in Loop : LoopWake(l)
  \/ \E c \in Caller : CallMine(c)
  \/ \E w \in Worker : WorkerStep(w) \/ ResultStep(w) \/ WorkerEnds(w)
  \/ News
  \/ \E a \in Agent : CancelIfStale(a)

(* Messages arrive, timers fire, and a worker that keeps searching finds:  *)
(* every hash is a new chance.  Nothing makes the operator, the peers or   *)
(* the pool do anything.                                                   *)
MiningFairness ==
  /\ \A w \in Worker :
       /\ WF_miningVars(ReadMessage(w)) /\ WF_miningVars(Find(w))
       /\ WF_miningVars(ResultStep(w))
       /\ WF_miningVars(WorkerEnds(w))
  /\ \A l \in Loop : WF_miningVars(LoopWake(l))
  /\ \A a \in Agent : WF_miningVars(CancelIfStale(a))

MiningSpec == MiningInit /\ [][MiningNext]_miningVars /\ MiningFairness

-----------------------------------------------------------------------------
(* Types; only live jobs are named in the queues, listened for or fresh.   *)
MiningTypeOK ==
  /\ state \in [Agent -> {"off", "mining", "pause"}]
  /\ fresh \subseteq Live /\ listening \subseteq Live
  /\ current \in [Worker -> Live \cup {None, Old}]
  /\ inbox \in [Worker -> Seq(Live \cup {Old, Stop})]
  /\ outbox \in [Worker -> Seq(Live \cup {Old})]
  /\ health \in [Worker -> {"alive", "failed", "reported"}]
  /\ running \in BOOLEAN /\ clash \in BOOLEAN
  /\ loopPromise \in Loop \cup {None} /\ stopping \subseteq Loop

(* A worker that searches for a block nobody waits for any more has been   *)
(* told otherwise: a message is on its way to it, whoever settled the job  *)
(* and however many callers share the pool (release, pow-worker.js); with  *)
(* the types of the module.                                                *)
NoStrayWork ==
  MiningTypeOK /\ \A w \in Worker : current[w] = Old => inbox[w] # << >>

\* What a worker will do when it has read its messages.
Eventually(w) ==
  IF inbox[w] = << >> THEN current[w]
  ELSE IF Last(inbox[w]) = Stop THEN None ELSE Last(inbox[w])

(* As long as no two jobs met, every living worker searches for the live   *)
(* job, will when it has read its messages, or has found it: no stop of an *)
(* earlier job comes behind the job it is not meant for.                   *)
WorkersOnJob ==
  \A a \in Live, w \in Worker :
    ~ clash /\ health[w] = "alive" =>
      Eventually(w) = a \/ Contains(outbox[w], a)

(* Once the pool and the peers are quiet, every caller of createNewBlock   *)
(* gets its block or an error, unless its job met another one: a lost      *)
(* race, a dead worker or a stop of the job before leave no promise open.  *)
(* And a stop() of the miner returns, unless the miner was started again   *)
(* while it waited.                                                        *)
CallsReturn ==
  <>[][~ News]_miningVars =>
    /\ \A a \in Agent : (a \in Live) ~> (a \notin Live \/ clash)
    /\ \A l \in Loop : (l \in stopping) ~> (l \notin stopping \/ running \/ clash)
=============================================================================
