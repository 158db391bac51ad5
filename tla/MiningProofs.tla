---------------------------- MODULE MiningProofs ----------------------------
(***************************************************************************)
(* The pool of workers: no worker is left to search for a block nobody     *)
(* waits for, and none is stopped by a message meant for the job before.   *)
(***************************************************************************)
EXTENDS Mining, SequenceTheorems, FiniteSetTheorems, TLAPS

(* The main thread sends no message about a job that is over behind one    *)
(* that ends it, and a thread that is gone has neither job nor messages.   *)
Told(w) ==
  /\ inbox[w] # << >> => Last(inbox[w]) # Old
  /\ current[w] = Old => inbox[w] # << >>
  /\ health[w] # "alive" => current[w] = None /\ inbox[w] = << >>

(* A miner that runs has a loop.                                           *)
MinerRuns == running => loopPromise # None

(* As long as no two jobs met, there is one job, and its pool has not been *)
(* told of a dead worker.                                                  *)
OneJob ==
  ~ clash =>
    /\ \A a, b \in Live : a = b
    /\ Live # {} => \A w \in Worker : health[w] # "reported"

MiningInv ==
  /\ MiningTypeOK
  /\ \A w \in Worker : Told(w)
  /\ MinerRuns /\ OneJob /\ WorkersOnJob

-----------------------------------------------------------------------------
(* Renaming the jobs that are over leaves only the others in a queue.      *)
LEMMA AgedSeqIs ==
  ASSUME NEW B, NEW settled, NEW box \in Seq(B)
  PROVE  AgedSeq(box, settled) \in Seq((B \ settled) \cup {Old})
<1>1. \A k \in 1..Len(box) : Aged(box[k], settled) \in (B \ settled) \cup {Old}
  BY DEF Aged
<1>2. DOMAIN box = 1..Len(box)
  OBVIOUS
<1> QED
  BY <1>1, <1>2 DEF AgedSeq

(* Nothing is renamed when no job is over.                                 *)
LEMMA AgedNothing ==
  ASSUME NEW A, NEW box \in Seq(A) PROVE AgedSeq(box, {}) = box
<1>1. box = [k \in DOMAIN box |-> box[k]]
  OBVIOUS
<1> QED
  BY <1>1 DEF AgedSeq, Aged

(* The orders SetToSeqs gives of a set of agents are sequences of them.    *)
LEMMA SetToSeqsIn ==
  ASSUME NEW S \in SUBSET Agent, NEW starts \in SetToSeqs(S)
  PROVE  starts \in Seq(Agent) /\ ToSet(starts) \subseteq S
<1>1. IsFiniteSet(S)
  BY MiningConstants, FS_Subset
<1>2. Cardinality(S) \in Nat
  BY <1>1, FS_CardinalityType
<1>3. starts \in [1..Cardinality(S) -> S]
  BY DEF SetToSeqs
<1> QED
  BY <1>2, <1>3 DEF ToSet

(* What is appended to a queue is what is read last.                       *)
LEMMA LastOfConcat ==
  ASSUME NEW S, NEW s \in Seq(S), NEW t \in Seq(S), t # << >>
  PROVE  s \o t # << >> /\ Last(s \o t) = Last(t)
<1>1. Len(t) \in Nat \ {0} /\ Len(s) \in Nat
  BY EmptySeq, LenProperties
<1>2. Len(s \o t) = Len(s) + Len(t) /\ s \o t \in Seq(S)
  BY ConcatProperties
<1>3. (s \o t)[Len(s) + Len(t)] = t[Len(s) + Len(t) - Len(s)]
  BY <1>1, ConcatProperties
<1> QED
  BY <1>1, <1>2, <1>3 DEF Last

(* The last message stays the last when the first of several is read, and  *)
(* an element that is not the first stays in the queue.                    *)
LEMMA AfterHead ==
  ASSUME NEW S, NEW s \in Seq(S), s # << >>
  PROVE  /\ Tail(s) # << >> => Last(Tail(s)) = Last(s)
         /\ Tail(s) = << >> => Last(s) = Head(s)
         /\ \A e : Contains(s, e) /\ e # Head(s) => Contains(Tail(s), e)
<1>1. /\ Len(s) \in Nat \ {0} /\ Tail(s) \in Seq(S) /\ Len(Tail(s)) = Len(s) - 1
      /\ \A i \in 1..Len(Tail(s)) : Tail(s)[i] = s[i + 1]
  BY EmptySeq, LenProperties, HeadTailProperties
<1>2. Head(s) = s[1]
  BY <1>1
<1>3. Tail(s) # << >> => Last(Tail(s)) = Last(s)
  BY <1>1, EmptySeq DEF Last
<1>4. Tail(s) = << >> => Last(s) = Head(s)
  <2>1. Tail(s) = << >> => Len(s) = 1
    BY <1>1, EmptySeq
  <2> QED
    BY <2>1, <1>2 DEF Last
<1>5. ASSUME NEW e, Contains(s, e), e # Head(s) PROVE Contains(Tail(s), e)
  <2>1. PICK i \in 1..Len(s) : s[i] = e
    BY <1>5 DEF Contains
  <2>2. i # 1
    BY <2>1, <1>2, <1>5
  <2>3. i - 1 \in 1..Len(Tail(s)) /\ (i - 1) + 1 = i
    BY <2>2, <1>1
  <2> QED
    BY <2>1, <2>3, <1>1 DEF Contains
<1> QED
  BY <1>3, <1>4, <1>5

-----------------------------------------------------------------------------
(* Ending jobs and posting others keeps the queues' types and what they    *)
(* say, for the jobs N that are live then.                                 *)
LEMMA Released ==
  ASSUME MiningTypeOK, \A w \in Worker : Told(w),
         NEW boxes \in [Worker -> Seq(Live \cup {Old})],
         NEW N \in SUBSET Agent, NEW settled \in SUBSET Agent, NEW starts \in Seq(N),
         Live \ settled \subseteq N,
         Release(boxes, settled, starts),
         \A w \in Worker : health'[w] = "alive" <=> health[w] = "alive"
  PROVE  /\ current' \in [Worker -> N \cup {None, Old}]
         /\ inbox' \in [Worker -> Seq(N \cup {Old, Stop})]
         /\ outbox' \in [Worker -> Seq(N \cup {Old})]
         /\ \A w \in Worker : Told(w)'
<1> DEFINE stops == IF settled = {} THEN << >> ELSE <<Stop>>
           kept(w) == AgedSeq(inbox[w], settled)
           M == N \cup {Old, Stop}
<1>1. settled \cap {Old, Stop} = {} /\ settled \cap {None, Old} = {} /\ settled \cap {Old} = {}
  BY MiningConstants
<1>2. ASSUME NEW w \in Worker
      PROVE  kept(w) \in Seq(M)
  <2> DEFINE B == Live \cup {Old, Stop}
  <2>1. inbox[w] \in Seq(B)
    BY DEF MiningTypeOK
  <2>2. (B \ settled) \cup {Old} \subseteq M
    OBVIOUS
  <2> HIDE DEF B, M
  <2>3. kept(w) \in Seq((B \ settled) \cup {Old})
    BY <2>1, AgedSeqIs
  <2> HIDE DEF kept
  <2> QED
    BY <2>2, <2>3
<1>3. stops \in Seq(M) /\ starts \in Seq(M)
  <2>1. << >> \in Seq(M) /\ <<Stop>> \in Seq(M)
    OBVIOUS
  <2>2. starts \in Seq(M)
    <3>1. N \subseteq M
      OBVIOUS
    <3> HIDE DEF M
    <3> QED
      BY <3>1
  <2> QED
    BY <2>1, <2>2 DEF stops
<1>4. ASSUME NEW w \in Worker
      PROVE  inbox'[w] = IF health[w] # "alive" THEN << >> ELSE kept(w) \o stops \o starts
  BY DEF Release
<1>5. ASSUME NEW w \in Worker
      PROVE  kept(w) \o stops \o starts = kept(w) \o (stops \o starts)
             /\ stops \o starts \in Seq(M)
  <2>1. kept(w) \in Seq(M)
    BY <1>2
  <2> HIDE DEF kept, stops, M
  <2>2. stops \o starts \in Seq(M)
    BY <1>3, ConcatProperties
  <2>3. kept(w) \o stops \o starts = kept(w) \o (stops \o starts)
    BY <2>1, <1>3, ConcatAssociative
  <2> QED
    BY <2>2, <2>3
<1> HIDE DEF kept, stops, M
<1>6. inbox' \in [Worker -> Seq(M)]
  <2>1. ASSUME NEW w \in Worker PROVE inbox'[w] \in Seq(M)
    <3>1. kept(w) \o (stops \o starts) \in Seq(M)
      BY <1>2, <1>5, ConcatProperties
    <3> QED
      BY <3>1, <1>4, <1>5, EmptySeq
  <2>2. inbox' = [w \in Worker |-> inbox'[w]]
    BY DEF Release
  <2> QED
    BY <2>1, <2>2
<1>7. outbox' \in [Worker -> Seq(N \cup {Old})]
  <2>1. ASSUME NEW w \in Worker PROVE AgedSeq(boxes[w], settled) \in Seq(N \cup {Old})
    <3> DEFINE B == Live \cup {Old}
    <3>1. AgedSeq(boxes[w], settled) \in Seq((B \ settled) \cup {Old})
      BY AgedSeqIs
    <3> QED
      BY <3>1
  <2> QED
    BY <2>1 DEF Release
<1>8. current' \in [Worker -> N \cup {None, Old}]
  <2>1. ASSUME NEW w \in Worker PROVE Aged(current[w], settled) \in N \cup {None, Old}
    BY <1>1 DEF Aged, MiningTypeOK
  <2> QED
    BY <2>1 DEF Release
<1>9. ASSUME NEW w \in Worker PROVE Told(w)'
  <2>1. current'[w] = Aged(current[w], settled)
    BY DEF Release
  <2>2. CASE health[w] # "alive"
    <3>1. current[w] = None /\ inbox'[w] = << >>
      BY <2>2, <1>4 DEF Told
    <3>2. Aged(None, settled) = None /\ None # Old
      BY <1>1, MiningConstants DEF Aged
    <3> QED
      BY <2>1, <2>2, <3>1, <3>2 DEF Told
  <2>3. CASE health[w] = "alive" /\ stops \o starts = << >>
    <3>1. settled = {}
      <4>1. Len(stops) + Len(starts) = 0
        <5>1. Len(stops \o starts) = Len(stops) + Len(starts)
          BY <1>3, ConcatProperties
        <5> QED
          BY <5>1, <2>3
      <4>2. settled # {} => Len(stops) = 1
        BY DEF stops
      <4>3. Len(starts) \in Nat
        BY <1>3, LenProperties
      <4> HIDE DEF stops
      <4>4. 1 + Len(starts) # 0
        BY <4>3
      <4> QED
        BY <4>1, <4>2, <4>4
    <3>2. kept(w) = inbox[w] /\ current'[w] = current[w]
      BY <3>1, <2>1, AgedNothing DEF kept, Aged, MiningTypeOK
    <3>3. inbox'[w] = inbox[w]
      BY <2>3, <1>2, <1>4, <1>5, <3>2, ConcatEmptySeq
    <3> QED
      BY <2>3, <3>2, <3>3 DEF Told
  <2>4. CASE health[w] = "alive" /\ stops \o starts # << >>
    <3>1. inbox'[w] # << >> /\ Last(inbox'[w]) = Last(stops \o starts)
      <4>1. inbox'[w] = kept(w) \o (stops \o starts)
        BY <2>4, <1>4, <1>5
      <4>2. kept(w) \in Seq(M) /\ stops \o starts \in Seq(M)
        BY <1>2, <1>5
      <4> QED
        BY <4>1, <4>2, <2>4, LastOfConcat
    <3>2. Last(stops \o starts) # Old
      <4>1. CASE starts # << >>
        <5>1. Last(stops \o starts) = Last(starts)
          BY <4>1, <1>3, LastOfConcat
        <5>2. Last(starts) \in N
          BY <4>1, EmptySeq, LenProperties DEF Last
        <5> QED
          BY <5>1, <5>2, MiningConstants
      <4>2. CASE starts = << >>
        <5>1. stops \o starts = stops
          BY <4>2, <1>3, ConcatEmptySeq
        <5>2. Old # Stop
          BY MiningConstants
        <5> QED
          BY <5>1, <5>2, <2>4 DEF stops, Last
      <4> QED
        BY <4>1, <4>2
    <3> QED
      BY <2>4, <3>1, <3>2 DEF Told
  <2> QED
    BY <2>2, <2>3, <2>4
<1> QED
  BY <1>6, <1>7, <1>8, <1>9 DEF M
(* The templates of the jobs that are live then, and what it takes for no  *)
(* two jobs to have met.                                                   *)
LEMMA TemplatesMade ==
  ASSUME MiningTypeOK,
         NEW stillFresh \in SUBSET Live, NEW settled \in SUBSET Agent,
         NEW starts \in Seq(Agent),
         Live' = (Live \ settled) \cup ToSet(starts),
         MakeTemplates(stillFresh, settled, starts)
  PROVE  /\ fresh' \subseteq Live' /\ listening' \subseteq Live' /\ clash' \in BOOLEAN
         /\ ~ clash' /\ Live' # {} =>
              /\ ~ clash /\ \A a, b \in Live' : a = b
              /\ starts # << >> => \A w \in Worker : health[w] = "alive"
<1>1. fresh' \subseteq Live' /\ listening' \subseteq Live'
  BY DEF MakeTemplates, MiningTypeOK
<1>2. clash' = (/\ Live' # {}
                /\ \/ clash
                   \/ Cardinality(Live') > 1
                   \/ starts # << >> /\ \E w \in Worker : health[w] # "alive")
  BY DEF MakeTemplates, Live
<1>3. clash' \in BOOLEAN
  BY <1>2
<1>4. ASSUME ~ clash', Live' # {}, NEW a \in Live', NEW b \in Live' PROVE a = b
  <2>1. IsFiniteSet(Live') /\ IsFiniteSet({a, b}) /\ {a, b} \subseteq Live'
    <3>1. Live' \subseteq Agent
      BY DEF Live
    <3> QED
      BY <3>1, MiningConstants, FS_Subset, FS_EmptySet, FS_AddElement
  <2>2. Cardinality({a, b}) <= Cardinality(Live')
    BY <2>1, FS_Subset
  <2>3. Cardinality(Live') <= 1 /\ Cardinality(Live') \in Nat
    <3>1. Cardinality(Live') \in Nat /\ ~ (Cardinality(Live') > 1)
      BY <1>2, <1>4, <2>1, FS_CardinalityType
    <3> QED
      BY <3>1
  <2>4. SUFFICES ASSUME a # b PROVE FALSE
    OBVIOUS
  <2>5. Cardinality({a}) = 1 /\ IsFiniteSet({a})
    BY FS_Singleton
  <2>6. Cardinality({a} \cup {b}) = 2
    <3>1. Cardinality({a} \cup {b}) = Cardinality({a}) + 1
      BY <2>4, <2>5, FS_AddElement
    <3>2. 1 + 1 = 2
      OBVIOUS
    <3> QED
      BY <3>1, <3>2, <2>5, Zenon
  <2>7. {a, b} = {a} \cup {b}
    OBVIOUS
  <2>8. 2 <= Cardinality(Live')
    BY <2>2, <2>6, <2>7
  <2> QED
    BY <2>3, <2>8
<1> QED
  BY <1>1, <1>2, <1>3, <1>4

(* When jobs end and others begin, the living workers go over to the new   *)
(* one, unless jobs have met.                                              *)
LEMMA TakenOver ==
  ASSUME MiningInv,
         NEW boxes \in [Worker -> Seq(Live \cup {Old})],
         NEW stillFresh \in SUBSET Live, NEW settled \in SUBSET Live,
         NEW starts \in Seq(Agent),
         Live' = (Live \ settled) \cup ToSet(starts),
         starts # << >> \/ Live # {},
         settled = {} => boxes = outbox,
         Release(boxes, settled, starts), MakeTemplates(stillFresh, settled, starts),
         state' \in [Agent -> {"off", "mining", "pause"}], health' = health,
         running' \in BOOLEAN, loopPromise' \in Loop \cup {None}, stopping' \subseteq Loop,
         MinerRuns'
  PROVE  MiningInv'
<1>1. MiningTypeOK /\ OneJob /\ WorkersOnJob /\ \A w \in Worker : Told(w)
  BY DEF MiningInv
<1>2. Live \subseteq Agent /\ Live' \subseteq Agent
  BY DEF Live
<1>3. starts \in Seq(Live')
  <2>1. \A k \in 1..Len(starts) : starts[k] \in Live'
    BY DEF ToSet
  <2> QED
    BY <2>1
<1>4. /\ current' \in [Worker -> Live' \cup {None, Old}]
      /\ inbox' \in [Worker -> Seq(Live' \cup {Old, Stop})]
      /\ outbox' \in [Worker -> Seq(Live' \cup {Old})]
      /\ \A w \in Worker : Told(w)'
  <2> DEFINE N == Live'
  <2>1. N \in SUBSET Agent /\ starts \in Seq(N) /\ Live \ settled \subseteq N /\ settled \in SUBSET Agent
    BY <1>2, <1>3
  <2> HIDE DEF N
  <2>2. /\ current' \in [Worker -> N \cup {None, Old}]
        /\ inbox' \in [Worker -> Seq(N \cup {Old, Stop})]
        /\ outbox' \in [Worker -> Seq(N \cup {Old})]
        /\ \A w \in Worker : Told(w)'
    BY <1>1, <2>1, Released
  <2> QED
    BY <2>2 DEF N
<1>5. /\ fresh' \subseteq Live' /\ listening' \subseteq Live' /\ clash' \in BOOLEAN
      /\ ~ clash' /\ Live' # {} =>
           /\ ~ clash /\ \A a, b \in Live' : a = b
           /\ starts # << >> => \A w \in Worker : health[w] = "alive"
  <2>1. settled \in SUBSET Agent /\ stillFresh \in SUBSET Live /\ starts \in Seq(Agent)
    BY <1>2
  <2>2. MiningTypeOK /\ Live' = (Live \ settled) \cup ToSet(starts)
    BY <1>1
  <2>3. MakeTemplates(stillFresh, settled, starts)
    OBVIOUS
  <2>4. fresh' \subseteq Live' /\ listening' \subseteq Live'
    BY ONLY <2>1, <2>2, <2>3, TemplatesMade
  <2>5. clash' \in BOOLEAN
    BY ONLY <2>1, <2>2, <2>3, TemplatesMade
  <2>6. ~ clash' /\ Live' # {} => ~ clash 
    BY ONLY <2>1, <2>2, <2>3, TemplatesMade
  <2>7. ~ clash' /\ Live' # {} => \A a, b \in Live' : a = b
    BY ONLY <2>1, <2>2, <2>3, TemplatesMade
  <2>8. ~ clash' /\ Live' # {} => (starts # << >> => \A w \in Worker : health[w] = "alive")
    BY ONLY <2>1, <2>2, <2>3, TemplatesMade
  <2> QED
    BY <2>4, <2>5, <2>6, <2>7, <2>8
<1>6. MiningTypeOK'
  BY <1>1, <1>4, <1>5 DEF MiningTypeOK
<1>7. OneJob'
  <2> SUFFICES ASSUME ~ clash'
               PROVE  /\ \A a, b \in Live' : a = b
                      /\ Live' # {} => \A w \in Worker : health'[w] # "reported"
    BY DEF OneJob
  <2>1. CASE Live' = {}
    BY <2>1
  <2>2. CASE Live' # {} /\ starts # << >>
    BY <2>2, <1>5
  <2>3. CASE Live' # {} /\ starts = << >>
    <3>1. ~ clash /\ Live # {}
      BY <2>3, <1>5
    <3> QED
      BY <2>3, <3>1, <1>1, <1>5 DEF OneJob
  <2> QED
    BY <2>1, <2>2, <2>3
<1>8. WorkersOnJob'
  <2> SUFFICES ASSUME NEW a \in Live', NEW w \in Worker, ~ clash', health'[w] = "alive"
               PROVE  Eventually(w)' = a \/ Contains(outbox'[w], a)
    BY DEF WorkersOnJob
  <2>1. ~ clash /\ \A b \in Live' : b = a
    BY <1>5
  <2>2. inbox'[w] = AgedSeq(inbox[w], settled)
                      \o (IF settled = {} THEN << >> ELSE <<Stop>>) \o starts
    BY DEF Release
  <2>3. CASE starts # << >>
    <3> DEFINE S == Live \cup Live' \cup {Old, Stop}
               before == AgedSeq(inbox[w], settled)
                           \o (IF settled = {} THEN << >> ELSE <<Stop>>)
    <3>1. AgedSeq(inbox[w], settled) \in Seq(S)
      <4> DEFINE B == Live \cup {Old, Stop}
      <4>1. inbox[w] \in Seq(B)
        BY <1>1 DEF MiningTypeOK
      <4>2. (B \ settled) \cup {Old} \subseteq S
        OBVIOUS
      <4> HIDE DEF B, S
      <4>3. AgedSeq(inbox[w], settled) \in Seq((B \ settled) \cup {Old})
        BY <4>1, AgedSeqIs
      <4> QED
        BY <4>2, <4>3
    <3>2. (IF settled = {} THEN << >> ELSE <<Stop>>) \in Seq(S)
      <4>1. << >> \in Seq(S) /\ <<Stop>> \in Seq(S)
        OBVIOUS
      <4> QED
        BY <4>1
    <3>3. starts \in Seq(S)
      <4>1. Live' \subseteq S
        OBVIOUS
      <4> HIDE DEF S
      <4> QED
        BY <4>1, <1>3
    <3> HIDE DEF S
    <3>4. before \in Seq(S)
      BY <3>1, <3>2, ConcatProperties
    <3> HIDE DEF before
    <3>5. inbox'[w] # << >> /\ Last(inbox'[w]) = Last(starts)
      <4>1. inbox'[w] = before \o starts
        BY <2>2 DEF before
      <4> QED
        BY <4>1, <3>3, <3>4, <2>3, LastOfConcat
    <3>6. Last(starts) \in Live'
      BY <2>3, <1>3, EmptySeq, LenProperties DEF Last
    <3>7. Last(starts) = a /\ a # Stop
      BY <3>6, <2>1, <1>2, MiningConstants
    <3> QED
      BY <3>5, <3>7 DEF Eventually
  <2>4. CASE starts = << >>
    <3>1. Live' = Live \ settled
      BY <2>4 DEF ToSet
    <3>2. settled = {}
      BY <3>1, <2>1, <1>1 DEF OneJob
    <3>3. inbox[w] \in Seq(Live \cup {Old, Stop}) /\ outbox[w] \in Seq(Live \cup {Old})
      BY <1>1 DEF MiningTypeOK
    <3>4. AgedSeq(inbox[w], {}) = inbox[w] /\ AgedSeq(outbox[w], {}) = outbox[w]
      BY <3>3, AgedNothing
    <3>5. inbox'[w] = inbox[w]
      <4>1. inbox'[w] = inbox[w] \o << >> \o << >>
        BY <2>2, <2>4, <3>2, <3>4
      <4> QED
        BY <4>1, <3>3, ConcatEmptySeq
    <3>6. outbox'[w] = outbox[w]
      BY <3>2, <3>4 DEF Release
    <3>7. current'[w] = current[w]
      BY <3>2 DEF Release, Aged
    <3>8. a \in Live /\ health[w] = "alive"
      BY <3>1
    <3> QED
      BY <3>5, <3>6, <3>7, <3>8, <2>1, <1>1 DEF WorkersOnJob, Eventually
  <2> QED
    BY <2>3, <2>4
<1> QED
  BY <1>4, <1>6, <1>7, <1>8 DEF MiningInv
-----------------------------------------------------------------------------
(* The steps of the main thread that end or begin jobs are of that form.   *)
LEMMA BegunJob ==
  ASSUME MiningInv, NEW a \in Agent, BeginJob(a),
         running' \in BOOLEAN, loopPromise' \in Loop \cup {None}, stopping' \subseteq Loop,
         MinerRuns'
  PROVE  MiningInv'
<1>1. MiningTypeOK
  BY DEF MiningInv
<1>2. state' = [state EXCEPT ![a] = "mining"] /\ health' = health
      /\ Release(outbox, {}, <<a>>) /\ MakeTemplates(fresh, {}, <<a>>)
  BY DEF BeginJob
<1>3. state' \in [Agent -> {"off", "mining", "pause"}]
  BY <1>1, <1>2 DEF MiningTypeOK
<1>4. ToSet(<<a>>) = {a} /\ <<a>> \in Seq(Agent) /\ <<a>> # << >>
  BY DEF ToSet
<1>5. Live' = (Live \ {}) \cup ToSet(<<a>>)
  BY <1>1, <1>2, <1>4 DEF Live, MiningTypeOK
<1>6. outbox \in [Worker -> Seq(Live \cup {Old})] /\ fresh \in SUBSET Live
  BY <1>1 DEF MiningTypeOK
<1>7. {} \in SUBSET Live
  OBVIOUS
<1> QED
  BY <1>2, <1>3, <1>4, <1>5, <1>6, <1>7, TakenOver

(* A caller that is answered is no longer mining.                          *)
LEMMA AnsweredCallers ==
  ASSUME MiningTypeOK, NEW callers \in SUBSET Agent, state' = Answered(callers)
  PROVE  state' \in [Agent -> {"off", "mining", "pause"}] /\ Live' = Live \ callers
<1>1. \A a : After(a) \in {"off", "pause"}
  BY DEF After
<1> QED
  BY <1>1 DEF Answered, MiningTypeOK, Live

(* The jobs a change of the pool starts again were live.                   *)
LEMMA RestartedJobs ==
  ASSUME MiningTypeOK, NEW told, NEW winner, NEW starts \in SetToSeqs(Restarting(told, winner))
  PROVE  starts \in Seq(Agent) /\ ToSet(starts) \subseteq Live \ winner
<1>1. Restarting(told, winner) \subseteq Live \ winner /\ Live \subseteq Agent
  BY DEF Restarting, Live
<1>2. Restarting(told, winner) \in SUBSET Agent
  BY <1>1
<1>3. starts \in Seq(Agent) /\ ToSet(starts) \subseteq Restarting(told, winner)
  BY <1>2, SetToSeqsIn
<1> QED
  BY <1>1, <1>3

(* The first result wins.                                                  *)
LEMMA WinKeeps ==
  ASSUME MiningInv, NEW w \in Worker, Win(w)
  PROVE  MiningInv'
<1> DEFINE a == Head(outbox[w])
           boxes == [outbox EXCEPT ![w] = Tail(@)]
<1>1. MiningTypeOK /\ MinerRuns
  BY DEF MiningInv
<1>2. outbox[w] # << >> /\ a \in Agent /\ state' = Answered({a})
      /\ health' = health /\ running' = running /\ loopPromise' = loopPromise
      /\ stopping' = stopping
  BY DEF Win, minerVars
<1>3. outbox[w] \in Seq(Live \cup {Old})
  BY <1>1 DEF MiningTypeOK
<1>4. Head(outbox[w]) \in Live \cup {Old} /\ Tail(outbox[w]) \in Seq(Live \cup {Old})
  BY <1>2, <1>3, HeadTailProperties
<1>5. a \in Live
  BY <1>2, <1>4, MiningConstants
<1>6. boxes \in [Worker -> Seq(Live \cup {Old})]
  BY <1>1, <1>4 DEF MiningTypeOK
<1>7. state' \in [Agent -> {"off", "mining", "pause"}] /\ Live' = Live \ {a}
  BY <1>1, <1>2, AnsweredCallers
<1>8. /\ running' \in BOOLEAN /\ loopPromise' \in Loop \cup {None} /\ stopping' \subseteq Loop
      /\ MinerRuns'
  BY <1>1, <1>2 DEF MiningTypeOK, MinerRuns
<1>9. fresh \in SUBSET Live /\ {} \in SUBSET Live
  BY <1>1 DEF MiningTypeOK
<1>10. ASSUME NEW told \in BOOLEAN, NEW starts \in SetToSeqs(Restarting(told, {a})),
              Release(boxes, {a} \cup ToSet(starts), starts),
              MakeTemplates({}, {a} \cup ToSet(starts), starts)
       PROVE  MiningInv'
  <2> HIDE DEF a, boxes
  <2>2. starts \in Seq(Agent) /\ ToSet(starts) \subseteq Live \ {a}
    BY <1>1, <1>10, RestartedJobs
  <2> DEFINE settled == {a} \cup ToSet(starts)
  <2>3. settled \in SUBSET Live /\ settled # {} /\ Live' = (Live \ settled) \cup ToSet(starts)
    BY <1>5, <1>7, <2>2
  <2>4. Release(boxes, settled, starts) /\ MakeTemplates({}, settled, starts)
    BY <1>10
  <2>5. starts # << >> \/ Live # {}
    BY <1>5
  <2> HIDE DEF settled
  <2> QED
    BY <1>2, <1>6, <1>7, <1>8, <1>9, <2>2, <2>3, <2>4, <2>5, TakenOver
<1>11. CASE Release(boxes, {a}, << >>) /\ MakeTemplates(fresh, {a}, << >>)
  <2> HIDE DEF a, boxes
  <2> DEFINE settled == {a}
  <2>1. settled \in SUBSET Live /\ settled # {}
    BY <1>5
  <2>2. << >> \in Seq(Agent) /\ Live' = (Live \ settled) \cup ToSet(<< >>)
    BY <1>7 DEF ToSet
  <2>3. Live # {}
    BY <1>5
  <2>4. Release(boxes, settled, << >>) /\ MakeTemplates(fresh, settled, << >>)
    BY <1>11
  <2> HIDE DEF settled
  <2> QED
    BY <1>2, <1>6, <1>7, <1>8, <1>9, <2>1, <2>2, <2>3, <2>4, TakenOver
<1> QED
  BY <1>10, <1>11 DEF Win

(* A change of the pool or of the tip begins jobs again for their callers. *)
LEMMA NewsKeeps ==
  ASSUME MiningInv, News
  PROVE  MiningInv'
<1>1. MiningTypeOK /\ MinerRuns
  BY DEF MiningInv
<1>2. PICK told \in BOOLEAN : \E starts \in SetToSeqs(Restarting(told, {})) :
        \E stillFresh \in {{}, fresh} :
          Release(outbox, ToSet(starts), starts) /\ MakeTemplates(stillFresh, ToSet(starts), starts)
  <2>1. CASE PoolChanges
    BY <2>1 DEF PoolChanges
  <2>2. CASE TipMoves
    BY <2>2 DEF TipMoves
  <2> QED
    BY <2>1, <2>2 DEF News
<1>3. PICK starts \in SetToSeqs(Restarting(told, {})) : \E stillFresh \in {{}, fresh} :
         Release(outbox, ToSet(starts), starts) /\ MakeTemplates(stillFresh, ToSet(starts), starts)
  BY <1>2
<1>4. PICK stillFresh \in {{}, fresh} :
         Release(outbox, ToSet(starts), starts) /\ MakeTemplates(stillFresh, ToSet(starts), starts)
  BY <1>3
<1>5. state' = state /\ health' = health /\ running' = running /\ loopPromise' = loopPromise
      /\ stopping' = stopping
  BY DEF News, PoolChanges, TipMoves, minerVars
<1>6. Live # {}
  BY <1>1 DEF News, PoolChanges, TipMoves, Restarting, MiningTypeOK
<1>7. starts \in Seq(Agent) /\ ToSet(starts) \subseteq Live
  BY <1>1, RestartedJobs
<1>8. Live' = (Live \ ToSet(starts)) \cup ToSet(starts)
  BY <1>5, <1>7 DEF Live
<1>9. /\ outbox \in [Worker -> Seq(Live \cup {Old})] /\ stillFresh \in SUBSET Live
      /\ ToSet(starts) \in SUBSET Live
      /\ state' \in [Agent -> {"off", "mining", "pause"}]
      /\ running' \in BOOLEAN /\ loopPromise' \in Loop \cup {None} /\ stopping' \subseteq Loop
      /\ MinerRuns'
  BY <1>1, <1>5, <1>7 DEF MiningTypeOK, MinerRuns
<1> QED
  BY <1>4, <1>5, <1>6, <1>7, <1>8, <1>9, TakenOver

(* A job whose tip is gone is given up.                                    *)
LEMMA CancelKeeps ==
  ASSUME MiningInv, NEW a \in Agent, CancelIfStale(a)
  PROVE  MiningInv'
<1>1. MiningTypeOK /\ MinerRuns
  BY DEF MiningInv
<1>2. a \in Live /\ state' = Answered({a}) /\ health' = health /\ running' = running
      /\ loopPromise' = loopPromise /\ stopping' = stopping
  BY DEF CancelIfStale, minerVars
<1> DEFINE settled == {a}
<1>3. Release(outbox, settled, << >>) /\ MakeTemplates(fresh, settled, << >>)
  BY DEF CancelIfStale
<1>4. settled \in SUBSET Live /\ settled # {} /\ Live # {}
  BY <1>2
<1>5. state' \in [Agent -> {"off", "mining", "pause"}] /\ Live' = Live \ settled
  BY <1>1, <1>2, AnsweredCallers
<1>6. << >> \in Seq(Agent) /\ Live' = (Live \ settled) \cup ToSet(<< >>)
  BY <1>5 DEF ToSet
<1>7. /\ outbox \in [Worker -> Seq(Live \cup {Old})] /\ fresh \in SUBSET Live
      /\ running' \in BOOLEAN /\ loopPromise' \in Loop \cup {None} /\ stopping' \subseteq Loop
      /\ MinerRuns'
  BY <1>1, <1>2 DEF MiningTypeOK, MinerRuns
<1> HIDE DEF settled
<1> QED
  BY <1>2, <1>3, <1>4, <1>5, <1>6, <1>7, TakenOver
-----------------------------------------------------------------------------
(* What a worker will search for does not change when it reads a message.  *)
LEMMA ReadKeeps ==
  ASSUME MiningInv, NEW w \in Worker, ReadMessage(w)
  PROVE  MiningInv'
<1>1. MiningTypeOK /\ MinerRuns /\ OneJob /\ WorkersOnJob /\ \A v \in Worker : Told(v)
  BY DEF MiningInv
<1>2. /\ health[w] = "alive" /\ inbox[w] # << >>
      /\ inbox' = [inbox EXCEPT ![w] = Tail(inbox[w])]
      /\ current' = [current EXCEPT ![w] = IF Head(inbox[w]) = Stop THEN None ELSE Head(inbox[w])]
      /\ UNCHANGED <<state, fresh, listening, outbox, health, running, loopPromise, stopping, clash>>
  BY DEF ReadMessage, minerVars
<1> DEFINE S == Live \cup {Old, Stop}
<1>3. inbox[w] \in Seq(S)
  BY <1>1 DEF MiningTypeOK
<1>4. Head(inbox[w]) \in S /\ Tail(inbox[w]) \in Seq(S)
  BY <1>2, <1>3, HeadTailProperties
<1>5. /\ Tail(inbox[w]) # << >> => Last(Tail(inbox[w])) = Last(inbox[w])
      /\ Tail(inbox[w]) = << >> => Last(inbox[w]) = Head(inbox[w])
  <2> HIDE DEF S
  <2> QED
    BY <1>2, <1>3, AfterHead
<1>6. Live' = Live
  BY <1>2 DEF Live
<1>7. MiningTypeOK'
  BY <1>1, <1>2, <1>4, <1>6 DEF MiningTypeOK
<1>8. /\ inbox'[w] = Tail(inbox[w])
      /\ current'[w] = IF Head(inbox[w]) = Stop THEN None ELSE Head(inbox[w])
      /\ \A v \in Worker : v # w => inbox'[v] = inbox[v] /\ current'[v] = current[v]
  BY <1>1, <1>2 DEF MiningTypeOK
<1>9. ASSUME NEW v \in Worker PROVE Told(v)'
  <2>1. CASE v # w
    BY <2>1, <1>1, <1>2, <1>8 DEF Told
  <2>2. CASE v = w
    <3>1. Last(inbox[w]) # Old
      BY <1>1, <1>2 DEF Told
    <3> QED
      BY <2>2, <3>1, <1>2, <1>5, <1>8, MiningConstants DEF Told
  <2> QED
    BY <2>1, <2>2
<1>10. OneJob' /\ MinerRuns'
  BY <1>1, <1>2, <1>6 DEF OneJob, MinerRuns
<1>11. WorkersOnJob'
  <2>1. \A v \in Worker : Eventually(v)' = Eventually(v)
    <3>1. Eventually(w)' = Eventually(w)
      BY <1>2, <1>5, <1>8 DEF Eventually
    <3> QED
      BY <3>1, <1>8 DEF Eventually
  <2> QED
    BY <2>1, <1>1, <1>2, <1>6 DEF WorkersOnJob
<1> QED
  BY <1>7, <1>9, <1>10, <1>11 DEF MiningInv

(* A result is on its way to the main thread.                             *)
LEMMA FindKeeps ==
  ASSUME MiningInv, NEW w \in Worker, Find(w)
  PROVE  MiningInv'
<1>1. MiningTypeOK /\ MinerRuns /\ OneJob /\ WorkersOnJob /\ \A v \in Worker : Told(v)
  BY DEF MiningInv
<1>2. /\ current[w] # None
      /\ current' = [current EXCEPT ![w] = None]
      /\ outbox' = [outbox EXCEPT ![w] = Append(outbox[w], current[w])]
      /\ UNCHANGED <<state, fresh, listening, inbox, health, running, loopPromise, stopping, clash>>
  BY DEF Find, minerVars
<1> DEFINE S == Live \cup {Old}
<1>3. outbox[w] \in Seq(S) /\ current[w] \in S
  BY <1>1, <1>2 DEF MiningTypeOK
<1>4. /\ Append(outbox[w], current[w]) \in Seq(S)
      /\ Len(outbox[w]) \in Nat /\ Len(Append(outbox[w], current[w])) = Len(outbox[w]) + 1
      /\ \A k \in 1..Len(outbox[w]) : Append(outbox[w], current[w])[k] = outbox[w][k]
      /\ Append(outbox[w], current[w])[Len(outbox[w]) + 1] = current[w]
  <2> HIDE DEF S
  <2> QED
    BY <1>3, AppendProperties, LenProperties
<1>5. Live' = Live
  BY <1>2 DEF Live
<1>6. MiningTypeOK'
  BY <1>1, <1>2, <1>4, <1>5 DEF MiningTypeOK
<1>7. /\ outbox'[w] = Append(outbox[w], current[w]) /\ current'[w] = None
      /\ \A v \in Worker : v # w => outbox'[v] = outbox[v] /\ current'[v] = current[v]
  BY <1>1, <1>2 DEF MiningTypeOK
<1>8. \A v \in Worker : Told(v)'
  BY <1>1, <1>2, <1>7, MiningConstants DEF Told
<1>9. OneJob' /\ MinerRuns'
  BY <1>1, <1>2, <1>5 DEF OneJob, MinerRuns
<1>10. WorkersOnJob'
  <2> SUFFICES ASSUME NEW a \in Live, NEW v \in Worker, ~ clash, health[v] = "alive"
               PROVE  Eventually(v)' = a \/ Contains(outbox'[v], a)
    BY <1>2, <1>5 DEF WorkersOnJob
  <2>1. Eventually(v) = a \/ Contains(outbox[v], a)
    BY <1>1 DEF WorkersOnJob
  <2>2. CASE v # w
    BY <2>1, <2>2, <1>2, <1>7 DEF Eventually
  <2>3. CASE v = w /\ Contains(outbox[w], a)
    <3>1. PICK k \in 1..Len(outbox[w]) : outbox[w][k] = a
      BY <2>3 DEF Contains
    <3>2. k \in 1..Len(outbox'[w]) /\ outbox'[w][k] = a
      BY <3>1, <1>4, <1>7
    <3> QED
      BY <3>2, <2>3 DEF Contains
  <2>4. CASE v = w /\ Eventually(w) = a /\ inbox[w] = << >>
    <3>1. current[w] = a
      BY <2>4 DEF Eventually
    <3>2. Len(outbox[w]) + 1 \in 1..Len(outbox'[w]) /\ outbox'[w][Len(outbox[w]) + 1] = a
      BY <3>1, <1>4, <1>7
    <3> QED
      BY <3>2, <2>4 DEF Contains
  <2>5. CASE v = w /\ Eventually(w) = a /\ inbox[w] # << >>
    BY <2>5, <1>2 DEF Eventually
  <2> QED
    BY <2>1, <2>2, <2>3, <2>4, <2>5
<1> QED
  BY <1>6, <1>8, <1>9, <1>10 DEF MiningInv

(* A thread that is gone leaves nothing behind.                            *)
LEMMA CrashKeeps ==
  ASSUME MiningInv, NEW w \in Worker, Crash(w)
  PROVE  MiningInv'
<1>1. MiningTypeOK /\ MinerRuns /\ OneJob /\ WorkersOnJob /\ \A v \in Worker : Told(v)
  BY DEF MiningInv
<1>2. /\ health' = [health EXCEPT ![w] = "failed"]
      /\ inbox' = [inbox EXCEPT ![w] = << >>] /\ current' = [current EXCEPT ![w] = None]
      /\ UNCHANGED <<state, fresh, listening, outbox, running, loopPromise, stopping, clash>>
  BY DEF Crash, minerVars
<1>3. Live' = Live
  BY <1>2 DEF Live
<1>4. /\ health'[w] = "failed" /\ inbox'[w] = << >> /\ current'[w] = None
      /\ \A v \in Worker : v # w => health'[v] = health[v] /\ inbox'[v] = inbox[v]
                                    /\ current'[v] = current[v]
  BY <1>1, <1>2 DEF MiningTypeOK
<1>5. MiningTypeOK'
  <2>1. << >> \in Seq(Live \cup {Old, Stop})
    OBVIOUS
  <2> QED
    BY <2>1, <1>1, <1>2, <1>3 DEF MiningTypeOK
<1>6. \A v \in Worker : Told(v)'
  BY <1>1, <1>4, MiningConstants DEF Told
<1>7. OneJob' /\ MinerRuns'
  BY <1>1, <1>2, <1>3, <1>4 DEF OneJob, MinerRuns
<1>8. WorkersOnJob'
  BY <1>1, <1>2, <1>3, <1>4 DEF WorkersOnJob, Eventually
<1> QED
  BY <1>5, <1>6, <1>7, <1>8 DEF MiningInv

(* The result of a job that is over says nothing of the live ones.         *)
LEMMA IgnoreKeeps ==
  ASSUME MiningInv, NEW w \in Worker, IgnoreResult(w)
  PROVE  MiningInv'
<1>1. MiningTypeOK /\ MinerRuns /\ OneJob /\ WorkersOnJob /\ \A v \in Worker : Told(v)
  BY DEF MiningInv
<1>2. /\ outbox[w] # << >> /\ Head(outbox[w]) = Old
      /\ outbox' = [outbox EXCEPT ![w] = Tail(outbox[w])]
      /\ UNCHANGED <<state, fresh, listening, current, inbox, health, running, loopPromise,
                     stopping, clash>>
  BY DEF IgnoreResult, minerVars
<1> DEFINE S == Live \cup {Old}
<1>3. outbox[w] \in Seq(S)
  BY <1>1 DEF MiningTypeOK
<1>4. Tail(outbox[w]) \in Seq(S)
  BY <1>2, <1>3, HeadTailProperties
<1>5. Live' = Live
  BY <1>2 DEF Live
<1>6. MiningTypeOK'
  BY <1>1, <1>2, <1>4, <1>5 DEF MiningTypeOK
<1>7. outbox'[w] = Tail(outbox[w]) /\ \A v \in Worker : v # w => outbox'[v] = outbox[v]
  BY <1>1, <1>2 DEF MiningTypeOK
<1>8. \A a \in Live, v \in Worker : Contains(outbox[v], a) => Contains(outbox'[v], a)
  <2>1. \A e : Contains(outbox[w], e) /\ e # Old => Contains(Tail(outbox[w]), e)
    <3> HIDE DEF S
    <3> QED
      BY <1>2, <1>3, AfterHead
  <2>2. \A a \in Live : a # Old
    BY MiningConstants DEF Live
  <2> QED
    BY <2>1, <2>2, <1>7
<1>9. \A v \in Worker : Told(v)'
  BY <1>1, <1>2 DEF Told
<1>10. OneJob' /\ MinerRuns'
  BY <1>1, <1>2, <1>5 DEF OneJob, MinerRuns
<1>11. WorkersOnJob'
  BY <1>1, <1>2, <1>5, <1>8 DEF WorkersOnJob, Eventually
<1> QED
  BY <1>6, <1>9, <1>10, <1>11 DEF MiningInv
(* The error of a worker answers every caller.                             *)
LEMMA ErrorKeeps ==
  ASSUME MiningInv, NEW w \in Worker, WorkerError(w)
  PROVE  MiningInv'
<1>1. MiningTypeOK /\ MinerRuns /\ \A v \in Worker : Told(v)
  BY DEF MiningInv
<1>2. /\ health[w] = "failed" /\ health' = [health EXCEPT ![w] = "reported"]
      /\ state' = Answered(Live)
      /\ running' = running /\ loopPromise' = loopPromise /\ stopping' = stopping
      /\ Release(outbox, Live, << >>) /\ MakeTemplates(fresh, Live, << >>)
  BY DEF WorkerError, minerVars
<1>3. Live \in SUBSET Agent
  BY DEF Live
<1>4. state' \in [Agent -> {"off", "mining", "pause"}] /\ Live' = {}
  BY <1>1, <1>2, <1>3, AnsweredCallers
<1>5. /\ \A v \in Worker : health'[v] = "alive" <=> health[v] = "alive"
      /\ health' \in [Worker -> {"alive", "failed", "reported"}]
  BY <1>1, <1>2 DEF MiningTypeOK
<1> DEFINE N == {}
<1>6. N \in SUBSET Agent /\ << >> \in Seq(N) /\ Live \ Live \subseteq N
  OBVIOUS
<1>7. outbox \in [Worker -> Seq(Live \cup {Old})] /\ fresh \in SUBSET Live
  BY <1>1 DEF MiningTypeOK
<1>8. /\ current' \in [Worker -> N \cup {None, Old}]
      /\ inbox' \in [Worker -> Seq(N \cup {Old, Stop})]
      /\ outbox' \in [Worker -> Seq(N \cup {Old})]
      /\ \A v \in Worker : Told(v)'
  <2> HIDE DEF N
  <2> QED
    BY <1>1, <1>2, <1>3, <1>5, <1>6, <1>7, Released
<1>9. fresh' \subseteq Live' /\ listening' \subseteq Live' /\ clash' \in BOOLEAN
  <2>1. Live' = (Live \ Live) \cup ToSet(<< >>) /\ << >> \in Seq(Agent)
    BY <1>4 DEF ToSet
  <2> QED
    BY <2>1, <1>1, <1>2, <1>3, <1>7, TemplatesMade
<1>10. MiningTypeOK'
  BY <1>1, <1>2, <1>4, <1>5, <1>8, <1>9 DEF MiningTypeOK
<1>11. OneJob' /\ WorkersOnJob' /\ MinerRuns'
  BY <1>1, <1>2, <1>4 DEF OneJob, WorkersOnJob, MinerRuns
<1> QED
  BY <1>8, <1>10, <1>11 DEF MiningInv

(* A new process or a new pool starts with idle workers.                   *)
LEMMA RenewedKeeps ==
  ASSUME MiningInv, NEW w \in Worker, UncaughtError(w) \/ WorkerExit(w)
  PROVE  MiningInv'
<1>1. MiningTypeOK /\ MinerRuns /\ OneJob /\ WorkersOnJob
  BY DEF MiningInv
<1>2. /\ health' = [v \in Worker |-> "alive"] /\ inbox' = [v \in Worker |-> << >>]
      /\ outbox' = [v \in Worker |-> << >>] /\ current' = [v \in Worker |-> None]
      /\ fresh' = fresh /\ listening' = listening /\ clash' = clash
  BY DEF UncaughtError, WorkerExit
<1>3. \A v \in Worker : Told(v)'
  BY <1>2, MiningConstants DEF Told
<1>4. CASE UncaughtError(w)
  <2>1. /\ Live = {} /\ state' = [a \in Agent |-> "off"]
        /\ running' = FALSE /\ loopPromise' = None /\ stopping' = {}
    BY <1>4 DEF UncaughtError
  <2>2. Live' = {}
    BY <2>1 DEF Live
  <2>3. MiningTypeOK'
    <3>1. << >> \in Seq(Live' \cup {Old, Stop}) /\ << >> \in Seq(Live' \cup {Old})
      OBVIOUS
    <3> QED
      BY <3>1, <1>1, <1>2, <2>1, <2>2 DEF MiningTypeOK
  <2>4. OneJob' /\ WorkersOnJob' /\ MinerRuns'
    BY <2>1, <2>2 DEF OneJob, WorkersOnJob, MinerRuns
  <2> QED
    BY <1>3, <2>3, <2>4 DEF MiningInv
<1>5. CASE WorkerExit(w)
  <2>1. /\ health[w] = "reported" /\ state' = state
        /\ running' = running /\ loopPromise' = loopPromise /\ stopping' = stopping
    BY <1>5 DEF WorkerExit, minerVars
  <2>2. Live' = Live
    BY <2>1 DEF Live
  <2>3. MiningTypeOK'
    <3>1. << >> \in Seq(Live \cup {Old, Stop}) /\ << >> \in Seq(Live \cup {Old})
      OBVIOUS
    <3> QED
      BY <3>1, <1>1, <1>2, <2>1, <2>2 DEF MiningTypeOK
  <2>4. ~ clash => Live = {}
    BY <1>1, <2>1 DEF OneJob
  <2>5. OneJob' /\ WorkersOnJob' /\ MinerRuns'
    BY <1>1, <1>2, <2>1, <2>2, <2>4 DEF OneJob, WorkersOnJob, MinerRuns
  <2> QED
    BY <1>3, <2>3, <2>5 DEF MiningInv
<1> QED
  BY <1>4, <1>5

(* A loop of the automatic miner begins, goes on or ends.                  *)
LEMMA MinerKeeps ==
  ASSUME MiningInv, StartMiner \/ StopMiner \/ \E l \in Loop : LoopWake(l)
  PROVE  MiningInv'
<1>1. MiningTypeOK /\ MinerRuns /\ OneJob /\ WorkersOnJob /\ \A v \in Worker : Told(v)
  BY DEF MiningInv
<1>2. CASE StartMiner
  <2>1. PICK l \in Loop : running' = TRUE /\ loopPromise' = l /\ BeginJob(l)
    BY <1>2 DEF StartMiner
  <2>2. l \in Agent /\ l # None
    BY MiningConstants DEF Agent
  <2>3. /\ running' \in BOOLEAN /\ loopPromise' \in Loop \cup {None} /\ stopping' \subseteq Loop
        /\ MinerRuns'
    BY <1>1, <1>2, <2>1, <2>2 DEF StartMiner, MinerRuns, MiningTypeOK
  <2> QED
    BY <2>1, <2>2, <2>3, BegunJob
<1>3. CASE StopMiner
  <2>1. /\ UNCHANGED <<state, fresh, listening, current, inbox, outbox, health, loopPromise, clash>>
        /\ running /\ running' = FALSE /\ stopping' = stopping \cup {loopPromise}
    BY <1>3 DEF StopMiner, poolVars
  <2>2. Live' = Live
    BY <2>1 DEF Live
  <2>3. MiningTypeOK'
    BY <1>1, <2>1, <2>2 DEF MiningTypeOK, MinerRuns
  <2>4. OneJob' /\ WorkersOnJob' /\ MinerRuns' /\ \A v \in Worker : Told(v)'
    BY <1>1, <2>1, <2>2 DEF OneJob, WorkersOnJob, MinerRuns, Told, Eventually
  <2> QED
    BY <2>3, <2>4 DEF MiningInv
<1>4. ASSUME NEW l \in Loop, LoopWake(l) PROVE MiningInv'
  <2>1. l \in Agent
    BY DEF Agent
  <2>2. CASE running /\ BeginJob(l) /\ UNCHANGED minerVars
    <3>1. /\ running' \in BOOLEAN /\ loopPromise' \in Loop \cup {None} /\ stopping' \subseteq Loop
          /\ MinerRuns'
      BY <1>1, <2>2 DEF minerVars, MinerRuns, MiningTypeOK
    <3> QED
      BY <2>1, <2>2, <3>1, BegunJob
  <2>3. CASE ~ (running /\ BeginJob(l) /\ UNCHANGED minerVars)
    <3>1. /\ state[l] = "pause" /\ ~ running /\ state' = [state EXCEPT ![l] = "off"]
          /\ stopping' = stopping \ {l}
          /\ loopPromise' = IF l \in stopping /\ loopPromise = l THEN None ELSE loopPromise
          /\ UNCHANGED <<fresh, listening, current, inbox, outbox, health, running, clash>>
      BY <1>4, <2>3 DEF LoopWake, poolVars
    <3>2. Live' = Live
      BY <1>1, <2>1, <3>1 DEF Live, MiningTypeOK
    <3>3. MiningTypeOK'
      BY <1>1, <2>1, <3>1, <3>2 DEF MiningTypeOK
    <3>4. OneJob' /\ WorkersOnJob' /\ MinerRuns' /\ \A v \in Worker : Told(v)'
      BY <1>1, <3>1, <3>2 DEF OneJob, WorkersOnJob, MinerRuns, Told, Eventually
    <3> QED
      BY <3>3, <3>4 DEF MiningInv
  <2> QED
    BY <2>2, <2>3
<1> QED
  BY <1>2, <1>3, <1>4

-----------------------------------------------------------------------------
(* The invariant of the miner and its pool: types, what a worker has been  *)
(* told of jobs that are over, and what holds as long as no two jobs met.  *)
THEOREM MiningInvariant == MiningSpec => []MiningInv
<1>1. MiningInit => MiningInv
  <2> SUFFICES ASSUME MiningInit PROVE MiningInv
    OBVIOUS
  <2>1. Live = {}
    BY DEF MiningInit, Live
  <2>2. MiningTypeOK
    <3>1. << >> \in Seq(Live \cup {Old, Stop}) /\ << >> \in Seq(Live \cup {Old})
      OBVIOUS
    <3> QED
      BY <3>1, <2>1 DEF MiningInit, MiningTypeOK
  <2>3. \A w \in Worker : Told(w)
    BY MiningConstants DEF MiningInit, Told
  <2>4. MinerRuns /\ OneJob /\ WorkersOnJob
    BY <2>1 DEF MiningInit, MinerRuns, OneJob, WorkersOnJob
  <2> QED
    BY <2>2, <2>3, <2>4 DEF MiningInv
<1>2. MiningInv /\ [MiningNext]_miningVars => MiningInv'
  <2> SUFFICES ASSUME MiningInv, [MiningNext]_miningVars PROVE MiningInv'
    OBVIOUS
  <2>1. CASE StartMiner \/ StopMiner \/ \E l \in Loop : LoopWake(l)
    BY <2>1, MinerKeeps
  <2>2. ASSUME NEW c \in Caller, CallMine(c) PROVE MiningInv'
    <3>1. c \in Agent /\ BeginJob(c) /\ running' = running /\ loopPromise' = loopPromise
          /\ stopping' = stopping
      BY <2>2 DEF CallMine, minerVars, Agent
    <3>2. MiningTypeOK /\ MinerRuns
      BY DEF MiningInv
    <3>3. /\ running' \in BOOLEAN /\ loopPromise' \in Loop \cup {None} /\ stopping' \subseteq Loop
          /\ MinerRuns'
      BY <3>1, <3>2 DEF MinerRuns, MiningTypeOK
    <3> QED
      BY <3>1, <3>3, BegunJob
  <2>3. ASSUME NEW w \in Worker, WorkerStep(w) PROVE MiningInv'
    BY <2>3, ReadKeeps, FindKeeps, CrashKeeps DEF WorkerStep
  <2>4. ASSUME NEW w \in Worker, ResultStep(w) PROVE MiningInv'
    BY <2>4, IgnoreKeeps, WinKeeps DEF ResultStep
  <2>5. ASSUME NEW w \in Worker, WorkerEnds(w) PROVE MiningInv'
    BY <2>5, ErrorKeeps, RenewedKeeps DEF WorkerEnds
  <2>6. CASE News
    BY <2>6, NewsKeeps
  <2>7. ASSUME NEW a \in Agent, CancelIfStale(a) PROVE MiningInv'
    BY <2>7, CancelKeeps
  <2>8. CASE UNCHANGED miningVars
    <3>1. UNCHANGED <<state, fresh, listening, current, inbox, outbox, health, running,
                      loopPromise, stopping, clash>>
      BY <2>8 DEF miningVars, poolVars, minerVars
    <3>2. Live' = Live
      BY <3>1 DEF Live
    <3> QED
      BY <3>1, <3>2 DEF MiningInv, MiningTypeOK, Told, MinerRuns, OneJob, WorkersOnJob, Eventually
  <2> QED
    BY <2>1, <2>2, <2>3, <2>4, <2>5, <2>6, <2>7, <2>8 DEF MiningNext
<1> QED
  BY <1>1, <1>2, PTL DEF MiningSpec

(* A worker that searches for a block nobody waits for any more has a      *)
(* message on its way to it, however many callers share the pool and       *)
(* whoever settled the job.                                                *)
THEOREM NobodyStrays == MiningSpec => []NoStrayWork
<1>1. MiningInv => NoStrayWork
  BY DEF MiningInv, Told, NoStrayWork
<1> QED
  BY <1>1, MiningInvariant, PTL

(* As long as no two jobs met, no worker that lives is stopped by a        *)
(* message of an earlier job: it searches for the live job, will, or has   *)
(* found it.                                                               *)
THEOREM WorkersStayOnJob == MiningSpec => []WorkersOnJob
BY MiningInvariant, PTL DEF MiningInv

=============================================================================
