------------------------------- MODULE Script -------------------------------
(***************************************************************************)
(* The script machine (src/script.js): a script, read into a list of       *)
(* operations, runs over the data its spender supplies until it throws or  *)
(* a single value remains.  One action is one round of the loop.           *)
(*                                                                         *)
(* Data is a byte string with a meaning as a number or a truth value, or   *)
(* a key, a signature, a secret or a hash, which differ from each other    *)
(* and from every number.  A script is the one its address commits to.     *)
(***************************************************************************)
EXTENDS Integers, SequencesExt, FiniteSetsExt

CONSTANTS Families,    \* what is run: contracts, what is offered to them, lock times
          BASE,        \* values of a byte of a number (256)
          NUM_BYTES, LOCK_BYTES,  \* longest numbers: of keys (4), of CLTV (5)
          DIRECT,      \* shortest data that needs PUSHDATA1 (76)
          MAX_PUSH_BYTES, MAX_STACK, MAX_OPS, MAX_SIGOPS,
          LOCKTIME_THRESHOLD,
          SampleNumbers, SampleLengths, Now  \* bound: what the formats and clocks are checked on

ASSUME ScriptConstants ==
  /\ BASE % 2 = 0 /\ BASE > 2 /\ NUM_BYTES \in Nat /\ LOCK_BYTES \in Nat
  /\ {DIRECT, MAX_STACK, MAX_OPS, MAX_SIGOPS, LOCKTIME_THRESHOLD} \subseteq Nat \ {0}

VARIABLES
  spend,      \* the contract, unlock and ctx.lockTime of this run
  script,     \* its operations
  stack, branches, opCount, sigOps,
  at,         \* the operation that is next
  verdict,    \* "running", "true", "false" or "thrown"
  checks,     \* history: signatures verified
  decided     \* history: what the IF at a place decided

scriptVars == <<spend, script, stack, branches, opCount, sigOps, at, verdict, checks, decided>>

-----------------------------------------------------------------------------
(* Data.  A number is little endian with a sign bit, and as short as can   *)
(* be; zero, minus zero and the empty string are false.                    *)
Bytes(b) == <<"bytes", b>>
Sig(k) == <<"sig", k>>
Pub(k) == <<"pub", k>>
Secret == <<"secret">>
Sha256(d) == <<"sha256", d>>
Hash160(d) == <<"hash160", d>>

HALF == BASE \div 2

Digits[a \in Nat] == IF a = 0 THEN << >> ELSE <<a % BASE>> \o Digits[a \div BASE]

EncodeNum(value) ==
  LET digits == Digits[IF value < 0 THEN -value ELSE value]
      sign == IF value < 0 THEN HALF ELSE 0
  IN  IF value = 0 THEN << >>
      ELSE IF Last(digits) >= HALF THEN Append(digits, sign)
      ELSE [digits EXCEPT ![Len(digits)] = @ + sign]

\* Fault: the last byte may be nothing but a sign that was not needed.
IsShortestLoose(b) == b # << >> => Last(b) # 0

IsShortest(b) ==
  b # << >> => Last(b) % HALF # 0 \/ (Len(b) > 1 /\ b[Len(b) - 1] >= HALF)

NumberOf(b) ==
  LET size == MapThenSumSet(LAMBDA i : (IF i = Len(b) THEN b[i] % HALF ELSE b[i]) * BASE ^ (i - 1),
                            DOMAIN b)
  IN  IF b # << >> /\ Last(b) >= HALF THEN -size ELSE size

\* decodeNum throws on anything else.
IsNumber(d, maxBytes) == d[1] = "bytes" /\ Len(d[2]) <= maxBytes /\ IsShortest(d[2])

IsTruthy(d) ==
  d[1] = "bytes" => \E i \in DOMAIN d[2] : d[2][i] # 0 /\ ~ (i = Len(d[2]) /\ d[2][i] = HALF)

Bool(b) == Bytes(IF b THEN <<1>> ELSE << >>)

Verify(key, signature) == key[1] = "pub" /\ signature[1] = "sig" /\ key[2] = signature[2]

-----------------------------------------------------------------------------
(* Scripts and their bytes. *)
Code(c) == [code |-> c]
Push(d) == [code |-> "PUSH", data |-> d]
Num(n) == Push(Bytes(EncodeNum(n)))

Opcode ==
  {<<"IF", 99>>, <<"NOTIF", 100>>, <<"ELSE", 103>>, <<"ENDIF", 104>>, <<"VERIFY", 105>>,
   <<"DROP", 117>>, <<"DUP", 118>>, <<"EQUAL", 135>>, <<"EQUALVERIFY", 136>>, <<"SHA256", 168>>,
   <<"HASH160", 169>>, <<"CHECKSIG", 172>>, <<"CHECKSIGVERIFY", 173>>, <<"CHECKMULTISIG", 174>>,
   <<"CHECKMULTISIGVERIFY", 175>>, <<"CHECKLOCKTIMEVERIFY", 177>>}

PUSHDATA1 == 76
OP_1 == 81

\* pushData writes the length in one byte, whatever it is.
PushData(b) ==
  (IF Len(b) < DIRECT THEN <<Len(b)>> ELSE <<PUSHDATA1, Len(b) % 256>>) \o b

PushNum(n) == IF n \in 1 .. 16 THEN <<OP_1 + n - 1>> ELSE PushData(EncodeNum(n))

(* parse: the operation that starts at a byte, and where the next starts;  *)
(* data cut off at the end, or an unknown byte, throws.                    *)
Throws == [code |-> "THROWS"]

PushFrom(bytes, first, length) ==
  IF first + length - 1 > Len(bytes) \/ length > MAX_PUSH_BYTES
  THEN [op |-> Throws, next |-> Len(bytes) + 1]
  ELSE [op |-> Push(Bytes(SubSeq(bytes, first, first + length - 1))), next |-> first + length]

ReadOp(bytes, i) ==
  LET b == bytes[i]
      named == {o \in Opcode : o[2] = b}
  IN  CASE b < DIRECT -> PushFrom(bytes, i + 1, b)
        [] b = PUSHDATA1 /\ i < Len(bytes) -> PushFrom(bytes, i + 2, bytes[i + 1])
        [] b \in OP_1 .. OP_1 + 15 -> [op |-> Num(b - OP_1 + 1), next |-> i + 1]
        [] named # {} -> [op |-> Code((CHOOSE o \in named : TRUE)[1]), next |-> i + 1]
        [] OTHER -> [op |-> Throws, next |-> Len(bytes) + 1]

Parse(bytes) ==
  LET from[i \in 1 .. Len(bytes) + 1] ==
        IF i > Len(bytes) THEN << >> ELSE LET r == ReadOp(bytes, i) IN <<r.op>> \o from[r.next]
  IN  from[1]

-----------------------------------------------------------------------------
(* The standard scripts, as contracts. *)
Multisig(m, keys) ==
  <<Num(m)>> \o [i \in DOMAIN keys |-> Push(Pub(keys[i]))] \o <<Num(Len(keys)), Code("CHECKMULTISIG")>>

ToHashOf(key) == <<Code("DUP"), Code("HASH160"), Push(Hash160(Pub(key)))>>
AndSigned == <<Code("EQUALVERIFY"), Code("CHECKSIG")>>
NotBefore(lock) == <<Num(lock), Code("CHECKLOCKTIMEVERIFY"), Code("DROP")>>

PayToPublicKeyHash(key) == ToHashOf(key) \o AndSigned

TimeLocked(lock, key) == NotBefore(lock) \o ToHashOf(key) \o AndSigned

HashTimeLocked(receiver, sender, lock) ==
  <<Code("IF"), Code("SHA256"), Push(Sha256(Secret)), Code("EQUALVERIFY")>> \o ToHashOf(receiver)
  \o <<Code("ELSE")>> \o NotBefore(lock) \o ToHashOf(sender) \o <<Code("ENDIF")>> \o AndSigned

ScriptOf(c) ==
  CASE c.type = "multisig" -> Multisig(c.m, c.keys)
    [] c.type = "p2pkh" -> PayToPublicKeyHash(c.key)
    [] c.type = "timelock" -> TimeLocked(c.lock, c.key)
    [] c.type = "htlc" -> HashTimeLocked(c.receiver, c.sender, c.lock)
    [] c.type = "custom" -> c.ops

(* describe: what kind of script this is.  It throws at a script that has  *)
(* the frame of a multisig or of a p2pkh around what pushes no data.       *)
HasNumber(op, maxBytes) == op.code = "PUSH" /\ IsNumber(op.data, maxBytes)

LockOf(ops) ==
  LET place == SelectInSeq(ops, LAMBDA op : op.code = "CHECKLOCKTIMEVERIFY") - 1
  IN  IF place > 0 /\ HasNumber(ops[place], LOCK_BYTES) THEN NumberOf(ops[place].data[2]) ELSE -1

Describe(ops) ==
  LET size == Len(ops)
      codes == {ops[i].code : i \in DOMAIN ops}
      counts == size >= 4 /\ ops[size].code = "CHECKMULTISIG"
                /\ HasNumber(ops[1], NUM_BYTES) /\ HasNumber(ops[size - 1], NUM_BYTES)
  IN  IF counts /\ size = NumberOf(ops[size - 1].data[2]) + 3
      THEN IF \A i \in 2 .. size - 2 : ops[i].code = "PUSH"
           THEN [type |-> "multisig", m |-> NumberOf(ops[1].data[2]),
                 keys |-> [i \in 1 .. size - 3 |-> ops[i + 1].data]]
           ELSE [type |-> "throws"]
      ELSE IF {"CHECKLOCKTIMEVERIFY", "IF"} \subseteq codes THEN [type |-> "htlc", lock |-> LockOf(ops)]
      ELSE IF "CHECKLOCKTIMEVERIFY" \in codes THEN [type |-> "timelock", lock |-> LockOf(ops)]
      ELSE IF size = 5 /\ <<ops[1].code, ops[2].code, ops[4].code, ops[5].code>>
                            = <<"DUP", "HASH160", "EQUALVERIFY", "CHECKSIG">>
      THEN [type |-> IF ops[3].code = "PUSH" THEN "p2pkh" ELSE "throws"]
      ELSE [type |-> "custom"]

-----------------------------------------------------------------------------
(* evaluate *)
ScriptInit ==
  /\ \E f \in Families :
       spend \in [contract : f.contracts, unlock : f.unlocks, lockTime : f.lockTimes]
  /\ script = ScriptOf(spend.contract)
  /\ stack = spend.unlock /\ branches = << >> /\ opCount = 0 /\ sigOps = 0 /\ at = 1
  /\ verdict = IF Len(spend.unlock) > MAX_STACK THEN "thrown" ELSE "running"
  /\ checks = 0 /\ decided = [i \in DOMAIN script |-> FALSE]

Executing == \A i \in DOMAIN branches : branches[i]
Op == script[at]

\* Fault: an IF in a branch that is off is passed over like anything else.
SkipsIfs == ~ Executing /\ Op.code \notin {"ELSE", "ENDIF"}

Skips == ~ Executing /\ Op.code \notin {"IF", "NOTIF", "ELSE", "ENDIF"}

Throw == verdict' = "thrown" /\ UNCHANGED <<stack, branches, sigOps, checks, decided>>

Leave(s, b) ==
  IF Len(s) > MAX_STACK THEN Throw
  ELSE stack' = s /\ branches' = b /\ UNCHANGED <<verdict, sigOps, checks, decided>>

Turn ==
  /\ verdict = "running" /\ at \in DOMAIN script
  /\ at' = at + 1 /\ UNCHANGED <<spend, script>>

Skip ==
  /\ Turn /\ Skips
  /\ UNCHANGED <<stack, branches, opCount, sigOps, verdict, checks, decided>>

PushOp ==
  /\ Turn /\ ~ Skips /\ Op.code = "PUSH"
  /\ Leave(Append(stack, Op.data), branches) /\ UNCHANGED opCount

TooManyOps ==
  /\ Turn /\ ~ Skips /\ Op.code # "PUSH" /\ opCount >= MAX_OPS
  /\ Throw /\ UNCHANGED opCount

Counted(codes) ==
  /\ Turn /\ ~ Skips /\ Op.code \in codes /\ opCount < MAX_OPS
  /\ opCount' = opCount + 1

If ==
  /\ Counted({"IF", "NOTIF"})
  /\ LET value == IsTruthy(Last(stack)) = (Op.code = "IF")
     IN  IF ~ Executing THEN Leave(stack, Append(branches, FALSE))
         ELSE IF stack = << >> THEN Throw
         ELSE /\ stack' = Front(stack) /\ branches' = Append(branches, value)
              /\ decided' = [decided EXCEPT ![at] = value]
              /\ UNCHANGED <<verdict, sigOps, checks>>

Else ==
  /\ Counted({"ELSE"})
  /\ IF branches = << >> THEN Throw
     ELSE LET outer == \A i \in 1 .. Len(branches) - 1 : branches[i]
          IN  Leave(stack, [branches EXCEPT ![Len(branches)] = outer /\ ~ @])

EndIf ==
  /\ Counted({"ENDIF"})
  /\ IF branches = << >> THEN Throw ELSE Leave(stack, Front(branches))

(* The operations that end in VERIFY throw where the others push FALSE.    *)
Verifying == {"VERIFY", "EQUALVERIFY", "CHECKSIGVERIFY", "CHECKMULTISIGVERIFY"}

Result(ok, rest) ==
  IF Op.code \notin Verifying THEN stack' = Append(rest, Bool(ok)) /\ UNCHANGED verdict
  ELSE IF ok THEN stack' = rest /\ UNCHANGED verdict
  ELSE verdict' = "thrown" /\ UNCHANGED stack

Depth == Len(stack)
Below(n) == SubSeq(stack, 1, Depth - n)

VerifyOp ==
  /\ Counted({"VERIFY"})
  /\ IF Depth = 0 THEN Throw
     ELSE Result(IsTruthy(Last(stack)), Below(1)) /\ UNCHANGED <<branches, sigOps, checks, decided>>

Drop == Counted({"DROP"}) /\ IF Depth = 0 THEN Throw ELSE Leave(Below(1), branches)
Dup == Counted({"DUP"}) /\ IF Depth = 0 THEN Throw ELSE Leave(Append(stack, Last(stack)), branches)

Equal ==
  /\ Counted({"EQUAL", "EQUALVERIFY"})
  /\ IF Depth < 2 THEN Throw
     ELSE /\ Result(stack[Depth] = stack[Depth - 1], Below(2))
          /\ UNCHANGED <<branches, sigOps, checks, decided>>

HashOp ==
  /\ Counted({"SHA256", "HASH160"})
  /\ IF Depth = 0 THEN Throw
     ELSE LET d == Last(stack)
          IN  Leave(Append(Below(1), IF Op.code = "SHA256" THEN Sha256(d) ELSE Hash160(d)), branches)

CheckSig ==
  /\ Counted({"CHECKSIG", "CHECKSIGVERIFY"})
  /\ IF sigOps >= MAX_SIGOPS \/ Depth < 2 THEN Throw
     ELSE /\ Result(Verify(stack[Depth], stack[Depth - 1]), Below(2))
          /\ sigOps' = sigOps + 1 /\ checks' = checks + 1
          /\ UNCHANGED <<branches, decided>>

\* Fault: every signature is looked for from the first key on.
MatchAnyOrder(keys, sigs) ==
  LET n == Len(keys)
      place == [i \in DOMAIN sigs |-> Min({k \in 1 .. n : Verify(keys[k], sigs[i])} \cup {n + 1})]
  IN  [ok |-> \A i \in DOMAIN sigs : place[i] <= n,
       checks |-> MapThenSumSet(LAMBDA i : Min({place[i], n}), DOMAIN sigs)]

(* Each signature is looked for behind the key of the one before it.       *)
Match(keys, sigs) ==
  LET n == Len(keys)
      place[i \in 0 .. Len(sigs)] ==
        IF i = 0 THEN 0
        ELSE Min({k \in place[i - 1] + 1 .. n : Verify(keys[k], sigs[i])} \cup {n + 1})
  IN  [ok |-> place[Len(sigs)] <= n, checks |-> Min({place[Len(sigs)], n})]

\* The number at a place of the stack, or -1.
NumAt(place, maxBytes) ==
  IF place \in DOMAIN stack /\ IsNumber(stack[place], maxBytes) THEN NumberOf(stack[place][2]) ELSE -1

\* Fault: a multisig is one signature operation.
CostOfOne(n) == 1

\* The signature operations a multisig of n keys is counted as.
Cost(n) == n

CheckMultisig ==
  /\ Counted({"CHECKMULTISIG", "CHECKMULTISIGVERIFY"})
  /\ LET n == NumAt(Depth, NUM_BYTES)
         m == NumAt(Depth - n - 1, NUM_BYTES)
         match == Match(SubSeq(stack, Depth - n, Depth - 1),
                        SubSeq(stack, Depth - n - 1 - m, Depth - n - 2))
     IN  IF \/ n \notin 1 .. MAX_SIGOPS \/ sigOps + Cost(n) > MAX_SIGOPS
            \/ m \notin 1 .. n \/ Depth < n + m + 2
         THEN Throw
         ELSE /\ Result(match.ok, Below(n + m + 2))
              /\ sigOps' = sigOps + Cost(n) /\ checks' = checks + match.checks
              /\ UNCHANGED <<branches, decided>>

Unlocks(required, lockTime) ==
  /\ required >= 0 /\ required <= lockTime
  /\ (required < LOCKTIME_THRESHOLD) = (lockTime < LOCKTIME_THRESHOLD)

(* The value stays on the stack.                                           *)
CheckLockTimeVerify ==
  /\ Counted({"CHECKLOCKTIMEVERIFY"})
  /\ IF Unlocks(NumAt(Depth, LOCK_BYTES), spend.lockTime) THEN Leave(stack, branches) ELSE Throw

Finish ==
  /\ verdict = "running" /\ at = Len(script) + 1
  /\ verdict' = IF branches # << >> \/ Depth # 1 THEN "thrown"
                ELSE IF IsTruthy(stack[1]) THEN "true" ELSE "false"
  /\ UNCHANGED <<spend, script, stack, branches, opCount, sigOps, at, checks, decided>>

ScriptNext ==
  \/ Skip \/ PushOp \/ TooManyOps \/ If \/ Else \/ EndIf \/ VerifyOp \/ Drop \/ Dup \/ Equal
  \/ HashOp \/ CheckSig \/ CheckMultisig \/ CheckLockTimeVerify \/ Finish

ScriptSpec == ScriptInit /\ [][ScriptNext]_scriptVars

(* isFinalTx: the blocks a transaction with this lock time may be in.      *)
IsFinalTx(lockTime, now) ==
  lockTime = 0 \/ lockTime <= (IF lockTime < LOCKTIME_THRESHOLD THEN now.height ELSE now.mtp)

-----------------------------------------------------------------------------
(* Types; and no script makes the node do more than the limits say,        *)
(* whatever is in it: in particular no more signatures are verified than   *)
(* were counted (MAX_STACK, MAX_OPS, MAX_SIGOPS; evaluate).                *)
WorkBounded ==
  /\ verdict \in {"running", "true", "false", "thrown"} /\ branches \in Seq(BOOLEAN)
  /\ verdict # "thrown" => Len(stack) <= MAX_STACK
  /\ opCount <= MAX_OPS
  /\ checks <= sigOps /\ sigOps <= MAX_SIGOPS

Opening(i) == script[i].code \in {"IF", "NOTIF"}
Closing(i) == script[i].code = "ENDIF"

\* How deep a place is below the IF at i; the IF encloses it while above 0.
Nested(i, place) ==
  Cardinality({j \in i .. place - 1 : Opening(j)}) - Cardinality({j \in i .. place - 1 : Closing(j)})
Encloses(i, place) == Opening(i) /\ \A j \in i + 1 .. place : Nested(i, j) > 0
Turned(i, place) ==
  Cardinality({j \in i + 1 .. place - 1 : script[j].code = "ELSE" /\ Nested(i, j) = 1}) % 2 = 1

(* An operation runs if and only if every IF around it chose the side it   *)
(* is on, however they are nested and however often an ELSE turns them,    *)
(* and a script with an open IF does not pass (branches, evaluate).        *)
NestingRight ==
  /\ verdict = "running" /\ at \in DOMAIN script =>
       (Executing <=> \A i \in 1 .. at - 1 : Encloses(i, at) => decided[i] # Turned(i, at))
  /\ verdict \in {"true", "false"} => \A i \in DOMAIN script : Opening(i) => ~ Encloses(i, at)

SignedBy(unlock, k) == unlock[1] = Sig(k) /\ unlock[2] = Pub(k)

\* Whatever block the transaction may be in, the lock is over in it.
Reached(lock) ==
  /\ Len(EncodeNum(lock)) <= LOCK_BYTES
  /\ \A now \in Now : IsFinalTx(spend.lockTime, now) => IsFinalTx(lock, now)

\* What the comments of the standard scripts say opens them.
Opens(c, unlock) ==
  CASE c.type = "multisig" ->
         /\ Len(unlock) = c.m
         /\ \E place \in [DOMAIN unlock -> DOMAIN c.keys] :
              /\ \A i, j \in DOMAIN unlock : i < j => place[i] < place[j]
              /\ \A i \in DOMAIN unlock : unlock[i] = Sig(c.keys[place[i]])
    [] c.type = "p2pkh" -> Len(unlock) = 2 /\ SignedBy(unlock, c.key)
    [] c.type = "timelock" -> Len(unlock) = 2 /\ SignedBy(unlock, c.key) /\ Reached(c.lock)
    [] c.type = "htlc" ->
         \/ Len(unlock) = 4 /\ SignedBy(unlock, c.receiver) /\ unlock[3] = Secret /\ IsTruthy(unlock[4])
         \/ Len(unlock) = 3 /\ SignedBy(unlock, c.sender) /\ ~ IsTruthy(unlock[3]) /\ Reached(c.lock)

(* A standard script opens for exactly the data it was made for: m         *)
(* different keys in order, the receiver with the secret at any time, and  *)
(* the owner or the sender only with a lock time that keeps the            *)
(* transaction out of every block before the lock is over (multisig,       *)
(* timeLocked, hashTimeLocked, evaluate, isFinalTx).                       *)
StandardMeaning ==
  verdict # "running" /\ spend.contract.type # "custom" =>
    (verdict = "true" <=> Opens(spend.contract, spend.unlock))

NumbersExact ==
  /\ \A n \in SampleNumbers : IsShortest(EncodeNum(n)) /\ NumberOf(EncodeNum(n)) = n
  /\ \A b \in BoundedSeq(0 .. BASE - 1, NUM_BYTES) : IsShortest(b) => EncodeNum(NumberOf(b)) = b

\* A push of that many bytes, of a number, and every operation.
Written ==
  {<<PushData([i \in 1 .. n |-> 0]), Push(Bytes([i \in 1 .. n |-> 0]))>> : n \in SampleLengths}
    \cup {<<PushNum(n), Num(n)>> : n \in 0 .. 20}
    \cup {<< <<o[2]>>, Code(o[1])>> : o \in Opcode}

ReadBack == \A u, v \in Written : Parse(u[1] \o v[1]) = <<u[2], v[2]>>

Recognised(c) ==
  LET d == Describe(ScriptOf(c))
  IN  /\ d.type = c.type
      /\ c.type = "multisig" => d.m = c.m /\ d.keys = [i \in DOMAIN c.keys |-> Pub(c.keys[i])]
      /\ c.type \in {"timelock", "htlc"} =>
           d.lock = IF Len(EncodeNum(c.lock)) <= LOCK_BYTES THEN c.lock ELSE -1

(* A number has one form that is read, an operation is read as what it was *)
(* written for whatever stands beside it, and a standard script is shown   *)
(* as what it is (encodeNum, decodeNum, compile, parse, describe).         *)
FormatsAgree ==
  /\ NumbersExact /\ ReadBack
  /\ at = 1 /\ spend.contract.type # "custom" => Recognised(spend.contract)
=============================================================================
