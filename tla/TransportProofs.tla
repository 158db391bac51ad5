-------------------------- MODULE TransportProofs --------------------------
(***************************************************************************)
(* The encrypted transport: its frames stay in step, nothing is said in    *)
(* plaintext without need, and its steps are those of an ordered channel.  *)
(***************************************************************************)
EXTENDS Transport, SequenceTheorems, FiniteSetTheorems, TLAPS

State == {"none", "handshaking", "plain", "encrypted"}
Frame == [type : {"HANDSHAKE", "PLAIN", "ENC"}, n : Nat, message : Nat]
Session == [state : State, queue : Seq(Nat), sendCounter : Nat, recvCounter : Nat,
            sawEncrypted : BOOLEAN]

Types ==
  /\ mode \in [End -> {"optional", "required", "off"}] /\ mispinned \in BOOLEAN
  /\ session \in [End -> Session] /\ wire \in [End -> Seq(Frame)]
  /\ sent \in [End -> Nat] /\ handled \in [End -> Seq(Nat)] /\ score \in [End -> Nat]
  /\ tokens \in [End -> 0..MESSAGE_BURST] /\ flooded \in [End -> BOOLEAN]
  /\ late \in BOOLEAN /\ closed \in BOOLEAN

(* What the state of an end says of its counters, its queue, its mode and  *)
(* of the messages handled.                                                *)
EndInv(e) ==
  /\ session[e].queue # << >> => session[e].state = "handshaking"
  /\ session[e].state # "encrypted" => session[e].sendCounter = 0
  /\ session[e].state # "encrypted" \/ session[Peer(e)].state # "encrypted" =>
       session[e].recvCounter = 0 /\ ~ session[e].sawEncrypted
  /\ session[e].state = "plain" =>
       mode[e] # "required" /\ (mode[e] = "off" \/ mode[Peer(e)] = "off" \/ late)
  /\ session[e].state \in {"handshaking", "encrypted"} => mode[e] # "off"
  /\ session[e].state = "encrypted" =>
       session[Peer(e)].state # "none" /\ mode[Peer(e)] # "off"
  /\ session[e].state \in {"none", "handshaking"} => handled[Peer(e)] = << >> /\ ~ flooded[Peer(e)]
  /\ mode[e] = "required" /\ session[e].state # "encrypted" => handled[e] = << >>

(* What there is among frames.                                             *)
No(f, type) == \A k \in 1..Len(f) : f[k].type # type
Greets(f) == f # << >> /\ Head(f).type = "HANDSHAKE"
HandshakeFirst(f) == \A k \in 1..Len(f) : f[k].type = "HANDSHAKE" => k = 1

(* Sealed frames are numbered up to the counter of the sender.             *)
NumberedTo(f, counter) ==
  \A k \in 1..Len(f) : f[k].type = "ENC" => f[k].n = counter - Len(f) + k - 1

(* The handshake goes first; what follows is of the sender's kind.         *)
WireInv(e) ==
  LET f == wire[e]
      p == Peer(e)
  IN  /\ closed \/ session[p].state = "none" => f = << >>
      /\ HandshakeFirst(f) /\ NumberedTo(f, session[p].sendCounter)
      /\ mode[p] = "off" \/ session[e].state = "encrypted" => No(f, "HANDSHAKE")
      /\ session[p].state # "plain" => No(f, "PLAIN")
      /\ session[p].state # "encrypted" => No(f, "ENC")

(* An end that has not done its handshake has that of the other before it, *)
(* and every sealed frame is still on its way; one that has done it waits  *)
(* for the first of those there are, or for one it has dropped.            *)
InStep(e) ==
  LET f == wire[e]
      p == Peer(e)
  IN  closed \/
      /\ session[e].state \in {"none", "handshaking"} /\ session[p].state # "none" /\ mode[p] # "off" =>
           Greets(f) /\ (session[p].state = "encrypted" => session[p].sendCounter = Len(f) - 1)
      /\ session[e].state = "encrypted" /\ session[p].state = "encrypted" =>
           IF flooded[e] THEN session[e].recvCounter + Len(f) < session[p].sendCounter
                         ELSE session[p].sendCounter = session[e].recvCounter + Len(f)

(* Nothing has come yet from the other end.                                *)
Unheard(e) == session[Peer(e)].state = "none" \/ Greets(wire[e])

(* An end that has heard nothing has all its tokens.  Between nodes that   *)
(* agree, an end rejects at most the handshake, and a token is used by the *)
(* handshake or by a message handled.                                      *)
Patient(e) ==
  /\ Unheard(e) => tokens[e] = MESSAGE_BURST /\ ~ flooded[e]
  /\ ~ Impaired =>
       /\ MESSAGE_BURST <= tokens[e] + Len(handled[e]) + 1
       /\ score[e] <= MALFORMED /\ (Unheard(e) => score[e] = 0)

TransportInv ==
  /\ Types
  /\ \A e \in End : EndInv(e) /\ WireInv(e) /\ InStep(e) /\ Patient(e)

-----------------------------------------------------------------------------
(* The two ends are each other's peer.                                     *)
LEMMA Ends ==
  ASSUME NEW e \in End
  PROVE  Peer(e) \in End /\ Peer(e) # e /\ Peer(Peer(e)) = e /\ End = {e, Peer(e)}
BY TransportConstants DEF End, Peer

(* A concatenation, element by element.                                    *)
LEMMA Concatenation ==
  ASSUME NEW S, NEW f \in Seq(S), NEW h \in Seq(S)
  PROVE  /\ f \o h \in Seq(S) /\ Len(f \o h) = Len(f) + Len(h) /\ Len(f) \in Nat /\ Len(h) \in Nat
         /\ \A k \in 1..Len(f \o h) : (f \o h)[k] = IF k <= Len(f) THEN f[k] ELSE h[k - Len(f)]
BY ConcatProperties

(* The first of a concatenation, and the rest.                             *)
LEMMA HeadTailConcat ==
  ASSUME NEW S, NEW f \in Seq(S), NEW h \in Seq(S), f # << >>
  PROVE  f \o h # << >> /\ Head(f \o h) = Head(f) /\ Tail(f \o h) = Tail(f) \o h
<1> DEFINE g == Tail(f)
           fh == f \o h
           gh == g \o h
<1>1. /\ g \in Seq(S) /\ Len(f) \in Nat \ {0} /\ Len(g) = Len(f) - 1 /\ Len(h) \in Nat
      /\ Head(f) = f[1] /\ \A k \in 1..Len(g) : g[k] = f[k + 1]
  BY HeadTailProperties, EmptySeq, LenProperties
<1>2. /\ fh \in Seq(S) /\ Len(fh) = Len(f) + Len(h)
      /\ \A k \in 1..Len(fh) : fh[k] = IF k <= Len(f) THEN f[k] ELSE h[k - Len(f)]
  BY Concatenation
<1>3. /\ gh \in Seq(S) /\ Len(gh) = Len(g) + Len(h)
      /\ \A k \in 1..Len(gh) : gh[k] = IF k <= Len(g) THEN g[k] ELSE h[k - Len(g)]
  BY <1>1, Concatenation
<1> HIDE DEF fh, gh, g
<1>4. fh # << >>
  BY <1>1, <1>2, EmptySeq
<1>5. Head(fh) = fh[1] /\ Tail(fh) \in Seq(S) /\ Len(Tail(fh)) = Len(fh) - 1
      /\ \A k \in 1..Len(Tail(fh)) : Tail(fh)[k] = fh[k + 1]
  BY <1>2, <1>4, HeadTailProperties
<1>6. Head(fh) = Head(f) /\ Len(Tail(fh)) = Len(gh)
  BY <1>1, <1>2, <1>3, <1>5
<1>7. ASSUME NEW k \in 1..Len(gh) PROVE Tail(fh)[k] = gh[k]
  <2>1. /\ k + 1 \in 1..Len(fh) /\ (k + 1 <= Len(f) <=> k <= Len(g)) /\ k + 1 - Len(f) = k - Len(g)
        /\ k <= Len(g) => k \in 1..Len(g)
    BY <1>1, <1>2, <1>3
  <2>2. Tail(fh)[k] = fh[k + 1]
    BY <1>5, <1>6
  <2>3. fh[k + 1] = IF k <= Len(g) THEN f[k + 1] ELSE h[k - Len(g)]
    BY <1>2, <2>1
  <2>4. gh[k] = IF k <= Len(g) THEN g[k] ELSE h[k - Len(g)]
    BY <1>3
  <2> QED
    BY <1>1, <2>1, <2>2, <2>3, <2>4
<1>8. Tail(fh) = gh
  BY <1>3, <1>5, <1>6, <1>7, SeqEqual, Zenon
<1> QED
  BY <1>4, <1>6, <1>8 DEF fh, gh, g

(* Appending to the second of two sequences is appending to both together. *)
LEMMA AppendToConcat ==
  ASSUME NEW S, NEW f \in Seq(S), NEW q \in Seq(S), NEW m \in S
  PROVE  f \o Append(q, m) = Append(f \o q, m)
<1>1. <<m>> \in Seq(S) /\ f \o q \in Seq(S)
  BY ConcatProperties
<1>2. Append(q, m) = q \o <<m>> /\ Append(f \o q, m) = (f \o q) \o <<m>>
  BY <1>1, AppendIsConcat
<1>3. (f \o q) \o <<m>> = f \o (q \o <<m>>)
  BY <1>1, ConcatAssociative
<1> QED
  BY <1>2, <1>3

(* A frame more: the next number, if it is sealed.                         *)
LEMMA AppendFrame ==
  ASSUME NEW f \in Seq(Frame), NEW x \in Frame, NEW c \in Nat, NEW d \in Nat,
         x.type # "HANDSHAKE", NumberedTo(f, c), HandshakeFirst(f),
         \/ x.type = "ENC" /\ x.n = c /\ d = c + 1
         \/ x.type = "PLAIN" /\ No(f, "ENC")
  PROVE  LET g == Append(f, x)
         IN  /\ g \in Seq(Frame) /\ Len(f) \in Nat /\ Len(g) = Len(f) + 1
             /\ NumberedTo(g, d) /\ HandshakeFirst(g)
             /\ Greets(g) <=> Greets(f)
             /\ \A type : No(f, type) /\ x.type # type => No(g, type)
<1> DEFINE g == Append(f, x)
<1>1. /\ g \in Seq(Frame) /\ g # << >> /\ Len(g) = Len(f) + 1 /\ Len(f) \in Nat
      /\ \A k \in 1..Len(f) : g[k] = f[k]
      /\ g[Len(f) + 1] = x
  BY AppendProperties
<1>2. ASSUME NEW k \in 1..Len(g), ~ (k \in 1..Len(f))
      PROVE  k = Len(f) + 1 /\ g[k] = x
  BY <1>1, <1>2
<1> HIDE DEF g
<1>3. HandshakeFirst(g)
  BY <1>1, <1>2 DEF HandshakeFirst
<1>4. \A type : No(f, type) /\ x.type # type => No(g, type)
  BY <1>1, <1>2 DEF No
<1>5. NumberedTo(g, d)
  <2>1. CASE x.type = "PLAIN" /\ No(f, "ENC")
    <3>1. No(g, "ENC")
      BY <1>4, <2>1
    <3> QED
      BY <3>1 DEF No, NumberedTo
  <2>2. CASE x.type = "ENC" /\ x.n = c /\ d = c + 1
    <3>1. ASSUME NEW k \in 1..Len(f), f[k].type = "ENC"
          PROVE  g[k].n = d - Len(g) + k - 1
      <4>1. f[k].n = c - Len(f) + k - 1 /\ g[k] = f[k]
        BY <1>1, <3>1 DEF NumberedTo
      <4> QED
        BY <1>1, <2>2, <4>1
    <3>2. x.n = d - Len(g) + (Len(f) + 1) - 1
      BY <1>1, <2>2
    <3> QED
      BY <1>1, <1>2, <3>1, <3>2 DEF NumberedTo
  <2> QED
    BY <2>1, <2>2
<1>6. Greets(g) <=> Greets(f)
  <2>1. CASE f = << >>
    <3>1. Head(g) = x
      BY <1>1, <2>1, HeadTailProperties
    <3> QED
      BY <1>1, <2>1, <3>1 DEF Greets
  <2>2. CASE f # << >>
    <3>1. Head(g) = g[1] /\ Head(f) = f[1] /\ 1 \in 1..Len(f)
      BY <1>1, <2>2, HeadTailProperties, EmptySeq
    <3> QED
      BY <1>1, <2>2, <3>1 DEF Greets
  <2> QED
    BY <2>1, <2>2
<1> QED
  BY <1>1, <1>3, <1>4, <1>5, <1>6 DEF g

(* A frame less: the handshake, if there was one.                          *)
LEMMA TailFrame ==
  ASSUME NEW f \in Seq(Frame), f # << >>, NEW c \in Nat, NumberedTo(f, c), HandshakeFirst(f)
  PROVE  LET g == Tail(f)
         IN  /\ g \in Seq(Frame) /\ Len(f) \in Nat \ {0} /\ Len(g) = Len(f) - 1
             /\ Head(f) \in Frame /\ ~ No(f, Head(f).type)
             /\ Head(f).type = "ENC" => Head(f).n = c - Len(f)
             /\ NumberedTo(g, c) /\ HandshakeFirst(g) /\ No(g, "HANDSHAKE") /\ ~ Greets(g)
             /\ \A type : No(f, type) => No(g, type)
<1> DEFINE g == Tail(f)
<1>1. /\ g \in Seq(Frame) /\ Len(f) \in Nat \ {0} /\ Len(g) = Len(f) - 1
      /\ Head(f) = f[1] /\ Head(f) \in Frame /\ 1 \in 1..Len(f)
      /\ \A k \in 1..Len(g) : g[k] = f[k + 1]
  BY HeadTailProperties, EmptySeq
<1>2. ASSUME NEW k \in 1..Len(g)
      PROVE  k + 1 \in 1..Len(f) /\ k + 1 # 1
  BY <1>1
<1> HIDE DEF g
<1>3. \A type : No(f, type) => No(g, type)
  BY <1>1, <1>2 DEF No
<1>4. No(g, "HANDSHAKE")
  BY <1>1, <1>2 DEF No, HandshakeFirst
<1>5. HandshakeFirst(g)
  BY <1>4 DEF No, HandshakeFirst
<1>6. ~ Greets(g)
  <2>1. g # << >> => Head(g) = g[1] /\ 1 \in 1..Len(g)
    BY <1>1, HeadTailProperties, EmptySeq
  <2> QED
    BY <1>4, <2>1 DEF No, Greets
<1>7. NumberedTo(g, c)
  <2>1. ASSUME NEW k \in 1..Len(g), g[k].type = "ENC"
        PROVE  g[k].n = c - Len(g) + k - 1
    <3>1. f[k + 1].n = c - Len(f) + (k + 1) - 1 /\ g[k] = f[k + 1]
      BY <1>1, <1>2, <2>1 DEF NumberedTo
    <3> QED
      BY <1>1, <3>1
  <2> QED
    BY <2>1 DEF NumberedTo
<1>8. Head(f).type = "ENC" => Head(f).n = c - Len(f)
  <2>1. f[1].type = "ENC" => f[1].n = c - Len(f) + 1 - 1
    BY <1>1 DEF NumberedTo
  <2> QED
    BY <1>1, <2>1
<1>9. ~ No(f, Head(f).type)
  BY <1>1 DEF No
<1> QED
  BY <1>1, <1>3, <1>4, <1>5, <1>6, <1>7, <1>8, <1>9 DEF g

(* Nothing, and a lone handshake.                                          *)
LEMMA NoFrame ==
  ASSUME NEW c
  PROVE  /\ << >> \in Seq(Frame) /\ Len(<< >>) = 0 /\ ~ Greets(<< >>)
         /\ NumberedTo(<< >>, c) /\ HandshakeFirst(<< >>) /\ \A type : No(<< >>, type)
BY DEF NumberedTo, HandshakeFirst, No, Greets

(* A handshake alone is a good start of the frames on their way.           *)
LEMMA LoneHandshake ==
  ASSUME NEW c
  PROVE  LET f == <<Handshake>>
         IN  /\ f \in Seq(Frame) /\ Len(f) = 1 /\ Greets(f)
             /\ NumberedTo(f, c) /\ HandshakeFirst(f) /\ No(f, "PLAIN") /\ No(f, "ENC")
<1>1. Handshake \in Frame /\ Handshake.type = "HANDSHAKE"
  BY DEF Handshake, Frame
<1>2. <<Handshake>> \in Seq(Frame) /\ Len(<<Handshake>>) = 1 /\ Head(<<Handshake>>) = Handshake
      /\ <<Handshake>> # << >> /\ <<Handshake>>[1] = Handshake
  BY <1>1
<1> QED
  BY <1>1, <1>2 DEF NumberedTo, HandshakeFirst, No, Greets

(* What was queued goes out after the handshake, in plaintext.             *)
LEMMA PlainFrames ==
  ASSUME NEW f \in Seq(Frame), NEW ms \in Seq(Nat), NEW c, HandshakeFirst(f), No(f, "ENC")
  PROVE  LET g == f \o PlainAll(ms)
         IN  /\ g \in Seq(Frame) /\ HandshakeFirst(g) /\ NumberedTo(g, c) /\ No(g, "ENC")
             /\ No(f, "HANDSHAKE") => No(g, "HANDSHAKE")
             /\ Greets(g) <=> Greets(f)
<1> DEFINE h == PlainAll(ms)
           g == f \o h
<1>1. /\ h \in Seq(Frame) /\ Len(h) = Len(ms)
      /\ \A k \in 1..Len(h) : h[k] \in Frame /\ h[k].type = "PLAIN"
  <2>1. \A k \in 1..Len(ms) : Plain(ms[k]) \in Frame /\ Plain(ms[k]).type = "PLAIN"
    BY DEF Plain, Frame
  <2>2. DOMAIN ms = 1..Len(ms) /\ Len(ms) \in Nat
    OBVIOUS
  <2> QED
    BY <2>1, <2>2 DEF PlainAll
<1> HIDE DEF h
<1>2. /\ g \in Seq(Frame) /\ Len(g) = Len(f) + Len(h) /\ Len(f) \in Nat /\ Len(h) \in Nat
      /\ \A k \in 1..Len(g) : g[k] = IF k <= Len(f) THEN f[k] ELSE h[k - Len(f)]
  BY <1>1, Concatenation
<1> HIDE DEF g
<1>3. ASSUME NEW k \in 1..Len(g)
      PROVE  (k \in 1..Len(f) /\ g[k] = f[k]) \/ (k - Len(f) \in 1..Len(h) /\ g[k] = h[k - Len(f)])
  BY <1>2
<1>4. ASSUME NEW k \in 1..Len(g)
      PROVE  /\ g[k].type # "ENC"
             /\ g[k].type = "HANDSHAKE" => k \in 1..Len(f) /\ g[k] = f[k]
  BY <1>1, <1>3 DEF No
<1>5. HandshakeFirst(g) /\ NumberedTo(g, c) /\ No(g, "ENC") /\ (No(f, "HANDSHAKE") => No(g, "HANDSHAKE"))
  BY <1>4 DEF HandshakeFirst, NumberedTo, No
<1>6. Greets(g) <=> Greets(f)
  <2>1. g # << >> => Head(g) = g[1] /\ 1 \in 1..Len(g)
    BY <1>2, HeadTailProperties, EmptySeq
  <2>2. f # << >> => Head(f) = f[1] /\ 1 \in 1..Len(f)
    BY HeadTailProperties, EmptySeq
  <2>3. f # << >> => g # << >> /\ g[1] = f[1]
    BY <1>2, <2>2, EmptySeq
  <2>4. f = << >> => ~ (1 \in 1..Len(f))
    OBVIOUS
  <2> QED
    BY <1>4, <2>1, <2>2, <2>3, <2>4 DEF Greets
<1> QED
  BY <1>2, <1>5, <1>6 DEF g, h

(* Or sealed, in which case nothing but the handshake went before.         *)
LEMMA SealedFrames ==
  ASSUME NEW f \in Seq(Frame), NEW ms \in Seq(Nat), HandshakeFirst(f), No(f, "PLAIN"), No(f, "ENC")
  PROVE  LET h == SealedAll(0, ms)
             g == f \o h
         IN  /\ h \in Seq(Frame) /\ Len(h) = Len(ms) /\ Len(ms) \in Nat
             /\ g \in Seq(Frame) /\ HandshakeFirst(g) /\ NumberedTo(g, Len(ms)) /\ No(g, "PLAIN")
             /\ No(f, "HANDSHAKE") => No(g, "HANDSHAKE") /\ Len(g) = Len(ms)
             /\ Greets(f) => Len(g) = Len(ms) + 1
             /\ Greets(g) <=> Greets(f)
<1> DEFINE h == SealedAll(0, ms)
           g == f \o h
<1>1. /\ h \in Seq(Frame) /\ Len(h) = Len(ms)
      /\ \A k \in 1..Len(h) : h[k] \in Frame /\ h[k].type = "ENC" /\ h[k].n = k - 1
  <2>1. \A k \in 1..Len(ms) : LET x == Sealed(0 + k - 1, ms[k])
                               IN  x \in Frame /\ x.type = "ENC" /\ x.n = k - 1
    BY DEF Sealed, Frame
  <2>2. DOMAIN ms = 1..Len(ms) /\ Len(ms) \in Nat
    OBVIOUS
  <2> QED
    BY <2>1, <2>2 DEF SealedAll
<1>0. h \in Seq(Frame) /\ Len(h) = Len(ms) /\ Len(f) \in Nat /\ Len(ms) \in Nat
  BY <1>1, LenProperties
<1> HIDE DEF h
<1>2. /\ g \in Seq(Frame) /\ Len(g) = Len(f) + Len(h) /\ Len(f) \in Nat /\ Len(h) \in Nat
      /\ \A k \in 1..Len(g) : g[k] = IF k <= Len(f) THEN f[k] ELSE h[k - Len(f)]
  BY <1>0, Concatenation
<1> HIDE DEF g
<1>3. ASSUME NEW k \in 1..Len(g)
      PROVE  (k \in 1..Len(f) /\ g[k] = f[k]) \/ (k - Len(f) \in 1..Len(h) /\ g[k] = h[k - Len(f)])
  BY <1>2
<1>4. ASSUME NEW k \in 1..Len(f)
      PROVE  f[k].type = "HANDSHAKE" /\ k = 1
  <2>1. f[k] \in Frame
    OBVIOUS
  <2> QED
    BY <2>1 DEF Frame, No, HandshakeFirst
<1>5. ASSUME NEW k \in 1..Len(g)
      PROVE  /\ g[k].type # "PLAIN"
             /\ g[k].type = "HANDSHAKE" => k \in 1..Len(f) /\ g[k] = f[k]
             /\ g[k].type = "ENC" => g[k].n = k - Len(f) - 1
  BY <1>1, <1>3, <1>4
<1>6. HandshakeFirst(g) /\ No(g, "PLAIN") /\ (No(f, "HANDSHAKE") => No(g, "HANDSHAKE"))
  BY <1>5, <1>4 DEF HandshakeFirst, No
<1>7. NumberedTo(g, Len(ms))
  <2>1. ASSUME NEW k \in 1..Len(g) PROVE k - Len(f) - 1 = Len(ms) - Len(g) + k - 1
    BY <1>1, <1>2
  <2> QED
    BY <1>5, <2>1 DEF NumberedTo
<1>8. Greets(g) <=> Greets(f)
  <2>1. g # << >> => Head(g) = g[1] /\ 1 \in 1..Len(g)
    BY <1>2, HeadTailProperties, EmptySeq
  <2>2. f # << >> => Head(f) = f[1] /\ 1 \in 1..Len(f)
    BY HeadTailProperties, EmptySeq
  <2>3. f # << >> => g # << >> /\ g[1] = f[1]
    BY <1>2, <2>2, EmptySeq
  <2>4. f = << >> => ~ (1 \in 1..Len(f))
    OBVIOUS
  <2> QED
    BY <1>5, <2>1, <2>2, <2>3, <2>4 DEF Greets
<1>9. /\ No(f, "HANDSHAKE") => Len(f) = 0
      /\ Greets(f) => Len(f) = 1
  <2>1. Len(f) # 0 => 1 \in 1..Len(f)
    BY <1>2
  <2>2. \A n \in Nat : n = 0 \/ n = 1 \/ 2 \in 1..n
    OBVIOUS
  <2>3. Len(f) \in {0, 1}
    <3>1. ASSUME 2 \in 1..Len(f) PROVE FALSE
      <4>1. 2 = 1
        BY <1>4, <3>1
      <4> QED
        BY <4>1
    <3> QED
      BY <1>0, <2>2, <3>1
  <2>4. Greets(f) => Len(f) # 0
    BY <1>2, EmptySeq DEF Greets
  <2> QED
    BY <1>4, <2>1, <2>3, <2>4 DEF No
<1>10. /\ No(f, "HANDSHAKE") => Len(g) = Len(ms)
       /\ Greets(f) => Len(g) = Len(ms) + 1
  <2>1. Len(g) = Len(f) + Len(ms)
    BY <1>0, <1>2
  <2>2. \A n \in Nat : 0 + n = n /\ 1 + n = n + 1
    OBVIOUS
  <2> QED
    BY <1>0, <1>9, <2>1, <2>2
<1> QED
  BY <1>1, <1>2, <1>6, <1>7, <1>8, <1>10 DEF g, h

-----------------------------------------------------------------------------
(* The invariant holds before anything was sent.                           *)
LEMMA Initial == TransportInit => TransportInv
<1> SUFFICES ASSUME TransportInit PROVE TransportInv
  OBVIOUS
<1>1. NoSession \in Session
  BY DEF NoSession, Session, State
<1>2. Types
  <2>1. << >> \in Seq(Frame) /\ << >> \in Seq(Nat) /\ MESSAGE_BURST \in 0..MESSAGE_BURST
    BY TransportConstants
  <2> QED
    BY <1>1, <2>1 DEF TransportInit, Types
<1>3. ASSUME NEW e \in End
      PROVE  EndInv(e) /\ WireInv(e) /\ InStep(e) /\ Patient(e)
  <2>1. Peer(e) \in End /\ session[e] = NoSession /\ session[Peer(e)] = NoSession
        /\ wire[e] = << >> /\ handled[e] = << >> /\ handled[Peer(e)] = << >> /\ score[e] = 0
        /\ tokens[e] = MESSAGE_BURST /\ ~ flooded[e] /\ ~ flooded[Peer(e)]
    BY Ends DEF TransportInit
  <2>2. Patient(e)
    <3>1. Len(handled[e]) = 0 /\ MESSAGE_BURST \in Nat /\ MALFORMED \in Nat
      BY <2>1, TransportConstants
    <3> QED
      BY <2>1, <3>1 DEF Patient
  <2> QED
    BY <2>1, <2>2, NoFrame DEF EndInv, WireInv, InStep, NoSession
<1> QED
  BY <1>2, <1>3 DEF TransportInv

(* An end starts.                                                          *)
LEMMA StartKeepsInv ==
  ASSUME TransportInv, NEW e \in End, Start(e)
  PROVE  TransportInv'
<1> DEFINE p == Peer(e)
<1>1. p \in End /\ p # e /\ Peer(p) = e /\ End = {e, p}
  BY Ends
<1>2. /\ session[e] \in Session /\ session[p] \in Session /\ wire[p] = << >> /\ wire[e] \in Seq(Frame)
      /\ session[e].state = "none" /\ ~ closed
      /\ EndInv(e) /\ EndInv(p) /\ WireInv(e) /\ InStep(e) /\ InStep(p) /\ Patient(e) /\ Patient(p)
  BY <1>1 DEF Start, TransportInv, Types, WireInv
<1>3. UNCHANGED <<mode, mispinned, sent, handled, tokens, score, flooded, late, closed>>
  BY DEF Start
<1>4. PICK state \in {"plain", "handshaking"}, f \in {<< >>, <<Handshake>>} :
        /\ session' = [session EXCEPT ![e].state = state] /\ wire' = [wire EXCEPT ![p] = f]
        /\ IF mode[e] = "off" THEN state = "plain" /\ f = << >>
                              ELSE state = "handshaking" /\ f = <<Handshake>>
  BY <1>1, <1>2 DEF Start, TransportInv, Types
<1>5. session'[p] = session[p] /\ session'[e] = [session[e] EXCEPT !.state = state]
      /\ wire'[e] = wire[e] /\ wire'[p] = f
  BY <1>1, <1>4 DEF TransportInv, Types
<1>6. /\ session'[e] \in Session /\ session'[e].state = state
      /\ session'[e].sendCounter = session[e].sendCounter /\ session'[e].queue = session[e].queue
      /\ session'[e].recvCounter = session[e].recvCounter
      /\ session'[e].sawEncrypted = session[e].sawEncrypted
  BY <1>2, <1>5 DEF Session, State
<1>7. Types'
  <2>1. session' \in [End -> Session]
    BY <1>4, <1>5, <1>6 DEF TransportInv, Types
  <2>2. wire' \in [End -> Seq(Frame)]
    BY <1>4, NoFrame, LoneHandshake DEF TransportInv, Types
  <2> QED
    BY <1>3, <2>1, <2>2 DEF TransportInv, Types
<1>8. EndInv(e)' /\ EndInv(p)'
  BY <1>1, <1>2, <1>3, <1>4, <1>5, <1>6 DEF EndInv
<1>9. WireInv(e)' /\ WireInv(p)'
  <2>1. WireInv(e)'
    BY <1>1, <1>2, <1>3, <1>4, <1>5, <1>6 DEF WireInv
  <2>2. session[p].state # "encrypted"
    BY <1>1, <1>2 DEF EndInv
  <2> QED
    BY <1>1, <1>2, <1>3, <1>4, <1>5, <1>6, <2>1, <2>2, NoFrame, LoneHandshake DEF WireInv
<1>10. InStep(e)' /\ InStep(p)'
  BY <1>1, <1>2, <1>3, <1>4, <1>5, <1>6, LoneHandshake DEF InStep, EndInv
<1>11. Patient(e)' /\ Patient(p)'
  BY <1>1, <1>2, <1>3, <1>5 DEF Patient, Unheard, Impaired
<1> QED
  BY <1>1, <1>7, <1>8, <1>9, <1>10, <1>11 DEF TransportInv

(* The connection is closed: nothing is on its way any more.               *)
LEMMA HangUpKeepsInv ==
  ASSUME TransportInv, HangUp, UNCHANGED <<mode, mispinned, sent, handled>>,
         Impaired', late' \in BOOLEAN, late => late', score' \in [End -> Nat],
         tokens' \in [End -> 0..MESSAGE_BURST], flooded' \in [End -> BOOLEAN],
         \A x \in End :
           /\ tokens'[x] # tokens[x] => session[Peer(x)].state # "none"
           /\ flooded'[x] # flooded[x] => ~ (session[Peer(x)].state \in {"none", "handshaking"})
  PROVE  TransportInv'
<1>1. ASSUME NEW x \in End
      PROVE  /\ session'[x] \in Session /\ session'[x].queue = << >>
             /\ session'[x].state = session[x].state
             /\ session'[x].sendCounter = session[x].sendCounter
             /\ session'[x].recvCounter = session[x].recvCounter
             /\ session'[x].sawEncrypted = session[x].sawEncrypted
             /\ wire'[x] = << >>
  <2>1. session[x] \in Session /\ << >> \in Seq(Nat)
    BY DEF TransportInv, Types
  <2>2. session'[x] = [session[x] EXCEPT !.queue = << >>] /\ wire'[x] = << >>
    BY DEF HangUp
  <2> QED
    BY <2>1, <2>2 DEF Session
<1>2. Types'
  <2>1. session' \in [End -> Session]
    BY <1>1 DEF HangUp
  <2>2. wire' \in [End -> Seq(Frame)]
    BY <1>1 DEF HangUp
  <2> QED
    BY <2>1, <2>2 DEF TransportInv, Types, HangUp
<1>3. ASSUME NEW x \in End
      PROVE  EndInv(x)' /\ WireInv(x)' /\ InStep(x)' /\ Patient(x)'
  <2>1. Peer(x) \in End
    BY Ends
  <2>2. EndInv(x)'
    <3>1. Peer(Peer(x)) = x /\ Impaired' /\ EndInv(x)
      BY Ends DEF TransportInv
    <3>2. session[x].state \in {"none", "handshaking"} => flooded'[Peer(x)] = flooded[Peer(x)]
      BY <2>1, <3>1
    <3> QED
      BY <1>1, <2>1, <3>1, <3>2 DEF EndInv
  <2>3. WireInv(x)' /\ InStep(x)'
    BY <1>1, <2>1, NoFrame DEF WireInv, InStep, HangUp
  <2>4. ~ Greets(wire'[x])
    BY <1>1, NoFrame
  <2>5. Patient(x)'
    BY <1>1, <2>1, <2>4 DEF TransportInv, Patient, Unheard
  <2> QED
    BY <2>2, <2>3, <2>5
<1> QED
  BY <1>2, <1>3 DEF TransportInv

(* What the invariant says of an end and its peer.                         *)
LEMMA Both ==
  ASSUME TransportInv, NEW e \in End
  PROVE  LET p == Peer(e)
         IN  /\ p \in End /\ p # e /\ Peer(p) = e /\ End = {e, p}
             /\ session[e] \in Session /\ session[p] \in Session
             /\ wire[e] \in Seq(Frame) /\ wire[p] \in Seq(Frame)
             /\ session[e].sendCounter \in Nat /\ session[e].recvCounter \in Nat
             /\ session[p].sendCounter \in Nat /\ session[p].recvCounter \in Nat
             /\ session[e].queue \in Seq(Nat) /\ session[e].state \in State /\ session[p].state \in State
             /\ EndInv(e) /\ EndInv(p) /\ WireInv(e) /\ WireInv(p)
             /\ InStep(e) /\ InStep(p) /\ Patient(e) /\ Patient(p)
BY Ends DEF TransportInv, Types, Session

(* An end sends a message, or queues it until it knows the keys.           *)
LEMMA SendMessageKeepsInv ==
  ASSUME TransportInv, NEW e \in End, SendMessage(e)
  PROVE  TransportInv'
<1> DEFINE p == Peer(e)
           m == sent[p] + 1
<1>1. /\ p \in End /\ p # e /\ Peer(p) = e /\ End = {e, p}
      /\ session[e] \in Session /\ session[p] \in Session
      /\ wire[e] \in Seq(Frame) /\ wire[p] \in Seq(Frame)
  BY Both
<1>2. /\ EndInv(e) /\ EndInv(p) /\ WireInv(e) /\ WireInv(p)
      /\ InStep(e) /\ InStep(p) /\ Patient(e) /\ Patient(p)
  BY Both
<1>3. session[e].sendCounter \in Nat /\ session[p].recvCounter \in Nat /\ session[e].queue \in Seq(Nat)
  BY Both
<1>4. m \in Nat /\ sent' \in [End -> Nat] /\ ~ closed /\ session[e].state # "none"
  BY <1>1 DEF SendMessage, TransportInv, Types
<1>5. UNCHANGED <<mode, mispinned, handled, tokens, score, flooded, late, closed>>
  BY DEF SendMessage
<1>6. CASE /\ session[e].state = "plain"
           /\ wire' = [wire EXCEPT ![p] = Append(@, Plain(m))]
           /\ UNCHANGED session
  <2> DEFINE g == Append(wire[p], Plain(m))
  <2>1. Plain(m) \in Frame /\ Plain(m).type = "PLAIN"
    BY <1>4 DEF Plain, Frame
  <2>2. HandshakeFirst(wire[p]) /\ NumberedTo(wire[p], session[e].sendCounter) /\ No(wire[p], "ENC")
    BY <1>1, <1>2, <1>6 DEF WireInv
  <2>3. /\ g \in Seq(Frame) /\ HandshakeFirst(g) /\ NumberedTo(g, session[e].sendCounter)
        /\ Greets(g) <=> Greets(wire[p])
        /\ \A type : No(wire[p], type) /\ Plain(m).type # type => No(g, type)
    BY <1>1, <1>3, <2>1, <2>2, AppendFrame
  <2> HIDE DEF g
  <2>4. wire' = [wire EXCEPT ![p] = g] /\ wire'[p] = g /\ wire'[e] = wire[e]
    BY <1>1, <1>6 DEF TransportInv, Types, g
  <2>5. Types'
    BY <1>4, <1>5, <1>6, <2>3, <2>4 DEF TransportInv, Types
  <2>6. EndInv(e)' /\ EndInv(p)'
    BY <1>1, <1>2, <1>5, <1>6 DEF EndInv
  <2>7. WireInv(e)' /\ WireInv(p)'
    BY <1>1, <1>2, <1>4, <1>5, <1>6, <2>1, <2>3, <2>4 DEF WireInv
  <2>8. InStep(e)' /\ InStep(p)'
    BY <1>1, <1>2, <1>5, <1>6, <2>3, <2>4 DEF InStep
  <2>9. Patient(e)' /\ Patient(p)'
    BY <1>1, <1>2, <1>5, <1>6, <2>3, <2>4 DEF Patient, Unheard, Impaired
  <2> QED
    BY <1>1, <2>5, <2>6, <2>7, <2>8, <2>9 DEF TransportInv
<1>7. CASE /\ session[e].state = "encrypted"
           /\ wire' = [wire EXCEPT ![p] = Append(@, Sealed(session[e].sendCounter, m))]
           /\ session' = [session EXCEPT ![e].sendCounter = @ + 1]
  <2> DEFINE c == session[e].sendCounter
             g == Append(wire[p], Sealed(c, m))
  <2>1. Sealed(c, m) \in Frame /\ Sealed(c, m).type = "ENC" /\ Sealed(c, m).n = c /\ c + 1 \in Nat
    BY <1>3, <1>4 DEF Sealed, Frame
  <2>2. HandshakeFirst(wire[p]) /\ NumberedTo(wire[p], c)
    BY <1>1, <1>2 DEF WireInv
  <2>3. /\ g \in Seq(Frame) /\ HandshakeFirst(g) /\ NumberedTo(g, c + 1)
        /\ Len(wire[p]) \in Nat /\ Len(g) = Len(wire[p]) + 1
        /\ Greets(g) <=> Greets(wire[p])
        /\ \A type : No(wire[p], type) /\ Sealed(c, m).type # type => No(g, type)
    BY <1>1, <1>3, <2>1, <2>2, AppendFrame
  <2> HIDE DEF g
  <2>4. wire' = [wire EXCEPT ![p] = g] /\ wire'[p] = g /\ wire'[e] = wire[e]
    BY <1>1, <1>7 DEF TransportInv, Types, g
  <2>5. /\ session'[e] \in Session /\ session'[e].sendCounter = c + 1
        /\ session'[e].state = session[e].state /\ session'[e].recvCounter = session[e].recvCounter
        /\ session'[e].sawEncrypted = session[e].sawEncrypted /\ session'[e].queue = session[e].queue
        /\ session'[p] = session[p]
    <3>1. session'[e] = [session[e] EXCEPT !.sendCounter = c + 1] /\ session'[p] = session[p]
      BY <1>1, <1>7 DEF TransportInv, Types
    <3> QED
      BY <1>1, <2>1, <3>1 DEF Session
  <2>6. session' \in [End -> Session]
    BY <1>7, <2>5 DEF TransportInv, Types
  <2>7. Types'
    BY <1>4, <1>5, <2>3, <2>4, <2>6 DEF TransportInv, Types
  <2>8. EndInv(e)' /\ EndInv(p)'
    BY <1>1, <1>2, <1>5, <1>7, <2>5 DEF EndInv
  <2>9. WireInv(e)' /\ WireInv(p)'
    BY <1>1, <1>2, <1>4, <1>5, <1>7, <2>1, <2>3, <2>4, <2>5 DEF WireInv
  <2>10. InStep(e)'
    BY <1>1, <1>2, <1>5, <2>4, <2>5 DEF InStep
  <2>11. InStep(p)'
    <3>1. session[p].state = "encrypted" =>
            IF flooded[p] THEN session[p].recvCounter + Len(wire[p]) < c
                          ELSE c = session[p].recvCounter + Len(wire[p])
      BY <1>1, <1>2, <1>4, <1>7 DEF InStep
    <3>2. \A i, j \in Nat : (c = i + j => c + 1 = i + (j + 1)) /\ (i + j < c => i + (j + 1) < c + 1)
      BY <1>3
    <3>3. session[p].state = "encrypted" =>
            IF flooded[p] THEN session[p].recvCounter + Len(g) < c + 1
                          ELSE c + 1 = session[p].recvCounter + Len(g)
      BY <1>3, <2>3, <3>1, <3>2
    <3>4. session[p].state \in {"none", "handshaking"} /\ mode[e] # "off" =>
            Greets(g) /\ c = Len(wire[p]) - 1
      BY <1>1, <1>2, <1>4, <1>7, <2>3 DEF InStep
    <3>5. \A j \in Nat : c = j - 1 => c + 1 = j + 1 - 1
      BY <1>3
    <3> QED
      BY <1>1, <1>5, <2>3, <2>4, <2>5, <3>3, <3>4, <3>5 DEF InStep
  <2>12. Patient(e)' /\ Patient(p)'
    BY <1>1, <1>2, <1>5, <2>3, <2>4, <2>5 DEF Patient, Unheard, Impaired
  <2> QED
    BY <1>1, <2>7, <2>8, <2>9, <2>10, <2>11, <2>12 DEF TransportInv
<1>8. CASE /\ session[e].state = "handshaking"
           /\ session' = [session EXCEPT ![e].queue = Append(@, m)]
           /\ UNCHANGED wire
  <2>1. /\ session'[e] \in Session /\ session'[e].sendCounter = session[e].sendCounter
        /\ session'[e].state = session[e].state /\ session'[e].recvCounter = session[e].recvCounter
        /\ session'[e].sawEncrypted = session[e].sawEncrypted
        /\ session'[p] = session[p]
    <3>1. Append(session[e].queue, m) \in Seq(Nat)
      BY <1>3, <1>4
    <3>2. session'[e] = [session[e] EXCEPT !.queue = Append(session[e].queue, m)] /\ session'[p] = session[p]
      BY <1>1, <1>8 DEF TransportInv, Types
    <3> QED
      BY <1>1, <3>1, <3>2 DEF Session
  <2>2. session' \in [End -> Session]
    BY <1>8, <2>1 DEF TransportInv, Types
  <2>3. Types'
    BY <1>4, <1>5, <1>8, <2>2 DEF TransportInv, Types
  <2>4. EndInv(e)' /\ EndInv(p)'
    BY <1>1, <1>2, <1>5, <1>8, <2>1 DEF EndInv
  <2>5. /\ WireInv(e)' /\ WireInv(p)' /\ InStep(e)' /\ InStep(p)'
        /\ Patient(e)' /\ Patient(p)'
    BY <1>1, <1>2, <1>5, <1>8, <2>1 DEF WireInv, InStep, Patient, Unheard, Impaired
  <2> QED
    BY <1>1, <2>3, <2>4, <2>5 DEF TransportInv
<1> QED
  BY <1>6, <1>7, <1>8 DEF SendMessage, Wrap

(* An end no longer waits and goes on in plaintext.                        *)
LEMMA FallbackKeepsInv ==
  ASSUME TransportInv, NEW e \in End, Fallback(e)
  PROVE  TransportInv'
<1> DEFINE p == Peer(e)
           g == wire[p] \o PlainAll(session[e].queue)
<1>1. /\ p \in End /\ p # e /\ Peer(p) = e /\ End = {e, p}
      /\ session[e] \in Session /\ session[p] \in Session
      /\ wire[e] \in Seq(Frame) /\ wire[p] \in Seq(Frame) /\ session[e].queue \in Seq(Nat)
  BY Both
<1>2. /\ EndInv(e) /\ EndInv(p) /\ WireInv(e) /\ WireInv(p)
      /\ InStep(e) /\ InStep(p) /\ Patient(e) /\ Patient(p)
  BY Both
<1>3. /\ mode[e] = "optional" /\ session[e].state = "handshaking" /\ ~ closed
      /\ UNCHANGED <<mode, mispinned, sent, handled, tokens, score, flooded, closed>>
      /\ late' = (late \/ mode[p] # "off") /\ late' \in BOOLEAN
  BY DEF Fallback, GivesUpEarly, TransportInv, Types
<1>4. /\ g \in Seq(Frame) /\ HandshakeFirst(g) /\ NumberedTo(g, session[e].sendCounter) /\ No(g, "ENC")
      /\ No(wire[p], "HANDSHAKE") => No(g, "HANDSHAKE")
      /\ Greets(g) <=> Greets(wire[p])
  <2>1. HandshakeFirst(wire[p]) /\ No(wire[p], "ENC")
    BY <1>1, <1>2, <1>3 DEF WireInv
  <2> QED
    BY <1>1, <2>1, PlainFrames
<1> HIDE DEF g
<1>5. wire' = [wire EXCEPT ![p] = g] /\ wire'[p] = g /\ wire'[e] = wire[e]
  BY <1>1 DEF Fallback, TransportInv, Types, g
<1>6. /\ session'[e] \in Session /\ session'[e].state = "plain" /\ session'[e].queue = << >>
      /\ session'[e].sendCounter = session[e].sendCounter
      /\ session'[e].recvCounter = session[e].recvCounter
      /\ session'[e].sawEncrypted = session[e].sawEncrypted
      /\ session'[p] = session[p]
  <2>1. /\ session'[e] = [session[e] EXCEPT !.state = "plain", !.queue = << >>]
        /\ session'[p] = session[p]
    BY <1>1 DEF Fallback, TransportInv, Types
  <2>2. << >> \in Seq(Nat) /\ "plain" \in State
    BY DEF State
  <2> QED
    BY <1>1, <2>1, <2>2 DEF Session
<1>7. Types'
  <2>1. session' \in [End -> Session]
    <3>1. \A x \in End : session'[x] \in Session
      BY <1>1, <1>6
    <3>2. DOMAIN session' = End /\ session' = [x \in DOMAIN session' |-> session'[x]]
      BY DEF Fallback, TransportInv, Types
    <3> QED
      BY <3>1, <3>2
  <2> QED
    BY <1>3, <1>4, <1>5, <2>1 DEF TransportInv, Types
<1>8. EndInv(e)' /\ EndInv(p)'
  BY <1>1, <1>2, <1>3, <1>6 DEF EndInv
<1>9. WireInv(e)' /\ WireInv(p)'
  BY <1>1, <1>2, <1>3, <1>4, <1>5, <1>6 DEF WireInv
<1>10. InStep(e)' /\ InStep(p)'
  BY <1>1, <1>2, <1>3, <1>4, <1>5, <1>6 DEF InStep
<1>11. Patient(e)' /\ Patient(p)'
  <2>1. Impaired => Impaired'
    BY <1>3 DEF Impaired
  <2> QED
    BY <1>1, <1>2, <1>3, <1>4, <1>5, <1>6, <2>1 DEF Patient, Unheard
<1> QED
  BY <1>1, <1>7, <1>8, <1>9, <1>10, <1>11 DEF TransportInv

(* An end waited in vain and hangs up.                                     *)
LEMMA RequiredTimeoutKeepsInv ==
  ASSUME TransportInv, NEW e \in End, RequiredTimeout(e)
  PROVE  TransportInv'
<1>1. HangUp /\ UNCHANGED <<mode, mispinned, sent, handled>>
      /\ late' \in BOOLEAN /\ (late => late')
      /\ score' = score /\ score \in [End -> Nat] /\ tokens' = tokens /\ flooded' = flooded
      /\ tokens \in [End -> 0..MESSAGE_BURST] /\ flooded \in [End -> BOOLEAN]
  BY DEF RequiredTimeout, GivesUpEarly, TransportInv, Types
<1>2. Impaired'
  BY DEF RequiredTimeout, GivesUpEarly, Impaired
<1> QED
  BY <1>1, <1>2, HangUpKeepsInv

(* A frame is paid for and gone: a handshake nobody waits for, what only   *)
(* nodes that do not agree send, or what comes over the rate or after it.  *)
LEMMA MisbehavingKeepsInv ==
  ASSUME TransportInv, NEW e \in End, wire[e] # << >>, NEW points \in Nat, NEW s \in Session,
         Misbehaving(e, points, s), UNCHANGED <<mode, mispinned, sent, late>>,
         s.state = session[e].state, s.queue = session[e].queue,
         s.sendCounter = session[e].sendCounter, s.recvCounter = session[e].recvCounter,
         s.sawEncrypted = session[e].sawEncrypted
           \/ (session[e].state = "encrypted" /\ session[Peer(e)].state = "encrypted"),
         tokens' \in [End -> 0..MESSAGE_BURST], tokens'[Peer(e)] = tokens[Peer(e)],
         flooded' \in [End -> BOOLEAN], flooded'[Peer(e)] = flooded[Peer(e)],
         flooded[e] => flooded'[e],
         flooded'[e] # flooded[e] => ~ (session[Peer(e)].state \in {"none", "handshaking"}),
         session[e].state \in {"none", "handshaking"} => Head(wire[e]).type # "HANDSHAKE",
         session[e].state = "encrypted" /\ session[Peer(e)].state = "encrypted" => flooded'[e],
         \/ Impaired'
         \/ Head(wire[e]).type = "HANDSHAKE" /\ points = MALFORMED /\ tokens[e] <= tokens'[e] + 1
  PROVE  TransportInv'
<1> DEFINE p == Peer(e)
           g == Tail(wire[e])
<1>1. /\ p \in End /\ p # e /\ Peer(p) = e /\ End = {e, p}
      /\ session[e] \in Session /\ session[p] \in Session
      /\ wire[e] \in Seq(Frame) /\ session[p].sendCounter \in Nat /\ session[e].recvCounter \in Nat
  BY Both
<1>2. /\ EndInv(e) /\ EndInv(p) /\ WireInv(e) /\ WireInv(p)
      /\ InStep(e) /\ InStep(p) /\ Patient(e) /\ Patient(p)
  BY Both
<1>3. /\ score \in [End -> Nat] /\ score' = [score EXCEPT ![e] = @ + points] /\ score' \in [End -> Nat]
      /\ score'[p] = score[p] /\ score'[e] = score[e] + points /\ score[e] \in Nat
      /\ handled' = handled
  <2>1. score \in [End -> Nat] /\ score' = [score EXCEPT ![e] = @ + points] /\ handled' = handled
    BY DEF Misbehaving, TransportInv, Types
  <2>2. score[e] \in Nat /\ score[e] + points \in Nat
    BY <2>1
  <2> QED
    BY <1>1, <2>1, <2>2
<1>4. session[p].state # "none" /\ ~ closed
  BY <1>2 DEF WireInv
<1>5. Impaired => Impaired'
  <2>1. \A x \in End : flooded[x] => flooded'[x]
    BY <1>1
  <2> QED
    BY <2>1 DEF Impaired
<1>6. ASSUME ~ Impaired'
      PROVE  score[e] = 0 /\ points = MALFORMED /\ tokens[e] = MESSAGE_BURST /\ tokens[e] <= tokens'[e] + 1
  <2>1. Greets(wire[e]) /\ points = MALFORMED /\ tokens[e] <= tokens'[e] + 1
    BY <1>6 DEF Greets
  <2> QED
    BY <1>2, <1>5, <1>6, <2>1 DEF Patient, Unheard
<1>7. CASE ~ (score[e] + points < BAN_THRESHOLD)
  <2>1. HangUp
    BY <1>7 DEF Misbehaving
  <2>2. Impaired'
    BY <1>6, <1>7, TransportConstants
  <2>3. late' \in BOOLEAN /\ (late => late')
    BY DEF TransportInv, Types
  <2>4. ASSUME NEW x \in End
        PROVE  /\ tokens'[x] # tokens[x] => session[Peer(x)].state # "none"
               /\ flooded'[x] # flooded[x] => ~ (session[Peer(x)].state \in {"none", "handshaking"})
    BY <1>1, <1>4
  <2> QED
    BY <1>3, <2>1, <2>2, <2>3, <2>4, HangUpKeepsInv
<1>8. CASE score[e] + points < BAN_THRESHOLD
  <2>0. /\ wire' = [wire EXCEPT ![e] = Tail(@)] /\ session' = [session EXCEPT ![e] = s]
        /\ closed' = closed
    BY <1>8 DEF Misbehaving
  <2>1. HandshakeFirst(wire[e]) /\ NumberedTo(wire[e], session[p].sendCounter)
    BY <1>2 DEF WireInv
  <2>2. /\ g \in Seq(Frame) /\ HandshakeFirst(g) /\ NumberedTo(g, session[p].sendCounter)
        /\ Len(wire[e]) \in Nat \ {0} /\ Len(g) = Len(wire[e]) - 1
        /\ No(g, "HANDSHAKE") /\ ~ Greets(g) /\ \A type : No(wire[e], type) => No(g, type)
    BY <1>1, <2>1, TailFrame
  <2> HIDE DEF g
  <2>3. /\ wire' = [wire EXCEPT ![e] = g] /\ wire'[e] = g /\ wire'[p] = wire[p]
        /\ session'[e] = s /\ session'[p] = session[p]
    BY <1>1, <2>0 DEF TransportInv, Types, g
  <2>4. Types'
    BY <1>3, <2>0, <2>2, <2>3 DEF TransportInv, Types
  <2>5. EndInv(e)' /\ EndInv(p)'
    BY <1>1, <1>2, <1>3, <2>3 DEF EndInv
  <2>6. WireInv(e)' /\ WireInv(p)'
    <3>1. WireInv(e)'
      BY <1>1, <1>2, <1>3, <1>4, <2>0, <2>2, <2>3 DEF WireInv
    <3>2. WireInv(p)'
      BY <1>1, <1>2, <1>3, <1>4, <2>0, <2>3 DEF WireInv
    <3> QED
      BY <3>1, <3>2
  <2>7. InStep(e)'
    <3>1. CASE session[e].state = "encrypted" /\ session[p].state = "encrypted"
      <4>1. session[e].recvCounter + Len(wire[e]) <= session[p].sendCounter
        BY <1>1, <1>2, <1>4, <2>2, <3>1 DEF InStep
      <4>2. \A i, c \in Nat, n \in Nat \ {0} : i + n <= c => i + (n - 1) < c
        OBVIOUS
      <4>3. session[e].recvCounter + (Len(wire[e]) - 1) < session[p].sendCounter
        BY <1>1, <2>2, <4>1, <4>2
      <4>4. s.recvCounter + Len(g) < session[p].sendCounter /\ flooded'[e]
        BY <2>2, <3>1, <4>3
      <4> QED
        BY <2>3, <3>1, <4>4 DEF InStep
    <3>2. CASE ~ (session[e].state = "encrypted" /\ session[p].state = "encrypted")
      BY <1>1, <1>2, <1>4, <2>0, <2>3, <3>2 DEF InStep, Greets
    <3> QED
      BY <3>1, <3>2
  <2>8. InStep(p)'
    BY <1>1, <1>2, <2>0, <2>3 DEF InStep
  <2>9. Patient(e)'
    <3>1. ~ Unheard(e)'
      BY <1>4, <2>2, <2>3 DEF Unheard
    <3>2. ASSUME ~ Impaired'
          PROVE  MESSAGE_BURST <= tokens'[e] + Len(handled[e]) + 1 /\ score'[e] <= MALFORMED
      <4>1. Len(handled[e]) \in Nat /\ tokens'[e] \in Nat
        BY TransportConstants DEF TransportInv, Types
      <4> QED
        BY <1>3, <1>6, <3>2, <4>1, TransportConstants
    <3> QED
      BY <1>3, <3>1, <3>2 DEF Patient
  <2>10. Patient(p)'
    BY <1>1, <1>2, <1>3, <1>5, <2>3 DEF Patient, Unheard
  <2> QED
    BY <1>1, <2>4, <2>5, <2>6, <2>7, <2>8, <2>9, <2>10 DEF TransportInv
<1> QED
  BY <1>7, <1>8

(* A frame that is looked at takes a token.                                *)
Took(e) == \E t \in tokens[e]..MESSAGE_BURST : t >= 1 /\ tokens' = [tokens EXCEPT ![e] = t - 1]

(* It takes no more than one.                                              *)
LEMMA TakenToken ==
  ASSUME TransportInv, NEW e \in End, Took(e)
  PROVE  /\ tokens' \in [End -> 0..MESSAGE_BURST] /\ tokens[e] <= tokens'[e] + 1
         /\ \A x \in End : x # e => tokens'[x] = tokens[x]
         /\ tokens[e] \in Nat /\ tokens'[e] \in Nat
<1>1. tokens \in [End -> 0..MESSAGE_BURST] /\ MESSAGE_BURST \in Nat
  BY TransportConstants DEF TransportInv, Types
<1>2. PICK t \in tokens[e]..MESSAGE_BURST : t >= 1 /\ tokens' = [tokens EXCEPT ![e] = t - 1]
  BY DEF Took
<1>3. tokens[e] \in Nat /\ t \in Nat /\ t - 1 \in 0..MESSAGE_BURST /\ tokens[e] <= (t - 1) + 1
  BY <1>1, <1>2
<1> QED
  BY <1>1, <1>2, <1>3

(* The kind of the first frame tells the state of its sender; a sealed one *)
(* is the one an encrypted end waits for, if it has dropped none.          *)
LEMMA FirstFrame ==
  ASSUME TransportInv, NEW e \in End, wire[e] # << >>
  PROVE  LET p == Peer(e)
             type == Head(wire[e]).type
         IN  /\ ~ closed /\ Head(wire[e]) \in Frame /\ session[p].state # "none"
             /\ type = "HANDSHAKE" => mode[p] # "off" /\ session[e].state # "encrypted"
             /\ type = "PLAIN" => session[p].state = "plain"
             /\ type = "ENC" =>
                  /\ session[p].state = "encrypted"
                  /\ session[e].state \in {"plain", "encrypted"}
                  /\ session[e].state = "encrypted" =>
                       IF flooded[e] THEN session[e].recvCounter < Head(wire[e]).n
                                     ELSE Head(wire[e]).n = session[e].recvCounter
<1> DEFINE p == Peer(e)
           f == wire[e]
<1>1. /\ p \in End /\ Peer(p) = e
      /\ f \in Seq(Frame) /\ session[p].sendCounter \in Nat /\ session[e].recvCounter \in Nat
      /\ session[e].state \in State
      /\ EndInv(p) /\ WireInv(e) /\ InStep(e)
  BY Both
<1>2. HandshakeFirst(f) /\ NumberedTo(f, session[p].sendCounter)
  BY <1>1 DEF WireInv
<1>3. /\ Head(f) \in Frame /\ ~ No(f, Head(f).type) /\ Len(f) \in Nat
      /\ Head(f).type = "ENC" => Head(f).n = session[p].sendCounter - Len(f)
  BY <1>1, <1>2, TailFrame
<1>4. /\ session[p].state # "none" /\ ~ closed
      /\ Head(f).type = "HANDSHAKE" => mode[p] # "off" /\ session[e].state # "encrypted"
      /\ Head(f).type = "PLAIN" => session[p].state = "plain"
      /\ Head(f).type = "ENC" => session[p].state = "encrypted"
  BY <1>1, <1>3 DEF WireInv
<1>5. ASSUME Head(f).type = "ENC"
      PROVE  /\ session[e].state \in {"plain", "encrypted"}
             /\ session[e].state = "encrypted" =>
                  IF flooded[e] THEN session[e].recvCounter < Head(f).n
                                ELSE Head(f).n = session[e].recvCounter
  <2>1. session[p].state = "encrypted" /\ mode[p] # "off"
    BY <1>1, <1>4, <1>5 DEF EndInv
  <2>2. session[e].state \in {"plain", "encrypted"}
    BY <1>1, <1>4, <1>5, <2>1 DEF InStep, Greets, State
  <2>3. session[e].state = "encrypted" =>
          IF flooded[e] THEN session[e].recvCounter + Len(f) < session[p].sendCounter
                        ELSE session[p].sendCounter = session[e].recvCounter + Len(f)
    BY <1>1, <1>4, <2>1 DEF InStep
  <2>4. Head(f).n = session[p].sendCounter - Len(f)
    BY <1>3, <1>5
  <2>5. \A i, j, n \in Nat : (i = j + n => i - n = j) /\ (j + n < i => j < i - n)
    OBVIOUS
  <2> QED
    BY <1>1, <1>3, <2>2, <2>3, <2>4, <2>5
<1> QED
  BY <1>3, <1>4, <1>5

(* The first frame is handled and gone.                                    *)
LEMMA AcceptKeepsInv ==
  ASSUME TransportInv, NEW e \in End, wire[e] # << >>, NEW s \in Session, Accept(e, s),
         Took(e), UNCHANGED <<mode, mispinned, sent, flooded, late>>,
         s.state = session[e].state, s.queue = session[e].queue,
         s.sendCounter = session[e].sendCounter,
         \/ /\ Head(wire[e]).type = "ENC" /\ session[e].state = "encrypted" /\ ~ flooded[e]
            /\ s.recvCounter = session[e].recvCounter + 1
         \/ /\ Head(wire[e]).type = "PLAIN" /\ mode[e] # "required" /\ s = session[e]
  PROVE  TransportInv'
<1> DEFINE p == Peer(e)
           g == Tail(wire[e])
<1>1. /\ p \in End /\ p # e /\ Peer(p) = e /\ End = {e, p}
      /\ session[e] \in Session /\ session[p] \in Session
      /\ wire[e] \in Seq(Frame) /\ session[p].sendCounter \in Nat /\ session[e].recvCounter \in Nat
  BY Both
<1>2. /\ EndInv(e) /\ EndInv(p) /\ WireInv(e) /\ WireInv(p)
      /\ InStep(e) /\ InStep(p) /\ Patient(e) /\ Patient(p)
  BY Both
<1>3. /\ UNCHANGED <<score, closed>> /\ ~ closed
      /\ session[p].state # "none" /\ Head(wire[e]) \in Frame
      /\ Head(wire[e]).type = "PLAIN" => session[p].state = "plain"
      /\ Head(wire[e]).type = "ENC" => session[p].state = "encrypted"
  BY FirstFrame DEF Accept
<1>4. HandshakeFirst(wire[e]) /\ NumberedTo(wire[e], session[p].sendCounter)
  BY <1>2 DEF WireInv
<1>5. /\ g \in Seq(Frame) /\ HandshakeFirst(g) /\ NumberedTo(g, session[p].sendCounter)
      /\ Len(wire[e]) \in Nat \ {0} /\ Len(g) = Len(wire[e]) - 1
      /\ No(g, "HANDSHAKE") /\ ~ Greets(g) /\ \A type : No(wire[e], type) => No(g, type)
  BY <1>1, <1>4, TailFrame
<1> HIDE DEF g
<1>6. /\ wire' = [wire EXCEPT ![e] = g] /\ wire'[e] = g /\ wire'[p] = wire[p]
      /\ session' = [session EXCEPT ![e] = s] /\ session'[e] = s /\ session'[p] = session[p]
      /\ handled'[p] = handled[p]
  BY <1>1 DEF Accept, TransportInv, Types, g
<1>7. Types'
  <2>1. handled' \in [End -> Seq(Nat)]
    <3>1. Append(handled[e], Head(wire[e]).message) \in Seq(Nat)
      BY <1>3 DEF TransportInv, Types, Frame
    <3> QED
      BY <3>1 DEF Accept, TransportInv, Types
  <2> QED
    BY <1>3, <1>5, <1>6, <2>1, TakenToken DEF TransportInv, Types
<1>8. EndInv(e)' /\ EndInv(p)'
  BY <1>1, <1>2, <1>3, <1>6 DEF EndInv
<1>9. WireInv(e)' /\ WireInv(p)'
  BY <1>1, <1>2, <1>3, <1>5, <1>6 DEF WireInv
<1>10. InStep(e)'
  <2>1. CASE Head(wire[e]).type = "ENC" /\ session[e].state = "encrypted"
             /\ s.recvCounter = session[e].recvCounter + 1 /\ ~ flooded[e]
    <3>1. session[p].sendCounter = session[e].recvCounter + Len(wire[e])
      BY <1>1, <1>2, <1>3, <2>1 DEF InStep
    <3>2. \A i, j, n \in Nat : i = j + n => i = (j + 1) + (n - 1)
      OBVIOUS
    <3>3. session[p].sendCounter = (session[e].recvCounter + 1) + (Len(wire[e]) - 1)
      BY <1>1, <1>5, <3>1, <3>2
    <3>4. session[p].sendCounter = s.recvCounter + Len(g)
      BY <1>5, <2>1, <3>3
    <3> QED
      BY <1>6, <2>1, <3>4 DEF InStep
  <2>2. CASE Head(wire[e]).type = "PLAIN" /\ mode[e] # "required" /\ s = session[e]
    BY <1>1, <1>2, <1>3, <1>6, <2>2 DEF InStep, Greets
  <2> QED
    BY <2>1, <2>2
<1>11. InStep(p)'
  BY <1>1, <1>2, <1>3, <1>6 DEF InStep, EndInv
<1>12. Patient(e)'
  <2>1. ~ Unheard(e)' /\ (Impaired' <=> Impaired)
    BY <1>1, <1>3, <1>5, <1>6 DEF Unheard, Impaired
  <2>2. ASSUME ~ Impaired
        PROVE  MESSAGE_BURST <= tokens'[e] + Len(handled'[e]) + 1
    <3>1. MESSAGE_BURST <= tokens[e] + Len(handled[e]) + 1 /\ tokens[e] <= tokens'[e] + 1
          /\ tokens[e] \in Nat /\ tokens'[e] \in Nat
      BY <1>2, <2>2, TakenToken DEF Patient
    <3>2. Len(handled'[e]) = Len(handled[e]) + 1 /\ Len(handled[e]) \in Nat
      <4>1. handled[e] \in Seq(Nat) /\ Head(wire[e]).message \in Nat
        BY <1>3 DEF TransportInv, Types, Frame
      <4>2. handled'[e] = Append(handled[e], Head(wire[e]).message)
        BY DEF Accept, TransportInv, Types
      <4> QED
        BY <4>1, <4>2
    <3> QED
      BY <3>1, <3>2, TransportConstants
  <2> QED
    BY <1>2, <1>3, <2>1, <2>2 DEF Patient
<1>13. Patient(p)'
  <2>1. tokens'[p] = tokens[p] /\ (Impaired' <=> Impaired)
    BY <1>1, TakenToken DEF Impaired
  <2> QED
    BY <1>1, <1>2, <1>3, <1>6, <2>1 DEF Patient, Unheard
<1> QED
  BY <1>1, <1>7, <1>8, <1>9, <1>10, <1>11, <1>12, <1>13 DEF TransportInv

(* What the session is at the end of a handshake.                          *)
LEMMA AgreedSession ==
  ASSUME NEW s \in Session, NEW n \in Nat
  PROVE  LET r == [s EXCEPT !.state = "encrypted", !.queue = << >>, !.sendCounter = n]
         IN  /\ r \in Session /\ r.state = "encrypted" /\ r.queue = << >> /\ r.sendCounter = n
             /\ r.recvCounter = s.recvCounter /\ r.sawEncrypted = s.sawEncrypted
<1>1. << >> \in Seq(Nat) /\ "encrypted" \in State
  BY DEF State
<1> QED
  BY <1>1 DEF Session

(* The keys are agreed: what was queued goes out sealed.                   *)
LEMMA AgreeKeepsInv ==
  ASSUME TransportInv, NEW e \in End, wire[e] # << >>, Head(wire[e]).type = "HANDSHAKE",
         session[e].state = "handshaking", Took(e),
         UNCHANGED <<mode, mispinned, sent, flooded, late, handled, score, closed>>,
         session' = [session EXCEPT ![e] =
           [session[e] EXCEPT !.state = "encrypted", !.queue = << >>,
              !.sendCounter = @ + Len(SealedAll(session[e].sendCounter, session[e].queue))]],
         wire' = [wire EXCEPT ![e] = Tail(@),
                    ![Peer(e)] = @ \o SealedAll(session[e].sendCounter, session[e].queue)]
  PROVE  TransportInv'
<1> DEFINE p == Peer(e)
           f == Tail(wire[e])
           q == session[e].queue
           g == wire[p] \o SealedAll(0, q)
<1>1. /\ p \in End /\ p # e /\ Peer(p) = e /\ End = {e, p}
      /\ session[e] \in Session /\ session[p] \in Session /\ q \in Seq(Nat)
      /\ wire[e] \in Seq(Frame) /\ wire[p] \in Seq(Frame)
      /\ session[p].sendCounter \in Nat
  BY Both
<1>2. /\ EndInv(e) /\ EndInv(p) /\ WireInv(e) /\ WireInv(p)
      /\ InStep(e) /\ InStep(p) /\ Patient(e) /\ Patient(p)
  BY Both
<1>3. /\ ~ closed /\ session[p].state # "none" /\ mode[p] # "off"
      /\ session[e].sendCounter = 0 /\ session[e].recvCounter = 0 /\ session[p].recvCounter = 0
      /\ mode[e] # "off" /\ ~ session[e].sawEncrypted /\ ~ flooded[p] /\ ~ flooded[e]
  BY <1>1, <1>2, FirstFrame DEF EndInv, Patient, Unheard, Greets
<1>4. HandshakeFirst(wire[e]) /\ NumberedTo(wire[e], session[p].sendCounter)
  BY <1>2 DEF WireInv
<1>5. /\ f \in Seq(Frame) /\ HandshakeFirst(f) /\ NumberedTo(f, session[p].sendCounter)
      /\ Len(wire[e]) \in Nat \ {0} /\ Len(f) = Len(wire[e]) - 1
      /\ No(f, "HANDSHAKE") /\ ~ Greets(f) /\ \A type : No(wire[e], type) => No(f, type)
  BY <1>1, <1>4, TailFrame
<1>6. HandshakeFirst(wire[p]) /\ No(wire[p], "PLAIN") /\ No(wire[p], "ENC")
  BY <1>1, <1>2 DEF WireInv
<1>7. /\ Len(SealedAll(0, q)) = Len(q) /\ Len(q) \in Nat
      /\ g \in Seq(Frame) /\ HandshakeFirst(g) /\ NumberedTo(g, Len(q)) /\ No(g, "PLAIN")
      /\ No(wire[p], "HANDSHAKE") => No(g, "HANDSHAKE") /\ Len(g) = Len(q)
      /\ Greets(wire[p]) => Len(g) = Len(q) + 1
      /\ Greets(g) <=> Greets(wire[p])
  BY <1>1, <1>6, SealedFrames
<1> HIDE DEF f, g
<1>8. /\ wire' = [wire EXCEPT ![e] = f, ![p] = g] /\ wire'[e] = f /\ wire'[p] = g
      /\ session'[p] = session[p]
      /\ session'[e] = [session[e] EXCEPT !.state = "encrypted", !.queue = << >>, !.sendCounter = Len(q)]
      /\ session' = [session EXCEPT ![e] = session'[e]]
  <2>1. /\ wire' = [wire EXCEPT ![e] = f, ![p] = g]
        /\ session' = [session EXCEPT ![e] =
             [session[e] EXCEPT !.state = "encrypted", !.queue = << >>, !.sendCounter = @ + Len(SealedAll(0, q))]]
    BY <1>3 DEF f, g
  <2>2. session[e].sendCounter + Len(SealedAll(0, q)) = Len(q)
    BY <1>3, <1>7
  <2>3. wire'[e] = f /\ wire'[p] = g
    BY <1>1, <2>1 DEF TransportInv, Types
  <2>4. session' = [session EXCEPT ![e] =
          [session[e] EXCEPT !.state = "encrypted", !.queue = << >>, !.sendCounter = Len(q)]]
    BY <2>1, <2>2
  <2> QED
    BY <1>1, <2>1, <2>3, <2>4 DEF TransportInv, Types
<1>9. /\ session'[e] \in Session /\ session'[e].state = "encrypted" /\ session'[e].queue = << >>
      /\ session'[e].sendCounter = Len(q) /\ session'[e].recvCounter = 0
      /\ ~ session'[e].sawEncrypted
  <2>1. session[e] \in Session /\ Len(q) \in Nat
    BY <1>1, <1>7
  <2>2. LET r == [session[e] EXCEPT !.state = "encrypted", !.queue = << >>, !.sendCounter = Len(q)]
        IN  /\ r \in Session /\ r.state = "encrypted" /\ r.queue = << >> /\ r.sendCounter = Len(q)
            /\ r.recvCounter = session[e].recvCounter /\ r.sawEncrypted = session[e].sawEncrypted
    BY <2>1, AgreedSession
  <2> QED
    BY <1>3, <1>8, <2>2, Zenon
<1>10. Types'
  <2>1. session' \in [End -> Session]
    BY <1>8, <1>9 DEF TransportInv, Types
  <2>2. wire' \in [End -> Seq(Frame)]
    BY <1>5, <1>7, <1>8 DEF TransportInv, Types
  <2> QED
    BY <2>1, <2>2, TakenToken DEF TransportInv, Types
<1>11. EndInv(e)' /\ EndInv(p)'
  BY <1>1, <1>2, <1>3, <1>8, <1>9 DEF EndInv
<1>12. WireInv(e)' /\ WireInv(p)'
  BY <1>1, <1>2, <1>3, <1>5, <1>7, <1>8, <1>9 DEF WireInv
<1>13. InStep(e)'
  <2>1. session[p].state = "encrypted" => session[p].sendCounter = Len(f)
    BY <1>1, <1>2, <1>3, <1>5 DEF InStep
  <2>2. \A n \in Nat : n = 0 + n
    OBVIOUS
  <2> QED
    BY <1>1, <1>3, <1>8, <1>9, <2>1, <2>2 DEF InStep
<1>14. InStep(p)'
  <2>1. session[p].state \in {"none", "handshaking"} => Greets(g) /\ Len(g) = Len(q) + 1
    BY <1>1, <1>2, <1>3, <1>7 DEF InStep
  <2>2. session[p].state = "encrypted" => Len(g) = Len(q)
    BY <1>1, <1>2, <1>7 DEF WireInv
  <2>3. \A n \in Nat : n = 0 + n /\ n = (n + 1) - 1
    OBVIOUS
  <2>4. session[p].state \in {"none", "handshaking"} => Greets(g) /\ Len(q) = Len(g) - 1
    BY <1>7, <2>1, <2>3
  <2>5. session[p].state = "encrypted" => Len(q) = session[p].recvCounter + Len(g)
    BY <1>3, <1>7, <2>2, <2>3
  <2> HIDE DEF q
  <2>6. flooded'[p] = FALSE /\ mode' = mode
    BY <1>1, <1>3 DEF TransportInv, Types
  <2>7. session'[p].state \in {"none", "handshaking"} =>
          Greets(wire'[p]) /\ session'[e].sendCounter = Len(wire'[p]) - 1
    BY <1>8, <1>9, <2>4
  <2>8. session'[p].state = "encrypted" => session'[e].sendCounter = session'[p].recvCounter + Len(wire'[p])
    BY <1>8, <1>9, <2>5
  <2> QED
    BY <1>1, <2>6, <2>7, <2>8 DEF InStep
<1>15. Impaired' <=> Impaired
  BY DEF Impaired
<1>16. Patient(e)'
  <2>1. ~ Unheard(e)' /\ Unheard(e)
    BY <1>1, <1>3, <1>5, <1>8 DEF Unheard, Greets
  <2>2. MESSAGE_BURST <= tokens'[e] + Len(handled[e]) + 1
    <3>1. MESSAGE_BURST <= tokens'[e] + 1 /\ tokens'[e] \in Nat /\ Len(handled[e]) \in Nat
      BY <1>2, <2>1, TakenToken DEF Patient, TransportInv, Types
    <3> QED
      BY <3>1, TransportConstants
  <2> QED
    BY <1>2, <1>15, <2>1, <2>2 DEF Patient
<1>17. Patient(p)'
  <2>1. tokens'[p] = tokens[p]
    BY <1>1, TakenToken
  <2>2. Unheard(p)' => Unheard(p)
    BY <1>1, <1>7, <1>8, <1>9 DEF Unheard
  <2> QED
    BY <1>2, <1>15, <2>1, <2>2 DEF Patient
<1> QED
  BY <1>1, <1>10, <1>11, <1>12, <1>13, <1>14, <1>16, <1>17 DEF TransportInv

(* A plain end gets sealed frames only between nodes that do not agree.    *)
LEMMA EncryptedToPlain ==
  ASSUME TransportInv, NEW e \in End, session[e].state = "plain", session[Peer(e)].state = "encrypted"
  PROVE  Impaired
<1>1. /\ Peer(e) \in End /\ Peer(Peer(e)) = e /\ End = {e, Peer(e)}
      /\ EndInv(e) /\ EndInv(Peer(e))
  BY Both
<1> QED
  BY <1>1 DEF EndInv, Impaired

(* And so does an end that demands encryption, or has seen a sealed frame, *)
(* get plaintext.                                                          *)
LEMMA PlainToRequired ==
  ASSUME TransportInv, NEW e \in End, session[Peer(e)].state = "plain",
         mode[e] = "required" \/ session[e].sawEncrypted
  PROVE  Impaired
<1>1. /\ Peer(e) \in End /\ Peer(Peer(e)) = e /\ End = {e, Peer(e)}
      /\ EndInv(e) /\ EndInv(Peer(e))
  BY Both
<1> QED
  BY <1>1 DEF EndInv, Impaired

(* A frame comes.                                                          *)
LEMMA ReceiveKeepsInv ==
  ASSUME TransportInv, NEW e \in End, Receive(e)
  PROVE  TransportInv'
<1> DEFINE p == Peer(e)
           type == Head(wire[e]).type
<1>1. /\ wire[e] # << >> /\ session[e].state # "none" /\ UNCHANGED <<mode, mispinned, sent, flooded, late>>
      /\ Took(e)
      /\ \/ type = "HANDSHAKE" /\ ReceiveHandshake(e)
         \/ type = "ENC" /\ ReceiveSealed(e)
         \/ type = "PLAIN" /\ ReceivePlain(e)
  BY DEF Receive, Took
<1>2. /\ session[e] \in Session /\ session[p].state # "none"
      /\ session[e].recvCounter \in Nat
      /\ type = "HANDSHAKE" => session[e].state # "encrypted"
      /\ type = "PLAIN" => session[p].state = "plain"
      /\ type = "ENC" =>
           /\ session[p].state = "encrypted" /\ session[e].state \in {"plain", "encrypted"}
           /\ session[e].state = "encrypted" =>
                IF flooded[e] THEN session[e].recvCounter < Head(wire[e]).n
                              ELSE Head(wire[e]).n = session[e].recvCounter
  BY <1>1, Both, FirstFrame
<1>0. ASSUME NEW s \in Session, Reject(e, s),
             s.state = session[e].state, s.queue = session[e].queue,
             s.sendCounter = session[e].sendCounter, s.recvCounter = session[e].recvCounter,
             \/ /\ s = session[e]
                /\ session[e].state \in {"none", "handshaking"} => type # "HANDSHAKE"
                /\ type = "HANDSHAKE" \/ Impaired
                /\ ~ (session[e].state = "encrypted" /\ session[p].state = "encrypted")
             \/ session[e].state = "encrypted" /\ session[p].state = "encrypted" /\ flooded[e]
      PROVE  TransportInv'
  <2>1. Misbehaving(e, MALFORMED, s) /\ MALFORMED \in Nat /\ p \in End /\ p # e
    BY <1>0, Both, TransportConstants DEF Reject
  <2>2. flooded' = flooded /\ flooded \in [End -> BOOLEAN] /\ (Impaired' <=> Impaired)
    BY <1>1, <2>1 DEF TransportInv, Types, Misbehaving, Impaired
  <2>3. /\ tokens' \in [End -> 0..MESSAGE_BURST] /\ tokens'[p] = tokens[p]
        /\ tokens[e] <= tokens'[e] + 1
    BY <1>1, <2>1, TakenToken
  <2>4. flooded[e] => Impaired
    BY DEF Impaired
  <2>5. Impaired' \/ (type = "HANDSHAKE" /\ tokens[e] <= tokens'[e] + 1)
    BY <1>0, <2>2, <2>3, <2>4
  <2>6. CASE s = session[e] /\ ~ (session[e].state = "encrypted" /\ session[p].state = "encrypted")
              /\ (session[e].state \in {"none", "handshaking"} => type # "HANDSHAKE")
    BY <1>0, <1>1, <2>1, <2>2, <2>3, <2>5, <2>6, MisbehavingKeepsInv
  <2>7. CASE session[e].state = "encrypted" /\ session[p].state = "encrypted" /\ flooded[e]
    BY <1>0, <1>1, <2>1, <2>2, <2>3, <2>5, <2>7, MisbehavingKeepsInv
  <2> QED
    BY <1>0, <2>6, <2>7
<1>3. CASE type = "HANDSHAKE" /\ ReceiveHandshake(e)
  <2>1. CASE session[e].state # "handshaking" /\ Reject(e, session[e])
    BY <1>0, <1>1, <1>2, <1>3, <2>1
  <2>2. CASE session[e].state = "handshaking" /\ e = A /\ mispinned /\ HangUp /\ UNCHANGED <<handled, score>>
    <3>1. /\ late' \in BOOLEAN /\ (late => late') /\ score' \in [End -> Nat]
          /\ flooded' = flooded /\ flooded \in [End -> BOOLEAN]
      BY <1>1, <2>2 DEF TransportInv, Types
    <3>2. Impaired'
      BY <1>1, <1>2, <1>3, <2>2, FirstFrame, Both, Ends DEF EndInv, Impaired, End
    <3>3. ASSUME NEW x \in End PROVE tokens'[x] # tokens[x] => session[Peer(x)].state # "none"
      BY <1>1, <1>2, TakenToken
    <3> QED
      BY <1>1, <2>2, <3>1, <3>2, <3>3, TakenToken, HangUpKeepsInv
  <2>3. CASE /\ session[e].state = "handshaking" /\ UNCHANGED <<handled, score, closed>>
             /\ session' = [session EXCEPT ![e] =
                  [session[e] EXCEPT !.state = "encrypted", !.queue = << >>,
                     !.sendCounter = @ + Len(SealedAll(session[e].sendCounter, session[e].queue))]]
             /\ wire' = [wire EXCEPT ![e] = Tail(@),
                          ![Peer(e)] = @ \o SealedAll(session[e].sendCounter, session[e].queue)]
    BY <1>1, <1>3, <2>3, AgreeKeepsInv
  <2> QED
    BY <1>3, <2>1, <2>2, <2>3 DEF ReceiveHandshake
<1>4. CASE type = "ENC" /\ ReceiveSealed(e)
  <2> DEFINE s == [session[e] EXCEPT !.sawEncrypted = session[e].state = "encrypted"]
             r == [s EXCEPT !.recvCounter = @ + 1]
  <2>1. /\ s \in Session /\ s.state = session[e].state /\ s.queue = session[e].queue
        /\ s.sendCounter = session[e].sendCounter /\ s.recvCounter = session[e].recvCounter
        /\ s.sawEncrypted = (session[e].state = "encrypted")
    BY <1>2 DEF Session
  <2>2. CASE session[e].state = "encrypted" /\ ~ flooded[e]
    <3>1. r \in Session /\ r.state = session[e].state /\ r.queue = session[e].queue
          /\ r.sendCounter = session[e].sendCounter /\ r.recvCounter = session[e].recvCounter + 1
      <4>1. s.recvCounter + 1 \in Nat
        BY <1>2, <2>1
      <4> HIDE DEF s
      <4> QED
        BY <2>1, <4>1 DEF Session
    <3>2. Accept(e, r)
      BY <1>2, <1>4, <2>1, <2>2 DEF ReceiveSealed
    <3> HIDE DEF r
    <3> QED
      BY <1>1, <1>4, <2>2, <3>1, <3>2, AcceptKeepsInv
  <2>3. CASE session[e].state # "encrypted"
    <3>1. session[e].sawEncrypted = FALSE
      BY <2>3, Both DEF EndInv, Session
    <3>2. s = session[e]
      BY <1>2, <2>3, <3>1 DEF Session
    <3>3. Reject(e, s)
      BY <1>4, <2>1, <2>3 DEF ReceiveSealed
    <3> HIDE DEF s
    <3>4. Impaired
      BY <1>2, <1>4, <2>3, EncryptedToPlain
    <3> QED
      BY <1>0, <1>4, <2>1, <2>3, <3>2, <3>3, <3>4
  <2>4. CASE session[e].state = "encrypted" /\ flooded[e]
    <3>1. Reject(e, s)
      BY <1>2, <1>4, <2>1, <2>4 DEF ReceiveSealed
    <3> HIDE DEF s
    <3> QED
      BY <1>0, <1>2, <1>4, <2>1, <2>4, <3>1
  <2> QED
    BY <2>2, <2>3, <2>4
<1>5. CASE type = "PLAIN" /\ ReceivePlain(e)
  <2>1. CASE (mode[e] = "required" \/ session[e].sawEncrypted) /\ Reject(e, session[e])
    <3>1. Impaired
      BY <1>2, <1>5, <2>1, PlainToRequired
    <3> QED
      BY <1>0, <1>2, <1>5, <2>1, <3>1
  <2>2. CASE mode[e] # "required" /\ Accept(e, session[e])
    BY <1>1, <1>2, <1>5, <2>2, AcceptKeepsInv
  <2> QED
    BY <1>5, <2>1, <2>2 DEF ReceivePlain
<1> QED
  BY <1>1, <1>3, <1>4, <1>5

(* A frame over the rate comes: not the first of a connection.             *)
LEMMA DiscardKeepsInv ==
  ASSUME TransportInv, NEW e \in End, Discard(e)
  PROVE  TransportInv'
<1> DEFINE p == Peer(e)
<1>1. /\ p \in End /\ p # e /\ session[e] \in Session /\ wire[e] # << >>
      /\ WireInv(e) /\ Patient(e)
      /\ Head(wire[e]) \in Frame /\ UNCHANGED <<mode, mispinned, sent, tokens, late>>
      /\ flooded' = [flooded EXCEPT ![e] = TRUE] /\ tokens[e] = 0
      /\ Misbehaving(e, FLOOD, session[e]) /\ FLOOD \in Nat
  BY Both, FirstFrame, TransportConstants DEF Discard
<1>2. ~ Unheard(e)
  BY <1>1, TransportConstants DEF Patient
<1>3. Head(wire[e]).type # "HANDSHAKE" /\ session[p].state # "none"
  BY <1>1, <1>2 DEF Unheard, Greets
<1>4. session[p].state # "handshaking"
  <2>1. /\ HandshakeFirst(wire[e]) /\ NumberedTo(wire[e], session[p].sendCounter)
        /\ wire[e] \in Seq(Frame) /\ session[p].sendCounter \in Nat
    BY Both DEF WireInv
  <2>2. ~ No(wire[e], Head(wire[e]).type)
    BY <1>1, <2>1, TailFrame
  <2> QED
    BY <1>1, <1>3, <2>2 DEF WireInv, Frame
<1>5. /\ flooded' \in [End -> BOOLEAN] /\ flooded'[p] = flooded[p] /\ flooded'[e]
      /\ tokens' \in [End -> 0..MESSAGE_BURST] /\ tokens'[p] = tokens[p]
  BY <1>1 DEF TransportInv, Types
<1>6. Impaired'
  BY <1>5 DEF Impaired
<1> QED
  BY <1>1, <1>3, <1>4, <1>5, <1>6, MisbehavingKeepsInv

(* Every step keeps the invariant, and the invariant says what the         *)
(* properties do.                                                          *)
LEMMA NextKeepsInv ==
  ASSUME TransportInv, [TransportNext]_transportVars
  PROVE  TransportInv'
<1>1. ASSUME NEW e \in End, Start(e) PROVE TransportInv'
  BY <1>1, StartKeepsInv
<1>2. ASSUME NEW e \in End, Fallback(e) PROVE TransportInv'
  BY <1>2, FallbackKeepsInv
<1>3. ASSUME NEW e \in End, RequiredTimeout(e) PROVE TransportInv'
  BY <1>3, RequiredTimeoutKeepsInv
<1>4. ASSUME NEW e \in End, SendMessage(e) PROVE TransportInv'
  BY <1>4, SendMessageKeepsInv
<1>5. ASSUME NEW e \in End, Receive(e) PROVE TransportInv'
  BY <1>5, ReceiveKeepsInv
<1>6. ASSUME NEW e \in End, Discard(e) PROVE TransportInv'
  BY <1>6, DiscardKeepsInv
<1>7. CASE UNCHANGED transportVars
  BY <1>7 DEF transportVars, TransportInv, Types, EndInv, WireInv, InStep, Patient, Unheard, Impaired
<1> QED
  BY <1>1, <1>2, <1>3, <1>4, <1>5, <1>6, <1>7 DEF TransportNext

(* The invariant of the transport.                                         *)
THEOREM TransportInvariant == TransportSpec => []TransportInv
<1>1. TransportInit => TransportInv
  BY Initial
<1>2. TransportInv /\ [TransportNext]_transportVars => TransportInv'
  BY NextKeepsInv
<1> QED
  BY <1>1, <1>2, PTL DEF TransportSpec

(* FramesInStep: no number is skipped or used twice, and an end that has   *)
(* dropped a frame opens none of those that follow.                        *)
THEOREM FramesAlwaysInStep == TransportSpec => []FramesInStep
<1>1. TransportInv => FramesInStep
  <2> SUFFICES ASSUME TransportInv PROVE FramesInStep
    OBVIOUS
  <2>1. ASSUME NEW e \in End
        PROVE  /\ session[e].state \in {"none", "handshaking", "plain", "encrypted"}
               /\ session[e].queue # << >> => session[e].state = "handshaking"
               /\ mode[e] = "required" => session[e].state # "plain"
               /\ score[e] \in Nat /\ tokens[e] \in 0..MESSAGE_BURST
    BY Both DEF EndInv, State, TransportInv, Types
  <2>2. ASSUME NEW e \in End, session[e].state = "encrypted", ~ closed
        PROVE  LET first == session[Peer(e)].sendCounter - Cardinality(Carried(e, "ENC"))
               IN  /\ \A k \in Carried(e, "ENC") : wire[e][k].n = first + k - 1
                   /\ ~ flooded[e] => first = session[e].recvCounter
                   /\ flooded[e] /\ Carried(e, "ENC") # {} => session[e].recvCounter < first
    <3> DEFINE p == Peer(e)
               f == wire[e]
    <3>1. /\ f \in Seq(Frame) /\ session[p].sendCounter \in Nat /\ session[e].recvCounter \in Nat
          /\ EndInv(e) /\ EndInv(p) /\ WireInv(e) /\ InStep(e)
      BY Both
    <3>2. DOMAIN f = 1..Len(f) /\ Len(f) \in Nat /\ \A k \in 1..Len(f) : f[k] \in Frame
      BY <3>1, LenProperties
    <3>3. No(f, "HANDSHAKE")
      BY <2>2, <3>1 DEF WireInv
    <3>4. CASE session[p].state = "encrypted"
      <4>1. No(f, "PLAIN") /\ NumberedTo(f, session[p].sendCounter)
        BY <3>1, <3>4 DEF WireInv
      <4>2. \A k \in 1..Len(f) : f[k].type = "ENC"
        BY <3>2, <3>3, <4>1 DEF No, Frame
      <4>3. Carried(e, "ENC") = 1..Len(f)
        BY <3>2, <4>2 DEF Carried
      <4>4. Cardinality(1..Len(f)) = Len(f)
        <5>1. \A n \in Nat : Cardinality(1..n) = n
          <6>1. ASSUME NEW n \in Nat PROVE Cardinality(1..n) = n
            <7>1. Cardinality(1..n) = IF 1 > n THEN 0 ELSE n - 1 + 1
              BY FS_Interval
            <7> QED
              BY <7>1
          <6> QED
            BY <6>1
        <5> QED
          BY <3>2, <5>1
      <4>5. IF flooded[e] THEN session[e].recvCounter + Len(f) < session[p].sendCounter
                          ELSE session[p].sendCounter = session[e].recvCounter + Len(f)
        BY <2>2, <3>1, <3>4 DEF InStep
      <4>6. \A i, j, n \in Nat : (i = j + n => i - n = j) /\ (j + n < i => j < i - n)
        OBVIOUS
      <4>7. /\ ~ flooded[e] => session[p].sendCounter - Len(f) = session[e].recvCounter
            /\ flooded[e] => session[e].recvCounter < session[p].sendCounter - Len(f)
        BY <3>1, <3>2, <4>5, <4>6
      <4>8. \A k \in 1..Len(f) : f[k].n = session[p].sendCounter - Len(f) + k - 1
        BY <4>1, <4>2 DEF NumberedTo
      <4> QED
        BY <4>3, <4>4, <4>7, <4>8
    <3>5. CASE session[p].state # "encrypted"
      <4>1. Carried(e, "ENC") = {}
        BY <3>1, <3>2, <3>5 DEF WireInv, No, Carried
      <4>2. session[p].sendCounter = 0 /\ session[e].recvCounter = 0
        BY <3>1, <3>5 DEF EndInv
      <4>3. Cardinality({}) = 0
        BY FS_EmptySet
      <4> QED
        BY <4>1, <4>2, <4>3
    <3> QED
      BY <3>4, <3>5
  <2> QED
    BY <2>1, <2>2 DEF FramesInStep
<1> QED
  BY <1>1, TransportInvariant, PTL

(* PlainOnlyByAgreement: the frames of one kind come from an end in that   *)
(* state, and an end is in the plain state for a reason.                   *)
THEOREM PlainByAgreement == TransportSpec => []PlainOnlyByAgreement
<1>1. TransportInv => PlainOnlyByAgreement
  <2> SUFFICES ASSUME TransportInv, NEW e \in End, Carried(e, "PLAIN") # {}
               PROVE  /\ mode[Peer(e)] # "required"
                      /\ mode[e] = "off" \/ mode[Peer(e)] = "off" \/ late
    BY DEF PlainOnlyByAgreement
  <2>1. EndInv(Peer(e)) /\ WireInv(e) /\ wire[e] \in Seq(Frame) /\ Peer(Peer(e)) = e
    BY Both
  <2>2. ~ No(wire[e], "PLAIN")
    BY <2>1, LenProperties DEF Carried, No
  <2> QED
    BY <2>1, <2>2 DEF WireInv, EndInv
<1> QED
  BY <1>1, TransportInvariant, PTL

-----------------------------------------------------------------------------
(* The messages that frames carry.                                         *)
LEMMA MessagesType ==
  ASSUME NEW f \in Seq(Frame)
  PROVE  /\ Messages(f) \in Seq(Nat)
         /\ Messages(<< >>) = << >> /\ Messages(<<Handshake>>) = << >>
         /\ ~ Greets(f) => Len(Messages(f)) = Len(f)
                           /\ \A k \in 1..Len(f) : Messages(f)[k] = f[k].message
         /\ Greets(f) => Messages(f) = Messages(Tail(f)) \/ Greets(Tail(f))
<1>1. ASSUME NEW g \in Seq(Frame)
      PROVE  LET c == [k \in DOMAIN g |-> g[k].message]
             IN  c \in Seq(Nat) /\ Len(c) = Len(g) /\ \A k \in 1..Len(g) : c[k] = g[k].message
  <2>1. DOMAIN g = 1..Len(g) /\ Len(g) \in Nat /\ \A k \in 1..Len(g) : g[k] \in Frame
    BY LenProperties
  <2>2. \A k \in 1..Len(g) : g[k].message \in Nat
    BY <2>1 DEF Frame
  <2> QED
    BY <2>1, <2>2
<1>2. Greets(f) => Tail(f) \in Seq(Frame)
  BY DEF Greets
<1>3. Messages(f) \in Seq(Nat)
  BY <1>1, <1>2 DEF Messages, Greets
<1>4. Messages(<< >>) = << >>
  BY DEF Messages
<1>5. Messages(<<Handshake>>) = << >>
  BY DEF Messages, Handshake
<1>6. ~ Greets(f) => Messages(f) = [k \in DOMAIN f |-> f[k].message]
  BY DEF Messages, Greets
<1>7. ~ Greets(f) => Len(Messages(f)) = Len(f) /\ \A k \in 1..Len(f) : Messages(f)[k] = f[k].message
  BY <1>1, <1>6
<1>8. Greets(f) => Messages(f) = Messages(Tail(f)) \/ Greets(Tail(f))
  BY DEF Messages, Greets
<1> QED
  BY <1>3, <1>4, <1>5, <1>7, <1>8

(* What follows the first frame is what follows the first message.         *)
LEMMA MessagesOfTail ==
  ASSUME NEW f \in Seq(Frame), f # << >>, ~ Greets(f), ~ Greets(Tail(f))
  PROVE  Messages(f) # << >> /\ Head(Messages(f)) = Head(f).message /\ Tail(Messages(f)) = Messages(Tail(f))
<1> DEFINE m == Messages(f)
           t == Messages(Tail(f))
<1>1. /\ Tail(f) \in Seq(Frame) /\ Len(f) \in Nat \ {0} /\ Len(Tail(f)) = Len(f) - 1
      /\ Head(f) = f[1] /\ 1 \in 1..Len(f)
      /\ \A k \in 1..Len(Tail(f)) : Tail(f)[k] = f[k + 1]
  BY HeadTailProperties, EmptySeq
<1>2. /\ m \in Seq(Nat) /\ Len(m) = Len(f) /\ \A k \in 1..Len(f) : m[k] = f[k].message
      /\ t \in Seq(Nat) /\ Len(t) = Len(Tail(f)) /\ \A k \in 1..Len(Tail(f)) : t[k] = Tail(f)[k].message
  BY <1>1, MessagesType
<1> HIDE DEF m, t
<1>3. m # << >>
  BY <1>1, <1>2, EmptySeq
<1>4. Tail(m) \in Seq(Nat) /\ Len(Tail(m)) = Len(m) - 1 /\ Head(m) = m[1]
      /\ \A k \in 1..Len(Tail(m)) : Tail(m)[k] = m[k + 1]
  BY <1>2, <1>3, HeadTailProperties
<1>5. ASSUME NEW k \in 1..Len(Tail(m)) PROVE Tail(m)[k] = t[k]
  <2>1. k \in 1..Len(Tail(f)) /\ k + 1 \in 1..Len(f)
    BY <1>1, <1>2, <1>4
  <2> QED
    BY <1>1, <1>2, <1>4, <2>1
<1>6. Tail(m) = t
  BY <1>1, <1>2, <1>4, <1>5, SeqEqual
<1> QED
  BY <1>1, <1>2, <1>3, <1>4, <1>6 DEF m, t

(* Frames that carry the messages ms after others.                         *)
Carry(h, ms) ==
  Len(h) = Len(ms) /\ \A k \in 1..Len(ms) : h[k].type # "HANDSHAKE" /\ h[k].message = ms[k]

(* The messages of frames followed by frames that carry more.              *)
LEMMA MessagesOfConcat ==
  ASSUME NEW f \in Seq(Frame), NEW h \in Seq(Frame), NEW ms \in Seq(Nat), Carry(h, ms),
         f # << >> => ~ Greets(Tail(f))
  PROVE  Messages(f \o h) = Messages(f) \o ms
<1>1. ASSUME NEW g \in Seq(Frame), ~ Greets(g)
      PROVE  ~ Greets(g \o h) /\ Messages(g \o h) = Messages(g) \o ms
  <2> DEFINE gh == g \o h
             c == Messages(g)
  <2>1. /\ gh \in Seq(Frame) /\ Len(gh) = Len(g) + Len(ms) /\ Len(g) \in Nat /\ Len(ms) \in Nat
        /\ \A k \in 1..Len(gh) : gh[k] = IF k <= Len(g) THEN g[k] ELSE h[k - Len(g)]
    <3>1. /\ gh \in Seq(Frame) /\ Len(gh) = Len(g) + Len(h) /\ Len(g) \in Nat
          /\ \A k \in 1..Len(gh) : gh[k] = IF k <= Len(g) THEN g[k] ELSE h[k - Len(g)]
      BY Concatenation
    <3> HIDE DEF gh
    <3> QED
      BY <3>1, LenProperties DEF Carry
  <2>2. c \in Seq(Nat) /\ Len(c) = Len(g) /\ \A k \in 1..Len(g) : c[k] = g[k].message
    BY <1>1, MessagesType
  <2> HIDE DEF gh, c
  <2>3. ~ Greets(gh)
    <3>1. gh # << >> => Head(gh) = gh[1] /\ 1 \in 1..Len(gh)
      BY <2>1, HeadTailProperties, EmptySeq
    <3>2. g # << >> => Head(g) = g[1] /\ Len(g) \in Nat \ {0}
      BY HeadTailProperties, EmptySeq
    <3>3. CASE g = << >>
      <4>1. Len(g) = 0
        BY <3>3, EmptySeq
      <4>2. gh # << >> => gh[1] = h[1] /\ 1 \in 1..Len(ms)
        <5>1. \A n \in Nat : ~ (1 <= 0) /\ 1 - 0 = 1 /\ 0 + n = n
          OBVIOUS
        <5> QED
          BY <2>1, <3>1, <4>1, <5>1
      <4> QED
        BY <3>1, <4>2 DEF Greets, Carry
    <3>4. CASE g # << >>
      <4>1. gh # << >> => gh[1] = g[1]
        BY <2>1, <3>1, <3>2, <3>4
      <4> QED
        BY <1>1, <3>1, <3>2, <3>4, <4>1 DEF Greets
    <3> QED
      BY <3>3, <3>4
  <2>4. Messages(gh) \in Seq(Nat) /\ Len(Messages(gh)) = Len(gh)
        /\ \A k \in 1..Len(gh) : Messages(gh)[k] = gh[k].message
    BY <2>1, <2>3, MessagesType
  <2>5. /\ c \o ms \in Seq(Nat) /\ Len(c \o ms) = Len(gh)
        /\ \A k \in 1..Len(gh) : (c \o ms)[k] = IF k <= Len(g) THEN c[k] ELSE ms[k - Len(g)]
    <3>1. /\ c \o ms \in Seq(Nat) /\ Len(c \o ms) = Len(c) + Len(ms)
          /\ \A k \in 1..Len(c \o ms) : (c \o ms)[k] = IF k <= Len(c) THEN c[k] ELSE ms[k - Len(c)]
      BY <2>2, Concatenation
    <3> QED
      BY <2>1, <2>2, <3>1
  <2>6. ASSUME NEW k \in 1..Len(gh)
        PROVE  Messages(gh)[k] = (c \o ms)[k]
    <3>1. CASE k <= Len(g)
      <4>1. k \in 1..Len(g)
        BY <2>1, <3>1
      <4> QED
        BY <2>1, <2>2, <2>4, <2>5, <3>1, <4>1
    <3>2. CASE ~ (k <= Len(g))
      <4>1. k - Len(g) \in 1..Len(ms)
        BY <2>1, <3>2
      <4> QED
        BY <2>1, <2>4, <2>5, <3>2, <4>1 DEF Carry
    <3> QED
      BY <3>1, <3>2
  <2>7. Messages(gh) = c \o ms
    <3>1. Messages(gh) \in Seq(Nat) /\ c \o ms \in Seq(Nat) /\ Len(Messages(gh)) = Len(c \o ms)
          /\ \A k \in 1..Len(Messages(gh)) : Messages(gh)[k] = (c \o ms)[k]
      BY <2>4, <2>5, <2>6
    <3> QED
      BY <3>1, SeqEqual, Zenon
  <2> QED
    BY <2>3, <2>7 DEF gh, c
<1>2. CASE ~ Greets(f)
  BY <1>1, <1>2
<1>3. CASE Greets(f)
  <2> DEFINE g == Tail(f)
  <2>1. /\ f # << >> /\ ~ Greets(g) /\ g \in Seq(Frame) /\ Len(f) \in Nat \ {0} /\ Len(g) = Len(f) - 1
        /\ Head(f) = f[1] /\ \A k \in 1..Len(g) : g[k] = f[k + 1]
    BY <1>3, HeadTailProperties, EmptySeq DEF Greets
  <2>2. /\ f \o h \in Seq(Frame) /\ f \o h # << >>
        /\ Head(f \o h) = Head(f) /\ Tail(f \o h) = g \o h
    BY <2>1, HeadTailConcat, ConcatProperties
  <2>3. Messages(f) = [k \in DOMAIN g |-> g[k].message] /\ Messages(g) = [k \in DOMAIN g |-> g[k].message]
    BY <1>3, <2>1 DEF Messages, Greets
  <2>4. ~ Greets(g \o h) /\ Messages(g \o h) = Messages(g) \o ms
    BY <1>1, <2>1
  <2>5. Messages(f \o h) = [k \in DOMAIN (g \o h) |-> (g \o h)[k].message]
        /\ Messages(g \o h) = [k \in DOMAIN (g \o h) |-> (g \o h)[k].message]
    BY <1>3, <2>2, <2>4 DEF Messages, Greets
  <2> QED
    BY <2>3, <2>4, <2>5
<1> QED
  BY <1>2, <1>3

(* A queue sealed frame by frame carries its messages.                     *)
LEMMA QueueCarried ==
  ASSUME NEW ms \in Seq(Nat), NEW n \in Nat
  PROVE  /\ PlainAll(ms) \in Seq(Frame) /\ Carry(PlainAll(ms), ms)
         /\ SealedAll(n, ms) \in Seq(Frame) /\ Carry(SealedAll(n, ms), ms)
<1>1. DOMAIN ms = 1..Len(ms) /\ Len(ms) \in Nat /\ \A k \in 1..Len(ms) : ms[k] \in Nat
  BY LenProperties
<1>2. \A k \in 1..Len(ms) : /\ Plain(ms[k]) \in Frame /\ Plain(ms[k]).type # "HANDSHAKE"
                            /\ Plain(ms[k]).message = ms[k]
  BY <1>1 DEF Plain, Frame
<1>3. \A k \in 1..Len(ms) : LET x == Sealed(n + k - 1, ms[k])
                             IN  x \in Frame /\ x.type # "HANDSHAKE" /\ x.message = ms[k]
  BY <1>1 DEF Sealed, Frame
<1>4. PlainAll(ms) \in Seq(Frame) /\ Carry(PlainAll(ms), ms)
  BY <1>1, <1>2 DEF PlainAll, Carry
<1>5. SealedAll(n, ms) \in Seq(Frame) /\ Carry(SealedAll(n, ms), ms)
  BY <1>1, <1>3 DEF SealedAll, Carry
<1> QED
  BY <1>4, <1>5

(* A frame with a message adds that message.                               *)
LEMMA MessagesOfAppend ==
  ASSUME NEW f \in Seq(Frame), NEW x \in Frame, x.type # "HANDSHAKE", f # << >> => ~ Greets(Tail(f))
  PROVE  Messages(Append(f, x)) = Append(Messages(f), x.message)
<1>1. <<x>> \in Seq(Frame) /\ <<x.message>> \in Seq(Nat) /\ x.message \in Nat /\ Carry(<<x>>, <<x.message>>)
  BY DEF Frame, Carry
<1>2. Append(f, x) = f \o <<x>>
  BY AppendIsConcat
<1>3. Messages(f) \in Seq(Nat)
  BY MessagesType
<1>4. Append(Messages(f), x.message) = Messages(f) \o <<x.message>>
  BY <1>1, <1>3, AppendIsConcat
<1>5. Messages(f \o <<x>>) = Messages(f) \o <<x.message>>
  BY <1>1, MessagesOfConcat
<1> QED
  BY <1>2, <1>4, <1>5

-----------------------------------------------------------------------------
(* The messages on their way to an end, in its mapping to a channel.       *)
PendingTo(e) == Messages(wire[e]) \o session[Peer(e)].queue

(* A step that leaves the mapping alone is a stutter of the channel.       *)
LEMMA AsStutter ==
  ASSUME \A x \in End : PendingTo(x)' = PendingTo(x), UNCHANGED <<handled, sent, closed>>,
         Impaired' <=> Impaired
  PROVE  UNCHANGED Abstract!channelVars
BY DEF Abstract!channelVars, PendingTo

(* A step after which the nodes do not agree any more impairs the channel. *)
LEMMA AsImpair ==
  ASSUME \A x \in End : PendingTo(x)' = PendingTo(x), UNCHANGED <<handled, sent, closed>>,
         Impaired', ~ Impaired
  PROVE  Abstract!Impair
BY DEF Abstract!Impair, PendingTo

(* A step that adds a message to the mapped sequence is a Send.            *)
LEMMA AsSend ==
  ASSUME NEW e \in End, sent[e] < MAX_MESSAGES, ~ closed, sent' = [sent EXCEPT ![e] = @ + 1],
         \A x \in End : PendingTo(x)' = IF x = e THEN Append(PendingTo(e), sent[e] + 1) ELSE PendingTo(x),
         UNCHANGED <<handled, closed>>, Impaired' <=> Impaired
  PROVE  Abstract!Send(e)
BY DEF Abstract!Send, PendingTo

(* A step that handles the head of the mapped sequence is a Handle.        *)
LEMMA AsHandle ==
  ASSUME NEW e \in End, PendingTo(e) # << >>,
         handled' = [handled EXCEPT ![e] = Append(@, Head(PendingTo(e)))],
         \A x \in End : PendingTo(x)' = IF x = e THEN Tail(PendingTo(e)) ELSE PendingTo(x),
         UNCHANGED <<sent, closed>>, Impaired' <=> Impaired
  PROVE  Abstract!Handle(e)
BY DEF Abstract!Handle, PendingTo

(* A step that takes a message out of the mapped sequence unhandled is a   *)
(* Lose.                                                                   *)
LEMMA AsLose ==
  ASSUME NEW e \in End, PendingTo(e) # << >>, Impaired',
         Impaired \/ MESSAGE_BURST <= Len(handled[e]) + 1, Len(handled[e]) \in Nat,
         \A x \in End : PendingTo(x)' = IF x = e THEN Tail(PendingTo(e)) ELSE PendingTo(x),
         UNCHANGED <<handled, sent, closed>>
  PROVE  Abstract!Lose(e)
BY TransportConstants DEF Abstract!Lose, PendingTo

(* A step that closes the connection is a Close.                           *)
LEMMA AsClose ==
  ASSUME TransportInv, HangUp, UNCHANGED <<handled, sent>>, Impaired',
         Impaired \/ \A x \in End : handled[x] = << >>
  PROVE  Abstract!Close
<1>1. ASSUME NEW x \in End PROVE PendingTo(x)' = << >>
  <2>1. wire'[x] = << >> /\ session'[Peer(x)].queue = << >>
    <3>1. session[Peer(x)] \in Session /\ Peer(x) \in End
      BY Both
    <3> QED
      BY <3>1 DEF HangUp, Session
  <2>2. Messages(<< >>) = << >>
    BY DEF Messages
  <2> QED
    BY <2>1, <2>2 DEF PendingTo
<1> QED
  BY <1>1 DEF Abstract!Close, PendingTo, HangUp

-----------------------------------------------------------------------------
(* Only the first frame on its way can be a handshake; and the types of    *)
(* the messages mapped.                                                    *)
LEMMA OneGreeting ==
  ASSUME TransportInv, NEW e \in End
  PROVE  /\ wire[e] # << >> => ~ Greets(Tail(wire[e]))
         /\ Messages(wire[e]) \in Seq(Nat) /\ session[Peer(e)].queue \in Seq(Nat)
         /\ PendingTo(e) \in Seq(Nat)
<1>1. /\ wire[e] \in Seq(Frame) /\ session[Peer(e)].sendCounter \in Nat
      /\ HandshakeFirst(wire[e]) /\ NumberedTo(wire[e], session[Peer(e)].sendCounter)
  BY Both DEF WireInv
<1>2. wire[e] # << >> => ~ Greets(Tail(wire[e]))
  BY <1>1, TailFrame
<1>3. session[Peer(e)].queue \in Seq(Nat)
  BY Ends, Both
<1>4. Messages(wire[e]) \in Seq(Nat)
  BY <1>1, MessagesType
<1> QED
  BY <1>2, <1>3, <1>4, ConcatProperties DEF PendingTo

(* Starting, falling back and agreeing on the keys move messages without   *)
(* changing what is on its way.                                            *)
LEMMA StartStutters ==
  ASSUME TransportInv, NEW e \in End, Start(e)
  PROVE  UNCHANGED Abstract!channelVars
<1> DEFINE p == Peer(e)
<1>1. /\ p \in End /\ p # e /\ Peer(p) = e /\ End = {e, p}
      /\ session[e] \in Session /\ session[p] \in Session /\ WireInv(p)
  BY Both
<1>2. wire[p] = << >> /\ wire'[e] = wire[e] /\ wire'[p] \in {<< >>, <<Handshake>>}
  <2>1. wire[p] = << >> /\ wire \in [End -> Seq(Frame)]
    BY <1>1 DEF Start, TransportInv, Types, WireInv
  <2> QED
    BY <1>1, <2>1 DEF Start
<1>3. session'[e].queue = session[e].queue /\ session'[p] = session[p]
  <2>1. PICK state \in {"plain", "handshaking"} : session' = [session EXCEPT ![e].state = state]
    BY DEF Start
  <2>2. session'[e] = [session[e] EXCEPT !.state = state] /\ session'[p] = session[p]
    BY <1>1, <2>1 DEF TransportInv, Types
  <2> QED
    BY <1>1, <2>2 DEF Session
<1>4. Messages(<< >>) = << >> /\ Messages(<<Handshake>>) = << >>
  BY <1>1, Both, MessagesType
<1>5. \A x \in End : PendingTo(x)' = PendingTo(x)
  BY <1>1, <1>2, <1>3, <1>4 DEF PendingTo
<1>6. UNCHANGED <<handled, sent, closed>> /\ (Impaired' <=> Impaired)
  BY DEF Start, Impaired
<1> QED
  BY <1>5, <1>6, AsStutter

(* The fallback timer leaves the mapping alone; at most it impairs the     *)
(* channel.                                                                *)
LEMMA FallbackImpairs ==
  ASSUME TransportInv, NEW e \in End, Fallback(e)
  PROVE  Abstract!Impair \/ UNCHANGED Abstract!channelVars
<1> DEFINE p == Peer(e)
           q == session[e].queue
<1>1. /\ p \in End /\ p # e /\ Peer(p) = e /\ End = {e, p}
      /\ session[e] \in Session /\ session[p] \in Session /\ q \in Seq(Nat) /\ wire[p] \in Seq(Frame)
  BY Both
<1>2. wire'[e] = wire[e] /\ wire'[p] = wire[p] \o PlainAll(q)
      /\ session'[p] = session[p] /\ session'[e].queue = << >>
  <2>1. /\ session'[e] = [session[e] EXCEPT !.state = "plain", !.queue = << >>]
        /\ session'[p] = session[p] /\ wire'[e] = wire[e] /\ wire'[p] = wire[p] \o PlainAll(q)
    BY <1>1 DEF Fallback, TransportInv, Types
  <2> QED
    BY <1>1, <2>1 DEF Session
<1>3. PlainAll(q) \in Seq(Frame) /\ Carry(PlainAll(q), q)
  BY <1>1, QueueCarried
<1>4. Messages(wire[p]) \in Seq(Nat) /\ (wire[p] # << >> => ~ Greets(Tail(wire[p])))
  BY <1>1, OneGreeting
<1>5. Messages(wire[p] \o PlainAll(q)) = Messages(wire[p]) \o q
  BY <1>1, <1>3, <1>4, MessagesOfConcat
<1>6. (Messages(wire[p]) \o q) \o << >> = Messages(wire[p]) \o q
  BY <1>1, <1>4, ConcatProperties, ConcatEmptySeq
<1>7. \A x \in End : PendingTo(x)' = PendingTo(x)
  BY <1>1, <1>2, <1>5, <1>6 DEF PendingTo
<1>8. UNCHANGED <<handled, sent, closed>> /\ (Impaired => Impaired')
  BY DEF Fallback, GivesUpEarly, Impaired
<1> QED
  BY <1>7, <1>8, AsStutter, AsImpair

(* The end of a handshake, which seals the queue, leaves the mapping       *)
(* alone.                                                                  *)
LEMMA AgreeStutters ==
  ASSUME TransportInv, NEW e \in End, wire[e] # << >>, Head(wire[e]).type = "HANDSHAKE",
         session[e].state = "handshaking", Took(e),
         UNCHANGED <<mode, mispinned, sent, flooded, late, handled, score, closed>>,
         session' = [session EXCEPT ![e] =
           [session[e] EXCEPT !.state = "encrypted", !.queue = << >>,
              !.sendCounter = @ + Len(SealedAll(session[e].sendCounter, session[e].queue))]],
         wire' = [wire EXCEPT ![e] = Tail(@),
                    ![Peer(e)] = @ \o SealedAll(session[e].sendCounter, session[e].queue)]
  PROVE  UNCHANGED Abstract!channelVars
<1> DEFINE p == Peer(e)
           q == session[e].queue
           h == SealedAll(session[e].sendCounter, session[e].queue)
<1>1. /\ p \in End /\ p # e /\ Peer(p) = e /\ End = {e, p}
      /\ session[e] \in Session /\ session[p] \in Session /\ q \in Seq(Nat)
      /\ wire[e] \in Seq(Frame) /\ wire[p] \in Seq(Frame)
      /\ session[e].sendCounter \in Nat
  BY Both
<1>2. h \in Seq(Frame) /\ Carry(h, q)
  BY <1>1, QueueCarried
<1>3. wire'[e] = Tail(wire[e]) /\ wire'[p] = wire[p] \o h
      /\ session'[p] = session[p] /\ session'[e].queue = << >>
  <2>1. wire'[e] = Tail(wire[e]) /\ wire'[p] = wire[p] \o h /\ session'[p] = session[p]
    BY <1>1 DEF TransportInv, Types
  <2>2. session'[e] = [session[e] EXCEPT !.state = "encrypted", !.queue = << >>,
                         !.sendCounter = session[e].sendCounter + Len(h)]
    BY <1>1 DEF TransportInv, Types
  <2>3. session[e].sendCounter + Len(h) \in Nat
    BY <1>1, <1>2, LenProperties
  <2> HIDE DEF h
  <2>4. LET r == [session[e] EXCEPT !.state = "encrypted", !.queue = << >>,
                    !.sendCounter = session[e].sendCounter + Len(h)]
        IN  r.queue = << >>
    BY <1>1, <2>3, AgreedSession
  <2> QED
    BY <2>1, <2>2, <2>4
<1> HIDE DEF h
<1>4. /\ Messages(wire[p]) \in Seq(Nat) /\ (wire[p] # << >> => ~ Greets(Tail(wire[p])))
      /\ ~ Greets(Tail(wire[e]))
  BY <1>1, OneGreeting
<1>5. Messages(wire[p] \o h) = Messages(wire[p]) \o q
  BY <1>1, <1>2, <1>4, MessagesOfConcat
<1>6. (Messages(wire[p]) \o q) \o << >> = Messages(wire[p]) \o q
  BY <1>1, <1>4, ConcatProperties, ConcatEmptySeq
<1>7. Messages(Tail(wire[e])) = Messages(wire[e])
  BY <1>1, <1>4, MessagesType DEF Greets
<1>8. \A x \in End : PendingTo(x)' = PendingTo(x)
  BY <1>1, <1>3, <1>5, <1>6, <1>7 DEF PendingTo
<1>9. Impaired' <=> Impaired
  BY DEF Impaired
<1> QED
  BY <1>8, <1>9, AsStutter

(* A message is sent, whether it goes out or into the queue.               *)
LEMMA SendMessageSends ==
  ASSUME TransportInv, NEW e \in End, SendMessage(e)
  PROVE  Abstract!Send(Peer(e))
<1> DEFINE p == Peer(e)
           m == sent[p] + 1
<1>1. /\ p \in End /\ p # e /\ Peer(p) = e /\ End = {e, p}
      /\ session[e] \in Session /\ session[p] \in Session /\ session[e].queue \in Seq(Nat)
      /\ wire[p] \in Seq(Frame) /\ session[e].sendCounter \in Nat /\ EndInv(e)
  BY Both
<1>2. /\ m \in Nat /\ sent[p] < MAX_MESSAGES /\ sent' = [sent EXCEPT ![p] = @ + 1]
      /\ ~ closed /\ UNCHANGED <<handled, closed>> /\ (Impaired' <=> Impaired)
  <2>1. sent[p] \in Nat
    BY <1>1 DEF TransportInv, Types
  <2>2. m \in Nat /\ sent[p] < MAX_MESSAGES
    BY <2>1, TransportConstants DEF SendMessage
  <2> QED
    BY <2>2 DEF SendMessage, Impaired
<1>3. /\ Messages(wire[p]) \in Seq(Nat) /\ (wire[p] # << >> => ~ Greets(Tail(wire[p])))
      /\ PendingTo(p) = Messages(wire[p]) \o session[e].queue
  BY <1>1, OneGreeting DEF PendingTo
<1>4. wire'[e] = wire[e] /\ session'[p] = session[p] /\ PendingTo(p)' = Append(PendingTo(p), m)
  <2>1. ASSUME NEW x \in Frame, x.type # "HANDSHAKE", x.message = m,
               wire' = [wire EXCEPT ![p] = Append(@, x)],
               session'[e].queue = << >>, session[e].queue = << >>, session'[p] = session[p]
        PROVE  wire'[e] = wire[e] /\ session'[p] = session[p] /\ PendingTo(p)' = Append(PendingTo(p), m)
    <3>1. wire'[p] = Append(wire[p], x) /\ wire'[e] = wire[e]
      BY <1>1, <2>1 DEF TransportInv, Types
    <3>2. Messages(Append(wire[p], x)) = Append(Messages(wire[p]), m)
      BY <1>1, <1>3, <2>1, MessagesOfAppend
    <3>3. /\ Messages(wire[p]) \o << >> = Messages(wire[p])
          /\ Append(Messages(wire[p]), m) \o << >> = Append(Messages(wire[p]), m)
      <4>1. Append(Messages(wire[p]), m) \in Seq(Nat)
        BY <1>2, <1>3, AppendProperties
      <4> QED
        BY <1>3, <4>1, ConcatEmptySeq
    <3> QED
      BY <1>1, <1>3, <2>1, <3>1, <3>2, <3>3 DEF PendingTo
  <2>2. CASE /\ session[e].state = "plain"
             /\ wire' = [wire EXCEPT ![p] = Append(@, Plain(m))]
             /\ UNCHANGED session
    <3>1. Plain(m) \in Frame /\ Plain(m).type # "HANDSHAKE" /\ Plain(m).message = m
      BY <1>2 DEF Plain, Frame
    <3>2. session'[e].queue = << >> /\ session[e].queue = << >> /\ session'[p] = session[p]
      BY <1>1, <2>2 DEF EndInv
    <3> QED
      BY <2>1, <2>2, <3>1, <3>2
  <2>3. CASE /\ session[e].state = "encrypted"
             /\ wire' = [wire EXCEPT ![p] = Append(@, Sealed(session[e].sendCounter, m))]
             /\ session' = [session EXCEPT ![e].sendCounter = @ + 1]
    <3>1. /\ Sealed(session[e].sendCounter, m) \in Frame
          /\ Sealed(session[e].sendCounter, m).type # "HANDSHAKE"
          /\ Sealed(session[e].sendCounter, m).message = m
      BY <1>1, <1>2 DEF Sealed, Frame
    <3>2. session[e].queue = << >>
      BY <1>1, <2>3 DEF EndInv
    <3>3. session'[e] = [session[e] EXCEPT !.sendCounter = session[e].sendCounter + 1]
          /\ session'[p] = session[p]
      BY <1>1, <2>3 DEF TransportInv, Types
    <3>4. session'[e].queue = << >>
      <4>1. session[e].sendCounter + 1 \in Nat
        BY <1>1
      <4> QED
        BY <1>1, <3>2, <3>3, <4>1 DEF Session
    <3> QED
      BY <2>1, <2>3, <3>1, <3>2, <3>3, <3>4
  <2>4. CASE /\ session[e].state = "handshaking"
             /\ session' = [session EXCEPT ![e].queue = Append(@, m)]
             /\ UNCHANGED wire
    <3>1. session'[e].queue = Append(session[e].queue, m) /\ session'[p] = session[p]
      <4>1. Append(session[e].queue, m) \in Seq(Nat)
        BY <1>1, <1>2, AppendProperties
      <4>2. session'[e] = [session[e] EXCEPT !.queue = Append(session[e].queue, m)] /\ session'[p] = session[p]
        BY <1>1, <2>4 DEF TransportInv, Types
      <4> QED
        BY <1>1, <4>1, <4>2 DEF Session
    <3>2. Messages(wire[p]) \o Append(session[e].queue, m) = Append(Messages(wire[p]) \o session[e].queue, m)
      <4>1. m \in Nat /\ session[e].queue \in Seq(Nat) /\ Messages(wire[p]) \in Seq(Nat)
        BY <1>1, <1>2, <1>3
      <4>2. \A f, q \in Seq(Nat) : \A n \in Nat : f \o Append(q, n) = Append(f \o q, n)
        BY AppendToConcat
      <4> HIDE DEF m
      <4> QED
        BY <4>1, <4>2, Zenon
    <3>3. PendingTo(p)' = Messages(wire[p]) \o Append(session[e].queue, m)
      BY <1>1, <2>4, <3>1 DEF PendingTo
    <3> QED
      BY <1>1, <1>3, <2>4, <3>1, <3>2, <3>3
  <2> QED
    BY <2>2, <2>3, <2>4 DEF SendMessage, Wrap
<1>5. PendingTo(e)' = PendingTo(e)
  BY <1>1, <1>4 DEF PendingTo
<1> QED
  BY <1>1, <1>2, <1>4, <1>5, AsSend

(* The first message on its way, and those behind it.                      *)
LEMMA TailOfPending ==
  ASSUME TransportInv, NEW e \in End, wire[e] # << >>
  PROVE  /\ Greets(wire[e]) => PendingTo(e) = Messages(Tail(wire[e])) \o session[Peer(e)].queue
         /\ ~ Greets(wire[e]) =>
              /\ PendingTo(e) # << >> /\ Head(PendingTo(e)) = Head(wire[e]).message
              /\ Tail(PendingTo(e)) = Messages(Tail(wire[e])) \o session[Peer(e)].queue
<1>1. /\ wire[e] \in Seq(Frame) /\ ~ Greets(Tail(wire[e]))
      /\ Messages(wire[e]) \in Seq(Nat) /\ session[Peer(e)].queue \in Seq(Nat)
  BY Both, OneGreeting
<1>2. Greets(wire[e]) => Messages(wire[e]) = Messages(Tail(wire[e]))
  BY <1>1, MessagesType
<1>3. ~ Greets(wire[e]) =>
        /\ Messages(wire[e]) # << >> /\ Head(Messages(wire[e])) = Head(wire[e]).message
        /\ Tail(Messages(wire[e])) = Messages(Tail(wire[e]))
  BY <1>1, MessagesOfTail
<1>4. Messages(wire[e]) # << >> =>
        /\ PendingTo(e) # << >> /\ Head(PendingTo(e)) = Head(Messages(wire[e]))
        /\ Tail(PendingTo(e)) = Tail(Messages(wire[e])) \o session[Peer(e)].queue
  BY <1>1, HeadTailConcat DEF PendingTo
<1> QED
  BY <1>2, <1>3, <1>4 DEF PendingTo

(* A frame is handled: the channel's next message is.                      *)
LEMMA AcceptHandles ==
  ASSUME TransportInv, NEW e \in End, wire[e] # << >>, NEW s \in Session, Accept(e, s),
         UNCHANGED <<mode, mispinned, sent, flooded, late>>,
         s.queue = session[e].queue, Head(wire[e]).type # "HANDSHAKE"
  PROVE  Abstract!Handle(e)
<1> DEFINE p == Peer(e)
<1>1. p \in End /\ p # e /\ Peer(p) = e /\ End = {e, p}
  BY Both
<1>2. /\ wire'[e] = Tail(wire[e]) /\ wire'[p] = wire[p]
      /\ session'[e].queue = session[e].queue /\ session'[p] = session[p]
      /\ handled' = [handled EXCEPT ![e] = Append(@, Head(wire[e]).message)]
      /\ UNCHANGED <<sent, closed>> /\ (Impaired' <=> Impaired)
  BY <1>1 DEF Accept, TransportInv, Types, Impaired
<1>3. ~ Greets(wire[e])
  BY DEF Greets
<1>4. /\ PendingTo(e) # << >> /\ Head(PendingTo(e)) = Head(wire[e]).message
      /\ PendingTo(e)' = Tail(PendingTo(e)) /\ PendingTo(p)' = PendingTo(p)
  BY <1>1, <1>2, <1>3, TailOfPending DEF PendingTo
<1>5. \A x \in End : PendingTo(x)' = IF x = e THEN Tail(PendingTo(e)) ELSE PendingTo(x)
  BY <1>1, <1>4
<1> QED
  BY <1>2, <1>4, <1>5, AsHandle

(* A frame is paid for and gone: between nodes that agree it was a         *)
(* handshake, and the first, or it came after a whole burst.               *)
LEMMA MisbehavingLoses ==
  ASSUME TransportInv, NEW e \in End, wire[e] # << >>, NEW points \in Nat, NEW s \in Session,
         Misbehaving(e, points, s), s.queue = session[e].queue, sent' = sent,
         \/ (Impaired' <=> Impaired) /\ points = MALFORMED
            /\ (Head(wire[e]).type = "HANDSHAKE" \/ Impaired)
         \/ Impaired' /\ points = FLOOD /\ Head(wire[e]).type # "HANDSHAKE"
            /\ (Impaired \/ MESSAGE_BURST <= Len(handled[e]) + 1)
  PROVE  Abstract!Lose(e) \/ Abstract!Close \/ UNCHANGED Abstract!channelVars
<1> DEFINE p == Peer(e)
<1>1. p \in End /\ p # e /\ Peer(p) = e /\ End = {e, p} /\ Patient(e) /\ handled' = handled
      /\ Len(handled[e]) \in Nat /\ score[e] \in Nat
  BY Both DEF Misbehaving, TransportInv, Types
<1>2. CASE score[e] + points < BAN_THRESHOLD
  <2>1. /\ wire' = [wire EXCEPT ![e] = Tail(@)] /\ session' = [session EXCEPT ![e] = s]
        /\ closed' = closed
    BY <1>2 DEF Misbehaving
  <2>2. /\ wire'[e] = Tail(wire[e]) /\ wire'[p] = wire[p]
        /\ session'[e].queue = session[e].queue /\ session'[p] = session[p]
    BY <1>1, <2>1 DEF TransportInv, Types
  <2>3. /\ PendingTo(e)' = Messages(Tail(wire[e])) \o session[p].queue
        /\ PendingTo(p)' = PendingTo(p)
    BY <1>1, <2>2 DEF PendingTo
  <2>4. CASE Greets(wire[e])
    <3>1. \A x \in End : PendingTo(x)' = PendingTo(x)
      BY <1>1, <2>3, <2>4, TailOfPending
    <3>2. Impaired' <=> Impaired
      BY <2>4 DEF Greets
    <3> QED
      BY <1>1, <2>1, <3>1, <3>2, AsStutter
  <2>5. CASE ~ Greets(wire[e])
    <3>1. Impaired' /\ (Impaired \/ MESSAGE_BURST <= Len(handled[e]) + 1)
      BY <2>5 DEF Greets
    <3>2. /\ PendingTo(e) # << >>
          /\ \A x \in End : PendingTo(x)' = IF x = e THEN Tail(PendingTo(e)) ELSE PendingTo(x)
      BY <1>1, <2>3, <2>5, TailOfPending
    <3> QED
      BY <1>1, <2>1, <3>1, <3>2, AsLose
  <2> QED
    BY <2>4, <2>5
<1>3. CASE ~ (score[e] + points < BAN_THRESHOLD)
  <2>1. HangUp
    BY <1>3 DEF Misbehaving
  <2>2. Impaired
    <3>1. ASSUME ~ Impaired PROVE FALSE
      <4>1. score[e] <= MALFORMED /\ (points = FLOOD \/ (points = MALFORMED /\ score[e] = 0))
        BY <1>1, <3>1 DEF Patient, Unheard, Greets
      <4> QED
        BY <1>1, <1>3, <4>1, TransportConstants
    <3> QED
      BY <3>1
  <2> QED
    BY <1>1, <2>1, <2>2, AsClose
<1> QED
  BY <1>2, <1>3

(* Every way to receive a frame is a step of the channel or none.          *)
LEMMA ReceiveImplements ==
  ASSUME TransportInv, NEW e \in End, Receive(e)
  PROVE  Abstract!Handle(e) \/ Abstract!Lose(e) \/ Abstract!Close \/ UNCHANGED Abstract!channelVars
<1> DEFINE p == Peer(e)
           type == Head(wire[e]).type
<1>1. /\ wire[e] # << >> /\ session[e].state # "none" /\ UNCHANGED <<mode, mispinned, sent, flooded, late>>
      /\ \/ type = "HANDSHAKE" /\ ReceiveHandshake(e)
         \/ type = "ENC" /\ ReceiveSealed(e)
         \/ type = "PLAIN" /\ ReceivePlain(e)
  BY DEF Receive
<1>2. /\ session[e] \in Session /\ session[p].state # "none"
      /\ p \in End /\ p # e /\ Peer(p) = e /\ End = {e, p} /\ End = {A, B}
      /\ session[e].recvCounter \in Nat /\ EndInv(e) /\ EndInv(p)
      /\ type = "HANDSHAKE" => mode[p] # "off" /\ session[e].state # "encrypted"
      /\ type = "PLAIN" => session[p].state = "plain"
      /\ type = "ENC" =>
           /\ session[p].state = "encrypted" /\ session[e].state \in {"plain", "encrypted"}
           /\ session[e].state = "encrypted" =>
                IF flooded[e] THEN session[e].recvCounter < Head(wire[e]).n
                              ELSE Head(wire[e]).n = session[e].recvCounter
  BY <1>1, Both, FirstFrame DEF End
<1>0. ASSUME NEW s \in Session, Reject(e, s), s.queue = session[e].queue,
             type = "HANDSHAKE" \/ Impaired
      PROVE  Abstract!Lose(e) \/ Abstract!Close \/ UNCHANGED Abstract!channelVars
  <2>1. Misbehaving(e, MALFORMED, s) /\ MALFORMED \in Nat /\ (Impaired' <=> Impaired)
    BY <1>0, <1>1, TransportConstants DEF Reject, Impaired
  <2> QED
    BY <1>0, <1>1, <2>1, MisbehavingLoses
<1>3. CASE type = "HANDSHAKE" /\ ReceiveHandshake(e)
  <2>1. CASE session[e].state # "handshaking" /\ Reject(e, session[e])
    BY <1>0, <1>2, <1>3, <2>1
  <2>2. CASE session[e].state = "handshaking" /\ e = A /\ mispinned /\ HangUp /\ UNCHANGED <<handled, score>>
    <3>1. mode[e] # "off" /\ mode[p] # "off"
      BY <1>2, <1>3, <2>2 DEF EndInv
    <3>2. Impaired /\ Impaired'
      BY <1>1, <1>2, <2>2, <3>1 DEF Impaired
    <3> QED
      BY <1>1, <2>2, <3>2, AsClose
  <2>3. CASE /\ session[e].state = "handshaking" /\ UNCHANGED <<handled, score, closed>>
             /\ session' = [session EXCEPT ![e] =
                  [session[e] EXCEPT !.state = "encrypted", !.queue = << >>,
                     !.sendCounter = @ + Len(SealedAll(session[e].sendCounter, session[e].queue))]]
             /\ wire' = [wire EXCEPT ![e] = Tail(@),
                          ![Peer(e)] = @ \o SealedAll(session[e].sendCounter, session[e].queue)]
    BY <1>1, <1>3, <2>3, AgreeStutters DEF Receive, Took
  <2> QED
    BY <1>3, <2>1, <2>2, <2>3 DEF ReceiveHandshake
<1>4. CASE type = "ENC" /\ ReceiveSealed(e)
  <2> DEFINE s == [session[e] EXCEPT !.sawEncrypted = session[e].state = "encrypted"]
             r == [s EXCEPT !.recvCounter = @ + 1]
  <2>1. /\ s \in Session /\ s.state = session[e].state /\ s.queue = session[e].queue
        /\ s.recvCounter = session[e].recvCounter
    BY <1>2 DEF Session
  <2>2. CASE session[e].state = "encrypted" /\ ~ flooded[e]
    <3>1. r \in Session /\ r.queue = session[e].queue
      <4>1. s.recvCounter + 1 \in Nat
        BY <1>2, <2>1
      <4> HIDE DEF s
      <4> QED
        BY <2>1, <4>1 DEF Session
    <3>2. Accept(e, r)
      BY <1>2, <1>4, <2>1, <2>2 DEF ReceiveSealed
    <3> HIDE DEF r
    <3> QED
      BY <1>1, <1>4, <3>1, <3>2, AcceptHandles
  <2>3. CASE session[e].state # "encrypted"
    <3>1. session[e].sawEncrypted = FALSE
      BY <1>2, <2>3 DEF EndInv, Session
    <3>2. s = session[e]
      BY <1>2, <2>3, <3>1 DEF Session
    <3>3. Reject(e, s)
      BY <1>4, <2>1, <2>3 DEF ReceiveSealed
    <3> HIDE DEF s
    <3>4. Impaired
      BY <1>2, <1>4, <2>3, EncryptedToPlain
    <3> QED
      BY <1>0, <1>2, <3>2, <3>3, <3>4
  <2>4. CASE session[e].state = "encrypted" /\ flooded[e]
    <3>1. Reject(e, s) /\ Impaired
      BY <1>2, <1>4, <2>1, <2>4 DEF ReceiveSealed, Impaired
    <3> HIDE DEF s
    <3> QED
      BY <1>0, <2>1, <3>1
  <2> QED
    BY <2>2, <2>3, <2>4
<1>5. CASE type = "PLAIN" /\ ReceivePlain(e)
  <2>1. CASE (mode[e] = "required" \/ session[e].sawEncrypted) /\ Reject(e, session[e])
    <3>1. Impaired
      BY <1>2, <1>5, <2>1, PlainToRequired
    <3> QED
      BY <1>0, <1>2, <2>1, <3>1
  <2>2. CASE Accept(e, session[e])
    BY <1>1, <1>2, <1>5, <2>2, AcceptHandles
  <2> QED
    BY <1>5, <2>1, <2>2 DEF ReceivePlain
<1> QED
  BY <1>1, <1>3, <1>4, <1>5

(* A frame over the rate is lost: a whole burst went before it.            *)
LEMMA DiscardLoses ==
  ASSUME TransportInv, NEW e \in End, Discard(e)
  PROVE  Abstract!Lose(e) \/ Abstract!Close \/ UNCHANGED Abstract!channelVars
<1>1. /\ session[e] \in Session /\ wire[e] # << >> /\ Patient(e) /\ session[Peer(e)].state # "none"
      /\ sent' = sent /\ flooded' = [flooded EXCEPT ![e] = TRUE] /\ tokens[e] = 0
      /\ Misbehaving(e, FLOOD, session[e]) /\ FLOOD \in Nat
      /\ Len(handled[e]) \in Nat /\ flooded \in [End -> BOOLEAN]
  BY Both, FirstFrame, TransportConstants DEF Discard, TransportInv, Types
<1>2. Head(wire[e]).type # "HANDSHAKE"
  BY <1>1, TransportConstants DEF Patient, Unheard, Greets
<1>3. Impaired \/ MESSAGE_BURST <= Len(handled[e]) + 1
  BY <1>1, TransportConstants DEF Patient
<1>4. Impaired'
  BY <1>1 DEF Impaired
<1> QED
  BY <1>1, <1>2, <1>3, <1>4, MisbehavingLoses

(* An end that hangs up for want of a handshake has handled nothing, and   *)
(* nothing it said was handled; and the nodes do not agree.                *)
LEMMA RequiredTimeoutCloses ==
  ASSUME TransportInv, NEW e \in End, RequiredTimeout(e)
  PROVE  Abstract!Close
<1>1. Peer(e) \in End /\ Peer(e) # e /\ Peer(Peer(e)) = e /\ End = {e, Peer(e)} /\ EndInv(e)
  BY Both
<1>2. /\ mode[e] = "required" /\ session[e].state = "handshaking" /\ HangUp
      /\ UNCHANGED <<mode, mispinned, sent, handled, tokens, score, flooded>>
      /\ late' = (late \/ mode[Peer(e)] # "off")
  BY DEF RequiredTimeout, GivesUpEarly
<1>3. Impaired'
  BY <1>1, <1>2 DEF Impaired
<1>4. \A x \in End : handled[x] = << >>
  BY <1>1, <1>2 DEF EndInv
<1> QED
  BY <1>2, <1>3, <1>4, AsClose

(* Every step of the transport is a step of the channel, or none.          *)
LEMMA NextImplements ==
  ASSUME TransportInv, [TransportNext]_transportVars
  PROVE  [Abstract!ChannelNext]_(Abstract!channelVars)
<1>1. ASSUME NEW e \in End, Start(e) PROVE UNCHANGED Abstract!channelVars
  BY <1>1, StartStutters
<1>2. ASSUME NEW e \in End, Fallback(e) PROVE Abstract!Impair \/ UNCHANGED Abstract!channelVars
  BY <1>2, FallbackImpairs
<1>3. ASSUME NEW e \in End, RequiredTimeout(e) PROVE Abstract!Close
  BY <1>3, RequiredTimeoutCloses
<1>4. ASSUME NEW e \in End, SendMessage(e) PROVE \E x \in End : Abstract!Send(x)
  BY <1>4, SendMessageSends, Ends
<1>5. ASSUME NEW e \in End, Receive(e)
      PROVE  Abstract!Handle(e) \/ Abstract!Lose(e) \/ Abstract!Close \/ UNCHANGED Abstract!channelVars
  BY <1>5, ReceiveImplements
<1>6. ASSUME NEW e \in End, Discard(e)
      PROVE  Abstract!Lose(e) \/ Abstract!Close \/ UNCHANGED Abstract!channelVars
  BY <1>6, DiscardLoses
<1>7. CASE UNCHANGED transportVars
  BY <1>7 DEF transportVars, Abstract!channelVars, Impaired
<1> QED
  BY <1>1, <1>2, <1>3, <1>4, <1>5, <1>6, <1>7 DEF TransportNext, Abstract!ChannelNext

(* What the handlers of two nodes see is an ordered channel that loses or  *)
(* closes nothing unless it is impaired or a burst has been handled (the   *)
(* safety of ImplementsChannel).                                           *)
THEOREM TransportIsChannel ==
  TransportSpec => Abstract!ChannelInit /\ [][Abstract!ChannelNext]_(Abstract!channelVars)
<1>1. TransportInit => Abstract!ChannelInit
  <2> SUFFICES ASSUME TransportInit PROVE Abstract!ChannelInit
    OBVIOUS
  <2>1. \A e \in End : Messages(wire[e]) \o session[Peer(e)].queue = << >>
    <3>1. ASSUME NEW e \in End PROVE wire[e] = << >> /\ session[Peer(e)].queue = << >>
      BY Ends DEF TransportInit, NoSession
    <3>2. Messages(<< >>) = << >>
      BY DEF Messages
    <3> QED
      BY <3>1, <3>2
  <2>2. Impaired \in BOOLEAN
    BY DEF Impaired, TransportInit
  <2> QED
    BY <2>1, <2>2 DEF TransportInit, Abstract!ChannelInit
<1>2. TransportInv /\ [TransportNext]_transportVars => [Abstract!ChannelNext]_(Abstract!channelVars)
  BY NextImplements
<1> QED
  BY <1>1, <1>2, TransportInvariant, PTL DEF TransportSpec
=============================================================================
