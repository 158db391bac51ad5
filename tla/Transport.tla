----------------------------- MODULE Transport -----------------------------
(***************************************************************************)
(* The encrypted transport of one connection (src/transport.js), with the  *)
(* part of the message handler that calls it (src/p2p.js).  Each end sends *)
(* its ephemeral key at once and queues what it has to say; the keys are   *)
(* agreed when the other's handshake comes, and an end that waits too long *)
(* goes on in plaintext or hangs up.  The socket delivers in order.        *)
(*                                                                         *)
(* A frame sealed with the keys of this connection is its number and its   *)
(* message; messages are numbered as they are sent.                        *)
(***************************************************************************)
EXTENDS Integers, SequencesExt

CONSTANTS A, B,               \* the end that dialled and the end that accepted
          MALFORMED, FLOOD, BAN_THRESHOLD,
          MESSAGE_BURST,      \* frames an end takes before any time has passed
          MAX_MESSAGES        \* bound: messages sent by an end

End == {A, B}
Peer(e) == IF e = A THEN B ELSE A

ASSUME TransportConstants ==
  /\ A # B /\ MAX_MESSAGES \in Nat
  /\ MALFORMED \in Nat \ {0} /\ FLOOD \in Nat \ {0} /\ BAN_THRESHOLD \in Nat
  /\ MALFORMED + FLOOD < BAN_THRESHOLD /\ MESSAGE_BURST \in Nat \ {0}

VARIABLES
  mode,       \* LIMCOIN_ENCRYPT of each node
  mispinned,  \* A's address of B names another identity
  session,    \* ws.transport of each end
  wire,       \* wire[e]: frames on their way to e
  sent,       \* sent[e]: number of messages sent to e
  handled,    \* handled[e]: messages e has handled, in order
  tokens,     \* ws.tokens: frames each end still takes at once
  score,      \* banScore each end keeps of the other
  flooded,    \* history: an end has dropped a frame that came over the rate
  late,       \* history: an end gave up waiting for a handshake that comes
  closed

transportVars ==
  <<mode, mispinned, session, wire, sent, handled, tokens, score, flooded, late, closed>>

-----------------------------------------------------------------------------
NoSession == [state |-> "none", queue |-> << >>, sendCounter |-> 0, recvCounter |-> 0,
              sawEncrypted |-> FALSE]

Handshake == [type |-> "HANDSHAKE", n |-> 0, message |-> 0]
Plain(m) == [type |-> "PLAIN", n |-> 0, message |-> m]
Sealed(n, m) == [type |-> "ENC", n |-> n, message |-> m]

PlainAll(ms) == [k \in DOMAIN ms |-> Plain(ms[k])]

\* Fault: the queue is sealed with one number.
SealedAllAtOnce(n, ms) == [k \in DOMAIN ms |-> Sealed(n, ms[k])]

SealedAll(n, ms) == [k \in DOMAIN ms |-> Sealed(n + k - 1, ms[k])]

TransportInit ==
  /\ mode \in [End -> {"optional", "required", "off"}]
  /\ mispinned \in BOOLEAN
  /\ session = [e \in End |-> NoSession]
  /\ wire = [e \in End |-> << >>] /\ handled = [e \in End |-> << >>]
  /\ sent = [e \in End |-> 0] /\ score = [e \in End |-> 0]
  /\ tokens = [e \in End |-> MESSAGE_BURST] /\ flooded = [e \in End |-> FALSE]
  /\ late = FALSE /\ closed = FALSE

-----------------------------------------------------------------------------
(* startSession *)
Start(e) ==
  /\ session[e].state = "none" /\ ~ closed
  /\ IF mode[e] = "off"
     THEN session' = [session EXCEPT ![e].state = "plain"] /\ UNCHANGED wire
     ELSE /\ session' = [session EXCEPT ![e].state = "handshaking"]
          /\ wire' = [wire EXCEPT ![Peer(e)] = Append(@, Handshake)]
  /\ UNCHANGED <<mode, mispinned, sent, handled, tokens, score, flooded, late, closed>>

HangUp ==
  /\ closed' = TRUE
  /\ wire' = [e \in End |-> << >>]
  /\ session' = [e \in End |-> [session[e] EXCEPT !.queue = << >>]]

GivesUpEarly(e) == late' = (late \/ mode[Peer(e)] # "off")

\* Fault: nobody sends what was queued.
FallbackForgetful(e) ==
  /\ mode[e] = "optional" /\ session[e].state = "handshaking" /\ ~ closed
  /\ session' = [session EXCEPT ![e].state = "plain", ![e].queue = << >>]
  /\ GivesUpEarly(e)
  /\ UNCHANGED <<mode, mispinned, wire, sent, handled, tokens, score, flooded, closed>>

(* PLAINTEXT_FALLBACK passes: what was queued goes out in plaintext.       *)
Fallback(e) ==
  /\ mode[e] = "optional" /\ session[e].state = "handshaking" /\ ~ closed
  /\ session' = [session EXCEPT ![e].state = "plain", ![e].queue = << >>]
  /\ wire' = [wire EXCEPT ![Peer(e)] = @ \o PlainAll(session[e].queue)]
  /\ GivesUpEarly(e)
  /\ UNCHANGED <<mode, mispinned, sent, handled, tokens, score, flooded, closed>>

(* HANDSHAKE_TIMEOUT passes.                                               *)
RequiredTimeout(e) ==
  /\ mode[e] = "required" /\ session[e].state = "handshaking" /\ ~ closed
  /\ HangUp
  /\ GivesUpEarly(e)
  /\ UNCHANGED <<mode, mispinned, sent, handled, tokens, score, flooded>>

\* Fault: what comes before the handshake is done goes out in plaintext.
WrapAtOnce(e, m) ==
  LET s == session[e]
  IN  IF s.state = "encrypted"
      THEN /\ wire' = [wire EXCEPT ![Peer(e)] = Append(@, Sealed(s.sendCounter, m))]
           /\ session' = [session EXCEPT ![e].sendCounter = @ + 1]
      ELSE wire' = [wire EXCEPT ![Peer(e)] = Append(@, Plain(m))] /\ UNCHANGED session

(* wrap *)
Wrap(e, m) ==
  LET s == session[e]
  IN  \/ /\ s.state = "plain"
         /\ wire' = [wire EXCEPT ![Peer(e)] = Append(@, Plain(m))]
         /\ UNCHANGED session
      \/ /\ s.state = "encrypted"
         /\ wire' = [wire EXCEPT ![Peer(e)] = Append(@, Sealed(s.sendCounter, m))]
         /\ session' = [session EXCEPT ![e].sendCounter = @ + 1]
      \/ /\ s.state = "handshaking"
         /\ session' = [session EXCEPT ![e].queue = Append(@, m)]
         /\ UNCHANGED wire

(* sendMessage: the next message for the other end.                        *)
SendMessage(e) ==
  LET m == sent[Peer(e)] + 1
  IN  /\ session[e].state # "none" /\ ~ closed /\ m <= MAX_MESSAGES
      /\ sent' = [sent EXCEPT ![Peer(e)] = m]
      /\ Wrap(e, m)
      /\ UNCHANGED <<mode, mispinned, handled, tokens, score, flooded, late, closed>>

-----------------------------------------------------------------------------
(* misbehaving: the peer pays for the first frame; at the threshold it is  *)
(* cut off.                                                                *)
Misbehaving(e, points, s) ==
  /\ score' = [score EXCEPT ![e] = @ + points]
  /\ IF score[e] + points < BAN_THRESHOLD
     THEN /\ wire' = [wire EXCEPT ![e] = Tail(@)]
          /\ session' = [session EXCEPT ![e] = s]
          /\ UNCHANGED closed
     ELSE HangUp
  /\ UNCHANGED handled

Reject(e, s) == Misbehaving(e, MALFORMED, s)

Accept(e, s) ==
  /\ handled' = [handled EXCEPT ![e] = Append(@, Head(wire[e]).message)]
  /\ wire' = [wire EXCEPT ![e] = Tail(@)]
  /\ session' = [session EXCEPT ![e] = s]
  /\ UNCHANGED <<score, closed>>

(* acceptHandshake, and drainQueue when the keys are agreed.               *)
ReceiveHandshake(e) ==
  LET s == session[e]
      queue == SealedAll(s.sendCounter, s.queue)
  IN  \/ s.state # "handshaking" /\ Reject(e, s)
      \/ s.state = "handshaking" /\ e = A /\ mispinned /\ HangUp /\ UNCHANGED <<handled, score>>
      \/ /\ s.state = "handshaking" /\ ~ (e = A /\ mispinned)
         /\ session' = [session EXCEPT ![e] =
              [s EXCEPT !.state = "encrypted", !.queue = << >>, !.sendCounter = @ + Len(queue)]]
         /\ wire' = [wire EXCEPT ![e] = Tail(@), ![Peer(e)] = @ \o queue]
         /\ UNCHANGED <<handled, score, closed>>

(* A sealed frame must be the next one.                                    *)
ReceiveSealed(e) ==
  LET s == [session[e] EXCEPT !.sawEncrypted = session[e].state = "encrypted"]
  IN  IF s.state = "encrypted" /\ Head(wire[e]).n = s.recvCounter
      THEN Accept(e, [s EXCEPT !.recvCounter = @ + 1])
      ELSE Reject(e, s)

(* Plaintext is taken until the peer has sealed a frame.                   *)
ReceivePlain(e) ==
  IF mode[e] = "required" \/ session[e].sawEncrypted
  THEN Reject(e, session[e])
  ELSE Accept(e, session[e])

(* overRateLimit: a frame takes a token, and time brings new ones.         *)
Receive(e) ==
  /\ wire[e] # << >> /\ session[e].state # "none"
  /\ \E t \in tokens[e]..MESSAGE_BURST : t >= 1 /\ tokens' = [tokens EXCEPT ![e] = t - 1]
  /\ \/ Head(wire[e]).type = "HANDSHAKE" /\ ReceiveHandshake(e)
     \/ Head(wire[e]).type = "ENC" /\ ReceiveSealed(e)
     \/ Head(wire[e]).type = "PLAIN" /\ ReceivePlain(e)
  /\ UNCHANGED <<mode, mispinned, sent, flooded, late>>

(* There is no token left: the frame is dropped before anyone looks at it, *)
(* and its number with it.                                                 *)
Discard(e) ==
  /\ wire[e] # << >> /\ session[e].state # "none" /\ tokens[e] = 0
  /\ flooded' = [flooded EXCEPT ![e] = TRUE]
  /\ Misbehaving(e, FLOOD, session[e])
  /\ UNCHANGED <<mode, mispinned, sent, tokens, late>>

TransportNext ==
  \E e \in End : \/ Start(e) \/ Fallback(e) \/ RequiredTimeout(e)
                 \/ SendMessage(e) \/ Receive(e) \/ Discard(e)

(* Both ends start, the socket delivers and timers fire.                   *)
TransportFairness ==
  \A e \in End : /\ WF_transportVars(Start(e)) /\ WF_transportVars(Receive(e) \/ Discard(e))
                 /\ WF_transportVars(Fallback(e) \/ RequiredTimeout(e))

TransportSpec == TransportInit /\ [][TransportNext]_transportVars /\ TransportFairness

-----------------------------------------------------------------------------
Carried(e, type) == {k \in DOMAIN wire[e] : wire[e][k].type = type}

(* Types; and the sealed frames on their way to an encrypted end follow    *)
(* each other without gap up to the number the other will use next.  The   *)
(* first is the one the end waits for, so that it opens them all, unless   *)
(* the end has dropped a frame over the rate: then it opens none any more. *)
FramesInStep ==
  /\ \A e \in End :
       /\ session[e].state \in {"none", "handshaking", "plain", "encrypted"}
       /\ session[e].queue # << >> => session[e].state = "handshaking"
       /\ mode[e] = "required" => session[e].state # "plain"
       /\ score[e] \in Nat /\ tokens[e] \in 0..MESSAGE_BURST
  /\ \A e \in End :
       session[e].state = "encrypted" /\ ~ closed =>
         LET first == session[Peer(e)].sendCounter - Cardinality(Carried(e, "ENC"))
         IN  /\ \A k \in Carried(e, "ENC") : wire[e][k].n = first + k - 1
             /\ ~ flooded[e] => first = session[e].recvCounter
             /\ flooded[e] /\ Carried(e, "ENC") # {} => session[e].recvCounter < first

(* A message goes out in plaintext only if one of the nodes does not       *)
(* encrypt, or the other's handshake kept the sender waiting too long.     *)
PlainOnlyByAgreement ==
  \A e \in End : Carried(e, "PLAIN") # {} =>
    /\ mode[Peer(e)] # "required"
    /\ mode[e] = "off" \/ mode[Peer(e)] = "off" \/ late

-----------------------------------------------------------------------------
(* The nodes do not agree: one demands what the other does not do, the     *)
(* identity is another, one of them did not wait for the other, or got     *)
(* more than it takes.                                                     *)
Impaired ==
  \/ late \/ (mispinned /\ mode[A] # "off" /\ mode[B] # "off")
  \/ \E e \in End : flooded[e] \/ (mode[e] = "required" /\ mode[Peer(e)] = "off")

(* The messages frames carry: all but a handshake, which goes first.       *)
Messages(frames) ==
  LET carrying == IF frames # << >> /\ Head(frames).type = "HANDSHAKE" THEN Tail(frames) ELSE frames
  IN  [k \in DOMAIN carrying |-> carrying[k].message]

Abstract == INSTANCE Channel WITH
  pending <- [e \in End |-> Messages(wire[e]) \o session[Peer(e)].queue],
  impaired <- Impaired

(* Whatever the two modes, and whenever frames arrive and timers fire, the *)
(* handlers see an ordered channel that loses or closes nothing unless it  *)
(* is impaired or a burst has used up the tokens, and every message not    *)
(* lost is handled in the end.                                             *)
ImplementsChannel == Abstract!ChannelSpec
=============================================================================
