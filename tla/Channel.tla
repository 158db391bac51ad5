------------------------------ MODULE Channel ------------------------------
(***************************************************************************)
(* What the encrypted transport promises to the message handlers of two    *)
(* nodes: each sees the messages of the other, in the order they were      *)
(* sent, none twice and none made up, and every one of them.  Only an      *)
(* impaired connection (the nodes do not agree how to talk) may lose       *)
(* messages, or be closed; one that is not may come to that by its load,   *)
(* but not before an end has handled a whole burst, the handshake          *)
(* included.                                                               *)
(***************************************************************************)
EXTENDS Naturals, Sequences

CONSTANTS End,            \* the two ends
          MESSAGE_BURST,  \* messages an end takes at once
          MAX_MESSAGES    \* bound: messages sent by an end

VARIABLES pending,   \* pending[e]: messages sent to e and not yet handled
          handled,   \* handled[e]: messages e has handled
          sent,      \* sent[e]: number of messages sent to e
          impaired, closed

channelVars == <<pending, handled, sent, impaired, closed>>

ChannelInit ==
  /\ pending = [e \in End |-> << >>] /\ handled = [e \in End |-> << >>]
  /\ sent = [e \in End |-> 0]
  /\ impaired \in BOOLEAN /\ closed = FALSE

Send(e) ==
  /\ sent[e] < MAX_MESSAGES /\ ~ closed
  /\ sent' = [sent EXCEPT ![e] = @ + 1]
  /\ pending' = [pending EXCEPT ![e] = Append(@, sent[e] + 1)]
  /\ UNCHANGED <<handled, impaired, closed>>

Handle(e) ==
  /\ pending[e] # << >>
  /\ handled' = [handled EXCEPT ![e] = Append(@, Head(pending[e]))]
  /\ pending' = [pending EXCEPT ![e] = Tail(@)]
  /\ UNCHANGED <<sent, impaired, closed>>

Lose(e) ==
  /\ impaired \/ Len(handled[e]) + 1 >= MESSAGE_BURST
  /\ pending[e] # << >>
  /\ pending' = [pending EXCEPT ![e] = Tail(@)]
  /\ impaired' = TRUE
  /\ UNCHANGED <<handled, sent, closed>>

Impair == ~ impaired /\ impaired' = TRUE /\ UNCHANGED <<pending, handled, sent, closed>>

(* An end refuses to go on, or to wait before anything was said.           *)
Close ==
  /\ impaired \/ \A e \in End : handled[e] = << >>
  /\ impaired' = TRUE /\ closed' = TRUE
  /\ pending' = [e \in End |-> << >>]
  /\ UNCHANGED <<handled, sent>>

ChannelNext == (\E e \in End : Send(e) \/ Handle(e) \/ Lose(e)) \/ Impair \/ Close

ChannelSpec ==
  /\ ChannelInit /\ [][ChannelNext]_channelVars
  /\ \A e \in End : WF_channelVars(Handle(e) \/ Lose(e))
=============================================================================
