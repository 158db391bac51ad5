------------------------------- MODULE Peers -------------------------------
(***************************************************************************)
(* The connections between two nodes (src/p2p.js): the addresses a node    *)
(* has dialled and dials again, both ends of every socket, the rule that   *)
(* keeps one of two crossing connections, and bans.  Other nodes appear    *)
(* only in that they may hold all the sockets, and pass addresses on.      *)
(*                                                                         *)
(* The record of a dialled address and the handlers of the sockets it made *)
(* are separate objects: a socket may outlive its record, and its close    *)
(* handler then meets the record of a later dial.                          *)
(***************************************************************************)
EXTENDS Integers, FiniteSetsExt

CONSTANTS Node,
          Public,     \* the nodes that announce an address of their own
          First,      \* the node whose address sorts first
          MAX_SOCKETS,\* bound: sockets one node makes to the other at a time
          MAX_MISHAPS \* bound: what may go wrong, or by hand, before rest

Pairs == {l \in Node \X Node : l[1] # l[2]}
Other(l) == <<l[2], l[1]>>
Slot == 1..MAX_SOCKETS

ASSUME PeersConstants ==
  /\ Cardinality(Node) = 2 /\ Public \subseteq Node /\ First \in Node
  /\ MAX_SOCKETS \in Nat \ {0} /\ MAX_MISHAPS \in Nat

VARIABLES
  dialed,     \* dialed[<<n, p>>]: the record n keeps of p's address
  conn,       \* conn[<<n, p>>][k]: a socket n made to p, both its ends
  banned,     \* pairs <<n, p>>: n has banned the address it dials
  dead,       \* history: records whose last dial met a ban
  redialed,   \* history: pairs <<n, p>> where n made a new record of p while it was
              \* linked to p, or a socket of an older record was still there
  mishaps     \* how often a connection broke or was refused, a node was full, an
              \* address was dialled by hand or in haste or forgotten, a peer banned

peersVars == <<dialed, conn, banned, dead, redialed, mishaps>>

-----------------------------------------------------------------------------
\* An end is "none" (not yet), "wait" (dialling), "open", "met" (HELLO read),
\* "failed" (closed before it opened) or "gone".
NoSocket == [dialer |-> "none", acceptor |-> "none", closing |-> FALSE, own |-> FALSE]
Dialing == [NoSocket EXCEPT !.dialer = "wait", !.own = TRUE]
Live == {"open", "met"}

Forgotten == [on |-> FALSE, timer |-> FALSE, socket |-> 0]
NewRecord == [Forgotten EXCEPT !.on = TRUE]

Free(l) == {k \in Slot : conn[l][k] = NoSocket}

\* The sockets n has made to p whose close event has not come.
Dialers(l) == {k \in Slot : conn[l][k].dialer \in Live \cup {"wait"}}

\* A socket whose two ends are over leaves no trace.
Swept(c) ==
  IF c.dialer \in {"failed", "gone"} /\ c.acceptor \in {"none", "gone"} THEN NoSocket ELSE c

Closed(c) == [c EXCEPT !.closing = TRUE]

(* isAlreadyConnected: a socket to p on which p has told its address.      *)
AlreadyConnected(n, p) ==
  p \in Public /\ \E k \in Slot : \/ conn[<<n, p>>][k].dialer = "met"
                                  \/ conn[<<p, n>>][k].acceptor = "met"

PeersInit ==
  /\ dialed = [l \in Pairs |-> Forgotten]
  /\ conn = [l \in Pairs |-> [k \in Slot |-> NoSocket]]
  /\ banned = {} /\ dead = {} /\ redialed = {} /\ mishaps = 0

Mishap == mishaps < MAX_MISHAPS /\ mishaps' = mishaps + 1
NoMishap == UNCHANGED mishaps

-----------------------------------------------------------------------------
(* The three ways of dial.  A banned address is not dialled, now or later; *)
(* while others hold all the MAX_PEERS sockets it is dialled later.        *)
MeetBan(l, r) ==
  /\ l \in banned
  /\ dialed' = [dialed EXCEPT ![l] = r]
  /\ dead' = dead \cup {l}
  /\ UNCHANGED conn

\* Fault: a full node gives the address up.
GiveUp(l, r) ==
  /\ l \notin banned
  /\ dialed' = [dialed EXCEPT ![l] = r]
  /\ UNCHANGED <<conn, dead>>

PutOff(l, r) ==
  /\ l \notin banned
  /\ dialed' = [dialed EXCEPT ![l] = [r EXCEPT !.timer = TRUE]]
  /\ UNCHANGED <<conn, dead>>

MakeSocket(l, r) ==
  /\ l \notin banned /\ Free(l) # {}
  /\ LET k == Min(Free(l))
     IN  /\ dialed' = [dialed EXCEPT ![l] = [r EXCEPT !.socket = k]]
         /\ conn' = [conn EXCEPT ![l][k] = Dialing]
  /\ UNCHANGED dead

\* Fault: an address that is dialled already is dialled once more.
ConnectToPeersAgain(l) ==
  /\ MeetBan(l, NewRecord) \/ MakeSocket(l, NewRecord)
  /\ UNCHANGED <<banned, redialed>>

(* connectToPeers makes a record of a new address and dials it (and throws *)
(* if there is no room).                                                   *)
ConnectToPeers(l) ==
  /\ ~ dialed[l].on
  /\ MeetBan(l, NewRecord) \/ MakeSocket(l, NewRecord)
  /\ redialed' = IF Dialers(l) = {} /\ ~ AlreadyConnected(l[1], l[2])
                 THEN redialed ELSE redialed \cup {l}
  /\ UNCHANGED banned

(* The operator dials, whatever there is already.                          *)
ConnectByHand(l) == Mishap /\ ConnectToPeers(l)

(* handlePeersResponse: an address that is known, from this list or from   *)
(* before, is dialled by fillOutbound, unless the node is linked to it (or *)
(* has dialled enough others, which is the case where nothing happens).    *)
HandlePeersResponse(l) ==
  /\ l[2] \in Public /\ ~ AlreadyConnected(l[1], l[2])
  /\ ConnectToPeers(l)
  /\ \/ Dialers(l) = {} /\ NoMishap
     \/ Dialers(l) # {} /\ Mishap

(* The reconnect timer fires.                                              *)
Reconnect(l) ==
  LET r == [dialed[l] EXCEPT !.timer = FALSE]
  IN  /\ dialed[l].timer
      /\ \/ NoMishap /\ (MeetBan(l, r) \/ MakeSocket(l, r))
         \/ Mishap /\ PutOff(l, r)
      /\ UNCHANGED <<banned, redialed>>

(* disconnectPeer: the record goes, its timer with it, and its socket is   *)
(* closed.  Its sockets no longer belong to the record of this address.    *)
ForgetIn(cs, l) ==
  [cs EXCEPT ![l] = [k \in Slot |->
     LET c == [cs[l][k] EXCEPT !.own = FALSE]
     IN  IF dialed[l].socket = k THEN Closed(c) ELSE c]]

DisconnectPeer(l) ==
  /\ dialed[l].on
  /\ dialed' = [dialed EXCEPT ![l] = Forgotten]
  /\ conn' = ForgetIn(conn, l)
  /\ dead' = dead \ {l}
  /\ UNCHANGED <<banned, redialed>>
  /\ Mishap

-----------------------------------------------------------------------------
(* The server's connection handler; it refuses when others hold all the    *)
(* sockets, or the host is banned.                                         *)
Accept(l, k) ==
  LET c == conn[l][k]
  IN  /\ c.dialer = "wait" /\ c.acceptor = "none" /\ ~ c.closing
      /\ \/ conn' = [conn EXCEPT ![l][k].acceptor = "open"] /\ NoMishap
         \/ conn' = [conn EXCEPT ![l][k] = Closed([c EXCEPT !.acceptor = "gone"])] /\ Mishap
      /\ UNCHANGED <<dialed, banned, dead, redialed>>

(* The dialling end opens and says HELLO.                                  *)
Open(l, k) ==
  /\ conn[l][k].dialer = "wait" /\ conn[l][k].acceptor # "none"
  /\ conn' = [conn EXCEPT ![l][k].dialer = "open"]
  /\ UNCHANGED <<dialed, banned, dead, redialed, mishaps>>

(* The close event of the dialling end: the record the socket was made for *)
(* loses its socket, whichever that is, and if the address has a record    *)
(* it is dialled again (scheduleReconnect).                                *)
DialerClosed(l, k) ==
  LET c == conn[l][k]
      r == IF c.own THEN [dialed[l] EXCEPT !.socket = 0] ELSE dialed[l]
  IN  /\ c.closing /\ k \in Dialers(l)
      /\ conn' = [conn EXCEPT ![l][k] =
           Swept([c EXCEPT !.dialer = IF c.dialer = "wait" THEN "failed" ELSE "gone"])]
      /\ dialed' = [dialed EXCEPT ![l] = [r EXCEPT !.timer = r.on]]
      /\ dead' = dead \ {l}
      /\ UNCHANGED <<banned, redialed, mishaps>>

(* The close event of the accepting end.                                   *)
AcceptorClosed(l, k) ==
  /\ conn[l][k].closing /\ conn[l][k].acceptor \in Live
  /\ conn' = [conn EXCEPT ![l][k] = Swept([@ EXCEPT !.acceptor = "gone"])]
  /\ UNCHANGED <<dialed, banned, dead, redialed, mishaps>>

-----------------------------------------------------------------------------
(* The dialling end reads HELLO.                                           *)
DialerHello(l, k) ==
  /\ conn[l][k].dialer = "open" /\ conn[l][k].acceptor \in Live
  /\ conn' = [conn EXCEPT ![l][k].dialer = "met"]
  /\ UNCHANGED <<dialed, banned, dead, redialed, mishaps>>

\* Fault: both nodes keep the connection they have made.
KeepOursAlways(n) == TRUE

\* The node without a public address, or with the first one, keeps its own.
KeepOurs(n) == n \notin Public \/ n = First

(* The accepting end reads HELLO.  When its node has dialled that address  *)
(* too, one of the two connections goes: the one that came in, or the one  *)
(* it made, with its record.                                               *)
AcceptorHello(l, k) ==
  LET met == [conn EXCEPT ![l][k].acceptor = "met"]
      ours == Other(l)
      crossing == l[1] \in Public /\ dialed[ours].on
  IN  /\ conn[l][k].acceptor = "open" /\ conn[l][k].dialer \in Live \cup {"gone"}
      /\ \/ /\ ~ crossing
            /\ conn' = met /\ UNCHANGED <<dialed, dead>>
         \/ /\ crossing /\ KeepOurs(l[2])
            /\ conn' = [met EXCEPT ![l][k] = Closed(@)] /\ UNCHANGED <<dialed, dead>>
         \/ /\ crossing /\ ~ KeepOurs(l[2])
            /\ conn' = ForgetIn(met, ours)
            /\ dialed' = [dialed EXCEPT ![ours] = Forgotten]
            /\ dead' = dead \ {ours}
      /\ UNCHANGED <<banned, redialed, mishaps>>

-----------------------------------------------------------------------------
(* misbehaving past the threshold: the address is banned and the socket    *)
(* closed.  (At the accepting end the host is banned: see Break, Accept.)  *)
Ban(l, k) ==
  /\ conn[l][k].dialer \in Live
  /\ banned' = banned \cup {l}
  /\ conn' = [conn EXCEPT ![l][k] = Closed(@)]
  /\ UNCHANGED <<dialed, dead, redialed>>
  /\ Mishap

(* Another network, or another identity than the one pinned: the address   *)
(* is forgotten and the socket closed; another network is banned, too.     *)
Repudiate(l, k) ==
  /\ conn[l][k].dialer \in Live
  /\ dialed' = [dialed EXCEPT ![l] = Forgotten]
  /\ conn' = [ForgetIn(conn, l) EXCEPT ![l][k] = Closed(@)]
  /\ dead' = dead \ {l}
  /\ banned' \in {banned, banned \cup {l}}
  /\ UNCHANGED <<redialed>>
  /\ Mishap

(* A ban ends after BAN_DURATION, or with all the others by clearBans.     *)
BanEnds(l) ==
  /\ l \in banned /\ banned' = banned \ {l}
  /\ UNCHANGED <<dialed, conn, dead, redialed, mishaps>>

(* A connection breaks or is not made, or the accepting node bans it.      *)
Break(l, k) ==
  /\ conn[l][k].dialer # "none" /\ ~ conn[l][k].closing
  /\ conn' = [conn EXCEPT ![l][k] = Closed(@)]
  /\ UNCHANGED <<dialed, banned, dead, redialed>>
  /\ Mishap

SocketStep(l, k) ==
  \/ Accept(l, k) \/ Open(l, k) \/ DialerClosed(l, k) \/ AcceptorClosed(l, k)
  \/ DialerHello(l, k) \/ AcceptorHello(l, k)

PeersNext ==
  \/ \E l \in Pairs : \/ ConnectByHand(l) \/ HandlePeersResponse(l) \/ Reconnect(l)
                       \/ DisconnectPeer(l) \/ BanEnds(l)
  \/ \E l \in Pairs, k \in Slot : SocketStep(l, k) \/ Ban(l, k) \/ Repudiate(l, k) \/ Break(l, k)

(* Sockets and timers make progress, and bans end.                         *)
PeersFairness ==
  /\ \A l \in Pairs : WF_peersVars(Reconnect(l))
  /\ \A l \in Pairs, k \in Slot : WF_peersVars(SocketStep(l, k))
  /\ \A l \in Pairs : WF_peersVars(BanEnds(l))

PeersSpec == PeersInit /\ [][PeersNext]_peersVars /\ PeersFairness

-----------------------------------------------------------------------------
End == {"none", "wait", "open", "met", "failed", "gone"}

(* Types; an address without a record has no timer and no socket, and a    *)
(* socket that belongs to a record belongs to one that is there.           *)
PeersTypeOK ==
  /\ dialed \in [Pairs -> [on : BOOLEAN, timer : BOOLEAN, socket : 0..MAX_SOCKETS]]
  /\ conn \in [Pairs -> [Slot -> [dialer : End, acceptor : End, closing : BOOLEAN, own : BOOLEAN]]]
  /\ banned \cup dead \cup redialed \subseteq Pairs
  /\ \A l \in Pairs :
       /\ dialed[l].on \/ dialed[l] = Forgotten
       /\ \A k \in Dialers(l) : conn[l][k].own => dialed[l].on

(* A dialled address is never lost from sight: it has a socket whose close *)
(* will be heard, or a timer, unless a ban stood in the way of its dial;   *)
(* and the records and sockets fit together.                               *)
DialsAlive ==
  /\ PeersTypeOK
  /\ \A l \in Pairs : dialed[l].on => dialed[l].timer \/ l \in dead \/ Dialers(l) # {}

(* "Do not connect again to a peer that is connected" (p2p.js:85-86): a    *)
(* node makes one socket to an address at a time, unless it dialled it     *)
(* anew too early.                                                         *)
OneSocketPerAddress == \A l \in Pairs : l \notin redialed => Cardinality(Dialers(l)) <= 1

Linked(l, k) ==
  conn[l][k].dialer \in Live /\ conn[l][k].acceptor \in Live /\ ~ conn[l][k].closing

(* However the two dial, cross, break and ban: once nothing breaks any     *)
(* more and one of them still dials the other, exactly one connection      *)
(* remains of those two nodes, unless one dialled anew too early.          *)
Settles ==
  <>[](dead = {} /\ redialed = {} /\ (\E l \in Pairs : dialed[l].on)
         => Cardinality({c \in Pairs \X Slot : Linked(c[1], c[2])}) = 1)
=============================================================================
