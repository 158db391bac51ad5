---------------------------- MODULE PeersProofs ----------------------------
(***************************************************************************)
(* Two nodes that dial each other: no dialled address is lost from sight,  *)
(* and a node makes one socket to an address at a time.                    *)
(***************************************************************************)
EXTENDS Peers, FiniteSetTheorems, WellFoundedInduction, TLAPS

Sock == [dialer : End, acceptor : End, closing : BOOLEAN, own : BOOLEAN]
Record == [on : BOOLEAN, timer : BOOLEAN, socket : 0..MAX_SOCKETS]

(* An address dialled in time has one socket at most, and none while its   *)
(* timer runs: the next dial meets no socket of the last one.              *)
Single(l) ==
  l \notin redialed =>
    /\ \A j, k \in Dialers(l) : j = k
    /\ dialed[l].timer => Dialers(l) = {}

(* Sockets of which none is opened, ended or given to another record.      *)
SameEnds(cs) ==
  /\ cs \in [Pairs -> [Slot -> Sock]]
  /\ \A l \in Pairs, k \in Slot :
       /\ cs[l][k].dialer \in Live \cup {"wait"} <=> conn[l][k].dialer \in Live \cup {"wait"}
       /\ cs[l][k].own => conn[l][k].own

PeersInv == DialsAlive /\ \A l \in Pairs : Single(l)

-----------------------------------------------------------------------------
(* A nonempty set of numbers has a least one.                              *)
LEMMA LeastSlot ==
  ASSUME NEW T \in SUBSET Slot, T # {}
  PROVE  Min(T) \in T
<1>1. Slot \subseteq Nat
  BY PeersConstants DEF Slot
<1>2. PICK x \in T : \A y \in T : ~ (<<y, x>> \in OpToRel(<, Nat))
  BY <1>1, NatLessThanWellFounded, WFMin
<1>3. ASSUME NEW y \in T PROVE x =< y
  <2>1. ~ (y < x)
    BY <1>1, <1>2 DEF OpToRel
  <2> QED
    BY <2>1, <1>1
<1> QED
  BY <1>3 DEF Min

(* The state of the records and sockets, in the words the steps use.       *)
LEMMA TypesAre ==
  PeersTypeOK <=>
    /\ dialed \in [Pairs -> Record] /\ conn \in [Pairs -> [Slot -> Sock]]
    /\ banned \cup dead \cup redialed \subseteq Pairs
    /\ \A l \in Pairs :
         /\ dialed[l].on \/ dialed[l] = Forgotten
         /\ \A k \in Dialers(l) : conn[l][k].own => dialed[l].on
BY DEF PeersTypeOK, Sock, Record

(* A step that opens no socket and ends none, and at most forgets          *)
(* addresses whose sockets it disowns, keeps the invariant.                *)
LEMMA SameSockets ==
  ASSUME PeersInv,
         SameEnds(conn'), dialed' \in [Pairs -> Record],
         \A l \in Pairs : \/ dialed'[l] = dialed[l]
                          \/ dialed'[l] = Forgotten /\ \A k \in Slot : ~ conn'[l][k].own,
         \A l \in Pairs : l \in dead /\ dialed'[l].on => l \in dead',
         dead' \subseteq Pairs, banned' \subseteq Pairs, redialed' = redialed
  PROVE  PeersInv'
<1>1. PeersTypeOK
  BY DEF PeersInv, DialsAlive
<1>2. Forgotten.on = FALSE /\ Forgotten.timer = FALSE
  BY DEF Forgotten
<1>3. \A l \in Pairs : Dialers(l) \subseteq Slot
  BY DEF Dialers
<1>4. /\ conn' \in [Pairs -> [Slot -> Sock]]
      /\ \A l \in Pairs : Dialers(l)' = Dialers(l)
      /\ \A l \in Pairs : \A k \in Slot : conn'[l][k].own => conn[l][k].own
  BY DEF SameEnds, Dialers
<1>5. PeersTypeOK'
  <2>1. /\ banned' \cup dead' \cup redialed' \subseteq Pairs
        /\ \A l \in Pairs : dialed'[l].on \/ dialed'[l] = Forgotten
    BY <1>1, TypesAre
  <2>2. ASSUME NEW l \in Pairs, NEW k \in Dialers(l)', conn'[l][k].own PROVE dialed'[l].on
    <3>1. k \in Dialers(l) /\ k \in Slot
      BY <1>3, <1>4
    <3>2. conn[l][k].own /\ dialed[l].on
      BY <2>2, <3>1, <1>1, <1>4, TypesAre
    <3> QED
      BY <2>2, <3>1, <3>2
  <2> QED
    BY <2>1, <2>2, <1>4 DEF PeersTypeOK, Sock, Record
<1>6. \A l \in Pairs : dialed'[l].on => dialed'[l].timer \/ l \in dead' \/ Dialers(l)' # {}
  BY <1>2, <1>4 DEF PeersInv, DialsAlive
<1>7. \A l \in Pairs : Single(l)'
  BY <1>2, <1>4 DEF PeersInv, Single
<1> QED
  BY <1>5, <1>6, <1>7 DEF PeersInv, DialsAlive
(* Changing one socket is such a step.                                     *)
LEMMA SetKeeps ==
  ASSUME NEW cs, SameEnds(cs), NEW l \in Pairs, NEW k \in Slot, NEW c \in Sock,
         c.dialer \in Live \cup {"wait"} <=> cs[l][k].dialer \in Live \cup {"wait"},
         c.own => cs[l][k].own
  PROVE  SameEnds([cs EXCEPT ![l][k] = c])
<1> DEFINE ds == [cs EXCEPT ![l][k] = c]
<1>1. cs \in [Pairs -> [Slot -> Sock]]
  BY DEF SameEnds
<1>2. ds \in [Pairs -> [Slot -> Sock]]
  BY <1>1
<1>3. ASSUME NEW m \in Pairs, NEW j \in Slot
      PROVE  ds[m][j] = IF m = l /\ j = k THEN c ELSE cs[m][j]
  BY <1>1
<1> HIDE DEF ds
<1>4. ASSUME NEW m \in Pairs, NEW j \in Slot
      PROVE  /\ ds[m][j].dialer \in Live \cup {"wait"} <=> conn[m][j].dialer \in Live \cup {"wait"}
             /\ ds[m][j].own => conn[m][j].own
  BY <1>3 DEF SameEnds
<1>5. SameEnds(ds)
  BY <1>2, <1>4 DEF SameEnds
<1> QED
  BY <1>5 DEF ds

(* Forgetting disowns the sockets of one address.                          *)
LEMMA ForgetKeeps ==
  ASSUME NEW cs, SameEnds(cs), NEW l \in Pairs
  PROVE  SameEnds(ForgetIn(cs, l)) /\ \A k \in Slot : ~ ForgetIn(cs, l)[l][k].own
<1> DEFINE c(k) == [cs[l][k] EXCEPT !.own = FALSE]
           d(k) == IF dialed[l].socket = k THEN Closed(c(k)) ELSE c(k)
           ds == ForgetIn(cs, l)
<1>1. cs \in [Pairs -> [Slot -> Sock]]
  BY DEF SameEnds
<1>2. ASSUME NEW k \in Slot
      PROVE  d(k) \in Sock /\ d(k).dialer = cs[l][k].dialer /\ d(k).own = FALSE
  <2>1. cs[l][k] \in Sock
    BY <1>1
  <2>2. c(k) \in Sock /\ c(k).dialer = cs[l][k].dialer /\ c(k).own = FALSE
    BY <2>1 DEF Sock
  <2> HIDE DEF c
  <2>3. Closed(c(k)) \in Sock /\ Closed(c(k)).dialer = c(k).dialer /\ Closed(c(k)).own = c(k).own
    BY <2>2 DEF Sock, Closed
  <2> QED
    BY <2>2, <2>3
<1>3. ds = [cs EXCEPT ![l] = [k \in Slot |-> d(k)]]
  BY DEF ForgetIn
<1> HIDE DEF d, ds
<1>4. ds \in [Pairs -> [Slot -> Sock]]
  <2>1. [k \in Slot |-> d(k)] \in [Slot -> Sock]
    BY <1>2
  <2> QED
    BY <2>1, <1>1, <1>3
<1>5. /\ \A k \in Slot : ds[l][k] = d(k)
      /\ \A m \in Pairs : m # l => ds[m] = cs[m]
  BY <1>1, <1>3
<1>6. ASSUME NEW m \in Pairs, NEW j \in Slot
      PROVE  /\ ds[m][j].dialer \in Live \cup {"wait"} <=> conn[m][j].dialer \in Live \cup {"wait"}
             /\ ds[m][j].own => conn[m][j].own
  <2>1. /\ cs[m][j].dialer \in Live \cup {"wait"} <=> conn[m][j].dialer \in Live \cup {"wait"}
        /\ cs[m][j].own => conn[m][j].own
    BY DEF SameEnds
  <2>2. ds[m][j].dialer = cs[m][j].dialer /\ (ds[m][j].own => cs[m][j].own)
    <3>1. CASE m = l
      BY <3>1, <1>2, <1>5
    <3>2. CASE m # l
      BY <3>2, <1>5
    <3> QED
      BY <3>1, <3>2
  <2> QED
    BY <2>1, <2>2
<1>7. SameEnds(ds) /\ \A k \in Slot : ~ ds[l][k].own
  BY <1>2, <1>4, <1>5, <1>6 DEF SameEnds
<1> QED
  BY <1>7 DEF ds
(* The sockets themselves are such sockets, and have their types.          *)
LEMMA SocketsHave ==
  ASSUME PeersInv
  PROVE  /\ SameEnds(conn) /\ conn \in [Pairs -> [Slot -> Sock]]
         /\ dialed \in [Pairs -> Record] /\ dead \subseteq Pairs /\ banned \subseteq Pairs
         /\ redialed \subseteq Pairs
BY TypesAre DEF PeersInv, DialsAlive, SameEnds

(* The names of the states of an end.                                      *)
LEMMA Ends ==
  /\ Live \subseteq End /\ "gone" \in End /\ "none" \in End /\ "failed" \in End
  /\ "open" \in Live /\ "met" \in Live /\ "wait" \notin Live
  /\ "gone" \notin Live \cup {"wait"} /\ "failed" \notin Live \cup {"wait"}
  /\ "none" \notin Live \cup {"wait"}
BY DEF Live, End

(* Sockets are accepted, opened, greeted on, closed or broken.             *)
LEMMA SocketKeeps ==
  ASSUME PeersInv, NEW l \in Pairs, NEW k \in Slot,
         Accept(l, k) \/ Open(l, k) \/ AcceptorClosed(l, k) \/ DialerHello(l, k) \/ Ban(l, k) \/ Break(l, k)
  PROVE  PeersInv'
<1> DEFINE c == conn[l][k]
<1>1. c \in Sock
  BY SocketsHave
<1>2. PICK d \in Sock :
        /\ conn' = [conn EXCEPT ![l][k] = d]
        /\ d.dialer \in Live \cup {"wait"} <=> c.dialer \in Live \cup {"wait"}
        /\ d.own => c.own
  <2>1. CASE Accept(l, k)
    <3>1. CASE conn' = [conn EXCEPT ![l][k].acceptor = "open"]
      <4>1. [c EXCEPT !.acceptor = "open"] \in Sock
        BY <1>1, Ends DEF Sock
      <4> QED
        BY <3>1, <4>1, <1>1 DEF Sock
    <3>2. CASE conn' = [conn EXCEPT ![l][k] = Closed([c EXCEPT !.acceptor = "gone"])]
      <4> DEFINE d == [c EXCEPT !.acceptor = "gone", !.closing = TRUE]
      <4>1. d \in Sock /\ d.dialer = c.dialer /\ d.own = c.own
        BY <1>1, Ends DEF Sock
      <4>2. Closed([c EXCEPT !.acceptor = "gone"]) = d
        BY <1>1 DEF Closed, Sock
      <4> QED
        BY <3>2, <4>1, <4>2
    <3> QED
      BY <2>1, <3>1, <3>2 DEF Accept
  <2>2. CASE Open(l, k)
    <3> DEFINE d == [c EXCEPT !.dialer = "open"]
    <3>1. d \in Sock /\ d.dialer = "open" /\ d.own = c.own /\ c.dialer = "wait"
      BY <1>1, <2>2, Ends DEF Sock, Open
    <3>2. conn' = [conn EXCEPT ![l][k] = d]
      BY <2>2 DEF Open
    <3> QED
      BY <3>1, <3>2, Ends
  <2>3. CASE AcceptorClosed(l, k)
    <3> DEFINE d == [c EXCEPT !.acceptor = "gone"]
    <3>1. d \in Sock /\ d.dialer = c.dialer /\ d.own = c.own
      BY <1>1, Ends DEF Sock
    <3>2. NoSocket \in Sock /\ NoSocket.dialer = "none" /\ NoSocket.own = FALSE
      BY Ends DEF Sock, NoSocket
    <3>3. conn' = [conn EXCEPT ![l][k] = Swept(d)]
      BY <2>3 DEF AcceptorClosed
    <3> HIDE DEF d
    <3>4. CASE Swept(d) = d
      BY <3>1, <3>3, <3>4
    <3>5. CASE Swept(d) # d
      <4>1. Swept(d) = NoSocket /\ c.dialer \in {"failed", "gone"}
        BY <3>1, <3>5 DEF Swept
      <4> QED
        BY <4>1, <3>2, <3>3, Ends
    <3> QED
      BY <3>4, <3>5
  <2>4. CASE DialerHello(l, k)
    <3> DEFINE d == [c EXCEPT !.dialer = "met"]
    <3>1. d \in Sock /\ d.dialer = "met" /\ d.own = c.own /\ c.dialer = "open"
      BY <1>1, <2>4, Ends DEF Sock, DialerHello
    <3>2. conn' = [conn EXCEPT ![l][k] = d]
      BY <2>4 DEF DialerHello
    <3> QED
      BY <3>1, <3>2, Ends
  <2>5. CASE Ban(l, k) \/ Break(l, k)
    <3>1. Closed(c) \in Sock /\ Closed(c).dialer = c.dialer /\ Closed(c).own = c.own
      BY <1>1 DEF Sock, Closed
    <3>2. conn' = [conn EXCEPT ![l][k] = Closed(c)]
      BY <2>5 DEF Ban, Break
    <3> QED
      BY <3>1, <3>2
  <2> QED
    BY <2>1, <2>2, <2>3, <2>4, <2>5
<1>3. SameEnds(conn')
  <2> DEFINE ds == [conn EXCEPT ![l][k] = d]
  <2>1. SameEnds(ds)
    BY <1>2, SocketsHave, SetKeeps
  <2> QED
    BY <1>2, <2>1
<1>4. dialed' = dialed /\ dead' = dead /\ redialed' = redialed /\ banned' \subseteq Pairs
  BY SocketsHave DEF Accept, Open, AcceptorClosed, DialerHello, Ban, Break
<1> QED
  BY <1>3, <1>4, SocketsHave, SameSockets

(* Addresses are forgotten: by hand, for another network, or when the      *)
(* connection of the other node is kept.                                   *)
LEMMA ForgettingKeeps ==
  ASSUME PeersInv, NEW l \in Pairs, SameEnds(conn'),
         \A k \in Slot : ~ conn'[l][k].own,
         dialed' = [dialed EXCEPT ![l] = Forgotten], dead' = dead \ {l},
         redialed' = redialed, banned' \subseteq Pairs
  PROVE  PeersInv'
<1>1. Forgotten \in Record /\ Forgotten.on = FALSE
  BY PeersConstants DEF Forgotten, Record
<1>2. dialed' \in [Pairs -> Record]
  BY <1>1, SocketsHave
<1>3. dialed'[l] = Forgotten /\ \A m \in Pairs : m # l => dialed'[m] = dialed[m]
  BY SocketsHave
<1> QED
  BY <1>1, <1>2, <1>3, SocketsHave, SameSockets
(* disconnectPeer, by hand.                                               *)
LEMMA DisconnectKeeps ==
  ASSUME PeersInv, NEW l \in Pairs, DisconnectPeer(l)
  PROVE  PeersInv'
<1>1. SameEnds(conn') /\ \A k \in Slot : ~ conn'[l][k].own
  BY SocketsHave, ForgetKeeps DEF DisconnectPeer
<1> QED
  BY <1>1, SocketsHave, ForgettingKeeps DEF DisconnectPeer

(* Another network or another identity.                                    *)
LEMMA RepudiateKeeps ==
  ASSUME PeersInv, NEW l \in Pairs, NEW k \in Slot, Repudiate(l, k)
  PROVE  PeersInv'
<1> DEFINE cs == ForgetIn(conn, l)
           d == Closed(cs[l][k])
<1>1. SameEnds(cs) /\ \A j \in Slot : ~ cs[l][j].own
  BY SocketsHave, ForgetKeeps
<1>2. conn' = [cs EXCEPT ![l][k] = d]
  BY DEF Repudiate
<1> HIDE DEF cs
<1>3. cs \in [Pairs -> [Slot -> Sock]]
  BY <1>1 DEF SameEnds
<1>4. d \in Sock /\ d.dialer = cs[l][k].dialer /\ d.own = cs[l][k].own
  <2>1. cs[l][k] \in Sock
    BY <1>3, Zenon
  <2> QED
    BY ONLY <2>1 DEF Sock, Closed
<1> HIDE DEF d
<1>5. SameEnds(conn')
  BY <1>1, <1>2, <1>4, SetKeeps
<1>6. \A j \in Slot : ~ conn'[l][j].own
  BY <1>1, <1>2, <1>3, <1>4
<1>7. /\ dialed' = [dialed EXCEPT ![l] = Forgotten] /\ dead' = dead \ {l}
      /\ redialed' = redialed /\ banned' \subseteq Pairs
  BY SocketsHave DEF Repudiate
<1> QED
  BY <1>5, <1>6, <1>7, ForgettingKeeps

(* HELLO at the accepting end, crossing connections with it.               *)
LEMMA AcceptorHelloKeeps ==
  ASSUME PeersInv, NEW l \in Pairs, NEW k \in Slot, AcceptorHello(l, k)
  PROVE  PeersInv'
<1> DEFINE c == [conn[l][k] EXCEPT !.acceptor = "met"]
           met == [conn EXCEPT ![l][k].acceptor = "met"]
           ours == Other(l)
<1>1. c \in Sock /\ c.dialer = conn[l][k].dialer /\ c.own = conn[l][k].own
  BY SocketsHave, Ends DEF Sock
<1>2. met = [conn EXCEPT ![l][k] = c]
  OBVIOUS
<1> HIDE DEF c
<1>3. SameEnds(met) /\ met[l][k] = c
  BY <1>1, <1>2, SocketsHave, SetKeeps
<1>4. ours \in Pairs
  BY DEF Pairs, Other
<1>5. redialed' = redialed /\ banned' = banned
  BY DEF AcceptorHello
<1> HIDE DEF met, ours
<1>6. CASE conn' = met /\ dialed' = dialed /\ dead' = dead
  BY <1>3, <1>5, <1>6, SocketsHave, SameSockets
<1>7. CASE conn' = [met EXCEPT ![l][k] = Closed(met[l][k])] /\ dialed' = dialed /\ dead' = dead
  <2> DEFINE d == Closed(met[l][k])
  <2>1. d \in Sock /\ d.dialer = met[l][k].dialer /\ d.own = met[l][k].own
    BY <1>1, <1>3 DEF Closed, Sock
  <2> HIDE DEF d
  <2>2. SameEnds([met EXCEPT ![l][k] = d])
    BY <2>1, <1>3, SetKeeps
  <2>3. SameEnds(conn')
    BY <2>2, <1>7 DEF d
  <2> QED
    BY <2>3, <1>5, <1>7, SocketsHave, SameSockets
<1>8. CASE conn' = ForgetIn(met, ours) /\ dialed' = [dialed EXCEPT ![ours] = Forgotten]
             /\ dead' = dead \ {ours}
  <2>1. SameEnds(conn') /\ \A j \in Slot : ~ conn'[ours][j].own
    BY <1>3, <1>4, <1>8, ForgetKeeps
  <2> QED
    BY <2>1, <1>4, <1>5, <1>8, SocketsHave, ForgettingKeeps
<1> QED
  BY <1>6, <1>7, <1>8 DEF AcceptorHello, met, ours

-----------------------------------------------------------------------------
(* A dial makes a socket, is put off, or meets a ban: the address keeps a  *)
(* record r, whose timer does not run.                                     *)
LEMMA DialKeeps ==
  ASSUME PeersInv, NEW l \in Pairs, NEW r \in Record, r.on, ~ r.timer,
         MeetBan(l, r) \/ PutOff(l, r) \/ MakeSocket(l, r),
         banned' = banned, redialed \subseteq redialed', redialed' \subseteq Pairs,
         \A m \in Pairs : m # l /\ m \in redialed' => m \in redialed,
         l \notin redialed' => Dialers(l) = {}
  PROVE  PeersInv'
<1>1. PeersTypeOK /\ \A m \in Pairs : Single(m)
  BY DEF PeersInv, DialsAlive
<1>2. PICK t \in Record :
        /\ dialed' = [dialed EXCEPT ![l] = t] /\ t.on
        /\ \/ MeetBan(l, r) /\ t = r
           \/ PutOff(l, r) /\ t.timer
           \/ MakeSocket(l, r) /\ ~ t.timer
  <2>1. CASE MeetBan(l, r)
    BY <2>1 DEF MeetBan
  <2>2. CASE PutOff(l, r)
    <3> DEFINE t == [r EXCEPT !.timer = TRUE]
    <3>1. t \in Record /\ t.on /\ t.timer
      BY DEF Record
    <3>2. dialed' = [dialed EXCEPT ![l] = t]
      BY <2>2 DEF PutOff
    <3> QED
      BY <2>2, <3>1, <3>2
  <2>3. CASE MakeSocket(l, r)
    <3> DEFINE k == Min(Free(l))
               t == [r EXCEPT !.socket = k]
    <3>1. k \in Slot
      BY <2>3, LeastSlot DEF MakeSocket, Free
    <3>2. k \in 0..MAX_SOCKETS
      BY <3>1, PeersConstants DEF Slot
    <3> HIDE DEF k
    <3>3. t \in Record /\ t.on /\ ~ t.timer
      BY <3>2 DEF Record
    <3>4. dialed' = [dialed EXCEPT ![l] = t]
      BY <2>3 DEF MakeSocket, k
    <3> QED
      BY <2>3, <3>3, <3>4
  <2> QED
    BY <2>1, <2>2, <2>3
<1>3. dialed' \in [Pairs -> Record] /\ dialed'[l] = t
      /\ \A m \in Pairs : m # l => dialed'[m] = dialed[m]
  BY <1>2, SocketsHave
<1>4. CASE MeetBan(l, r) \/ PutOff(l, r)
  <2>1. conn' = conn /\ dead \subseteq dead' /\ dead' \subseteq Pairs
    BY <1>4, SocketsHave DEF MeetBan, PutOff
  <2>2. \A m \in Pairs : Dialers(m)' = Dialers(m)
    BY <2>1 DEF Dialers
  <2>3. PeersTypeOK'
    BY <1>1, <1>2, <1>3, <2>1, <2>2, SocketsHave DEF PeersTypeOK, Record, Sock
  <2>4. ASSUME NEW m \in Pairs, dialed'[m].on
        PROVE  dialed'[m].timer \/ m \in dead' \/ Dialers(m)' # {}
    <3>1. CASE m # l
      BY <3>1, <2>1, <2>2, <2>4, <1>3 DEF PeersInv, DialsAlive
    <3>2. CASE m = l /\ MeetBan(l, r)
      BY <3>2 DEF MeetBan
    <3>3. CASE m = l /\ ~ MeetBan(l, r)
      <4>1. PutOff(l, r)
        BY <3>3, <1>4
      <4>2. t.timer
        <5>1. dialed'[l] = [r EXCEPT !.timer = TRUE]
          BY <4>1, SocketsHave DEF PutOff
        <5> QED
          BY <5>1, <1>3 DEF Record
      <4> QED
        BY <3>3, <4>2, <1>3
    <3> QED
      BY <3>1, <3>2, <3>3
  <2>5. ASSUME NEW m \in Pairs PROVE Single(m)'
    <3>1. CASE m # l
      BY <3>1, <2>2, <1>1, <1>3 DEF Single
    <3>2. CASE m = l
      BY <3>2, <2>2, <1>3 DEF Single
    <3> QED
      BY <3>1, <3>2
  <2> QED
    BY <2>3, <2>4, <2>5 DEF PeersInv, DialsAlive
<1>5. CASE MakeSocket(l, r) /\ ~ t.timer
  <2> DEFINE k == Min(Free(l))
  <2>1. k \in Slot
    BY <1>5, LeastSlot DEF MakeSocket, Free
  <2>2. conn' = [conn EXCEPT ![l][k] = Dialing] /\ dead' = dead
    BY <1>5 DEF MakeSocket
  <2> HIDE DEF k
  <2>3. Dialing \in Sock /\ Dialing.dialer = "wait"
    BY DEF Dialing, NoSocket, Sock, End
  <2>4. conn' \in [Pairs -> [Slot -> Sock]] /\ conn'[l][k] = Dialing
        /\ \A m \in Pairs, j \in Slot : m # l \/ j # k => conn'[m][j] = conn[m][j]
    BY <2>1, <2>2, <2>3, SocketsHave
  <2>5. /\ Dialers(l)' = Dialers(l) \cup {k}
        /\ \A m \in Pairs : m # l => Dialers(m)' = Dialers(m)
    BY <2>1, <2>3, <2>4 DEF Dialers
  <2>6. ASSUME NEW m \in Pairs, NEW j \in Dialers(m)', conn'[m][j].own PROVE dialed'[m].on
    <3>1. CASE m = l
      BY <3>1, <1>2, <1>3
    <3>2. CASE m # l
      <4>1. j \in Dialers(m) /\ conn'[m][j] = conn[m][j]
        BY <3>2, <2>4, <2>5 DEF Dialers
      <4> QED
        BY <3>2, <4>1, <2>6, <1>1, <1>3, TypesAre
    <3> QED
      BY <3>1, <3>2
  <2>7. PeersTypeOK'
    <3>1. \A m \in Pairs : dialed'[m].on \/ dialed'[m] = Forgotten
      BY <1>1, <1>2, <1>3, TypesAre
    <3> QED
      BY <3>1, <1>3, <2>2, <2>4, <2>6, SocketsHave DEF PeersTypeOK, Record, Sock
  <2>8. ASSUME NEW m \in Pairs, dialed'[m].on
        PROVE  dialed'[m].timer \/ m \in dead' \/ Dialers(m)' # {}
    BY <2>2, <2>5, <2>8, <1>3 DEF PeersInv, DialsAlive
  <2>9. ASSUME NEW m \in Pairs PROVE Single(m)'
    <3>1. CASE m # l
      BY <3>1, <2>5, <1>1, <1>3 DEF Single
    <3>2. CASE m = l
      <4>1. l \notin redialed' => Dialers(l)' = {k}
        BY <2>5
      <4> QED
        BY <3>2, <4>1, <1>3, <1>5 DEF Single
    <3> QED
      BY <3>1, <3>2
  <2> QED
    BY <2>7, <2>8, <2>9 DEF PeersInv, DialsAlive
<1> QED
  BY <1>2, <1>4, <1>5
(* The close event of a socket: its record dials again.                    *)
LEMMA DialerClosedKeeps ==
  ASSUME PeersInv, NEW l \in Pairs, NEW k \in Slot, DialerClosed(l, k)
  PROVE  PeersInv'
<1> DEFINE c == conn[l][k]
           r == IF c.own THEN [dialed[l] EXCEPT !.socket = 0] ELSE dialed[l]
           t == [r EXCEPT !.timer = r.on]
           e == [c EXCEPT !.dialer = IF c.dialer = "wait" THEN "failed" ELSE "gone"]
           d == Swept(e)
<1>1. PeersTypeOK /\ \A m \in Pairs : Single(m)
  BY DEF PeersInv, DialsAlive
<1>2. /\ k \in Dialers(l)
      /\ conn' = [conn EXCEPT ![l][k] = d] /\ dialed' = [dialed EXCEPT ![l] = t]
      /\ dead' = dead \ {l} /\ banned' = banned /\ redialed' = redialed
  BY DEF DialerClosed
<1>3. c \in Sock /\ dialed[l] \in Record
  BY SocketsHave
<1>4. r \in Record /\ r.on = dialed[l].on
  <2>1. 0 \in 0..MAX_SOCKETS
    BY PeersConstants
  <2>2. [dialed[l] EXCEPT !.socket = 0] \in Record /\ [dialed[l] EXCEPT !.socket = 0].on = dialed[l].on
    BY <1>3, <2>1 DEF Record
  <2> QED
    BY <1>3, <2>2
<1>5. t \in Record /\ t.on = dialed[l].on /\ t.timer = dialed[l].on
  <2> HIDE DEF r
  <2> QED
    BY <1>4 DEF Record
<1>6. d \in Sock /\ d.dialer \notin Live \cup {"wait"} /\ (d.own => c.own)
  <2>1. e \in Sock /\ e.dialer \in {"failed", "gone"} /\ e.own = c.own
    BY <1>3, Ends DEF Sock
  <2>2. NoSocket \in Sock /\ NoSocket.dialer = "none" /\ NoSocket.own = FALSE
    BY Ends DEF Sock, NoSocket
  <2> HIDE DEF e
  <2> QED
    BY <2>1, <2>2, Ends DEF Swept
<1>7. t = Forgotten \/ t.on
  <2>1. CASE dialed[l].on
    BY <2>1, <1>5
  <2>2. CASE ~ dialed[l].on
    <3>1. dialed[l] = Forgotten /\ ~ c.own
      BY <2>2, <1>1, <1>2, TypesAre
    <3>2. [Forgotten EXCEPT !.timer = FALSE] = Forgotten /\ Forgotten.on = FALSE
      <4>1. Forgotten \in Record /\ Forgotten.timer = FALSE /\ Forgotten.on = FALSE
        BY PeersConstants DEF Forgotten, Record
      <4>2. \A f \in Record : f.timer = FALSE => [f EXCEPT !.timer = FALSE] = f
        BY DEF Record
      <4> QED
        BY <4>1, <4>2
    <3>3. r = Forgotten
      BY <3>1
    <3> HIDE DEF r
    <3> QED
      BY <3>2, <3>3
  <2> QED
    BY <2>1, <2>2
<1> HIDE DEF r, t, e, d, c
<1>8. dialed' \in [Pairs -> Record] /\ dialed'[l] = t
      /\ \A m \in Pairs : m # l => dialed'[m] = dialed[m]
  BY <1>2, <1>5, SocketsHave
<1>9. conn' \in [Pairs -> [Slot -> Sock]] /\ conn'[l][k] = d
      /\ \A m \in Pairs, j \in Slot : m # l \/ j # k => conn'[m][j] = conn[m][j]
  BY <1>2, <1>6, SocketsHave
<1>10. /\ Dialers(l)' = Dialers(l) \ {k}
       /\ \A m \in Pairs : m # l => Dialers(m)' = Dialers(m)
  BY <1>6, <1>9 DEF Dialers
<1>11. ASSUME NEW m \in Pairs, NEW j \in Dialers(m)', conn'[m][j].own PROVE dialed'[m].on
  <2>1. j \in Dialers(m) /\ conn'[m][j] = conn[m][j]
    BY <1>9, <1>10 DEF Dialers
  <2>2. dialed[m].on
    BY <2>1, <1>1, <1>11, TypesAre
  <2> QED
    BY <2>2, <1>5, <1>8
<1>12. PeersTypeOK'
  <2>1. \A m \in Pairs : dialed'[m].on \/ dialed'[m] = Forgotten
    BY <1>1, <1>7, <1>8, TypesAre
  <2> QED
    BY <2>1, <1>2, <1>8, <1>9, <1>11, SocketsHave DEF PeersTypeOK, Record, Sock
<1>13. ASSUME NEW m \in Pairs, dialed'[m].on
       PROVE  dialed'[m].timer \/ m \in dead' \/ Dialers(m)' # {}
  BY <1>2, <1>5, <1>8, <1>10, <1>13 DEF PeersInv, DialsAlive
<1>14. ASSUME NEW m \in Pairs PROVE Single(m)'
  <2>1. CASE m # l
    BY <2>1, <1>1, <1>2, <1>8, <1>10 DEF Single
  <2>2. CASE m = l
    BY <2>2, <1>1, <1>2, <1>10 DEF Single
  <2> QED
    BY <2>1, <2>2
<1> QED
  BY <1>12, <1>13, <1>14 DEF PeersInv, DialsAlive

(* A new record of an address.                                             *)
LEMMA ConnectKeeps ==
  ASSUME PeersInv, NEW l \in Pairs, ConnectToPeers(l)
  PROVE  PeersInv'
<1>1. NewRecord \in Record /\ NewRecord.on /\ ~ NewRecord.timer
  <2>1. Forgotten \in Record /\ ~ Forgotten.timer
    BY PeersConstants DEF Forgotten, Record
  <2> QED
    BY <2>1 DEF NewRecord, Record
<1>2. /\ MeetBan(l, NewRecord) \/ MakeSocket(l, NewRecord)
      /\ banned' = banned
      /\ (redialed' = redialed /\ Dialers(l) = {}) \/ redialed' = redialed \cup {l}
  BY DEF ConnectToPeers
<1>3. /\ redialed \subseteq redialed' /\ redialed' \subseteq Pairs
      /\ \A m \in Pairs : m # l /\ m \in redialed' => m \in redialed
      /\ l \notin redialed' => Dialers(l) = {}
  BY <1>2, SocketsHave
<1> QED
  BY <1>1, <1>2, <1>3, DialKeeps

(* The reconnect timer fires when no socket is left.                       *)
LEMMA ReconnectKeeps ==
  ASSUME PeersInv, NEW l \in Pairs, Reconnect(l)
  PROVE  PeersInv'
<1> DEFINE r == [dialed[l] EXCEPT !.timer = FALSE]
<1>1. /\ dialed[l].timer
      /\ MeetBan(l, r) \/ MakeSocket(l, r) \/ PutOff(l, r)
      /\ banned' = banned /\ redialed' = redialed
  BY DEF Reconnect
<1>2. dialed[l] \in Record /\ redialed \subseteq Pairs
  BY SocketsHave
<1>3. dialed[l].on
  BY <1>1, TypesAre DEF PeersInv, DialsAlive, Forgotten
<1>4. r \in Record /\ r.on /\ ~ r.timer
  BY <1>2, <1>3 DEF Record
<1>5. l \notin redialed => Dialers(l) = {}
  BY <1>1 DEF PeersInv, Single
<1> HIDE DEF r
<1> QED
  BY <1>1, <1>2, <1>4, <1>5, DialKeeps

-----------------------------------------------------------------------------
(* The invariant of the two nodes: types, records that fit their sockets,  *)
(* no dialled address lost, and one socket to each.                        *)
THEOREM PeersInvariant == PeersSpec => []PeersInv
<1>1. PeersInit => PeersInv
  <2> SUFFICES ASSUME PeersInit PROVE PeersInv
    OBVIOUS
  <2>1. NoSocket \in Sock /\ NoSocket.dialer = "none" /\ Forgotten \in Record
        /\ Forgotten.on = FALSE
    BY Ends, PeersConstants DEF NoSocket, Sock, Forgotten, Record
  <2>2. \A l \in Pairs : Dialers(l) = {} /\ dialed[l] = Forgotten
    BY <2>1, Ends DEF PeersInit, Dialers
  <2>3. PeersTypeOK
    BY <2>1, <2>2, TypesAre DEF PeersInit
  <2> QED
    BY <2>1, <2>2, <2>3 DEF PeersInv, DialsAlive, Single
<1>2. PeersInv /\ [PeersNext]_peersVars => PeersInv'
  <2> SUFFICES ASSUME PeersInv, [PeersNext]_peersVars PROVE PeersInv'
    OBVIOUS
  <2>1. ASSUME NEW l \in Pairs, ConnectByHand(l) \/ HandlePeersResponse(l) PROVE PeersInv'
    BY <2>1, ConnectKeeps DEF ConnectByHand, HandlePeersResponse
  <2>2. ASSUME NEW l \in Pairs, Reconnect(l) PROVE PeersInv'
    BY <2>2, ReconnectKeeps
  <2>3. ASSUME NEW l \in Pairs, DisconnectPeer(l) PROVE PeersInv'
    BY <2>3, DisconnectKeeps
  <2>4. ASSUME NEW l \in Pairs, BanEnds(l) PROVE PeersInv'
    <3>1. /\ banned' \subseteq Pairs
          /\ dialed' = dialed /\ conn' = conn /\ dead' = dead /\ redialed' = redialed
      BY <2>4, SocketsHave DEF BanEnds
    <3> QED
      BY <3>1, SocketsHave, SameSockets
  <2>5. ASSUME NEW l \in Pairs, NEW k \in Slot, SocketStep(l, k) PROVE PeersInv'
    BY <2>5, SocketKeeps, DialerClosedKeeps, AcceptorHelloKeeps DEF SocketStep
  <2>6. ASSUME NEW l \in Pairs, NEW k \in Slot, Ban(l, k) \/ Repudiate(l, k) \/ Break(l, k)
        PROVE  PeersInv'
    BY <2>6, SocketKeeps, RepudiateKeeps
  <2>7. CASE UNCHANGED peersVars
    <3>1. /\ banned' = banned
          /\ dialed' = dialed /\ conn' = conn /\ dead' = dead /\ redialed' = redialed
      BY <2>7 DEF peersVars
    <3> QED
      BY <3>1, SocketsHave, SameSockets
  <2> QED
    BY <2>1, <2>2, <2>3, <2>4, <2>5, <2>6, <2>7 DEF PeersNext
<1> QED
  BY <1>1, <1>2, PTL DEF PeersSpec

(* However the two nodes dial, cross, break, ban and forget, an address a  *)
(* node has dialled has a socket whose close will be heard or a timer,     *)
(* unless a ban stood in the way of its last dial.                         *)
THEOREM DialsStayAlive == PeersSpec => []DialsAlive
BY PeersInvariant, PTL DEF PeersInv

(* A node that does not dial an address anew too early has one socket to   *)
(* it at most: its timer never fires while the last socket is there.       *)
THEOREM OneSocket == PeersSpec => []OneSocketPerAddress
<1>1. PeersInv => OneSocketPerAddress
  <2> SUFFICES ASSUME PeersInv, NEW l \in Pairs, l \notin redialed
               PROVE  Cardinality(Dialers(l)) <= 1
    BY DEF OneSocketPerAddress
  <2>1. \A j, k \in Dialers(l) : j = k
    BY DEF PeersInv, Single
  <2>2. CASE Dialers(l) = {}
    BY <2>2, FS_EmptySet
  <2>3. ASSUME NEW k \in Dialers(l) PROVE Cardinality(Dialers(l)) <= 1
    <3>1. Dialers(l) = {k}
      BY <2>1, <2>3
    <3> QED
      BY <3>1, FS_Singleton
  <2> QED
    BY <2>2, <2>3
<1> QED
  BY <1>1, PeersInvariant, PTL

=============================================================================
