---------------------- MODULE SessionTakeover_proofs -----------------------
(***************************************************************************)
(* A takeover for any finite number of slaves: proofs of the invariants of *)
(* SessionTakeover that hold whether or not somebody edits meanwhile.      *)
(*                                                                         *)
(* Handshake, the inductive invariant, says where every slave is on its    *)
(* way from the old master to the new one (it stays, answers, leads or     *)
(* follows), and which packets are under way for each of these.  It is the *)
(* invariant of a first takeover: a second one starts with flags and       *)
(* approved buddies of the first, and there OneMaster is false.  So it is  *)
(* proved as long as only one peer has left or may leave; TypeOK needs     *)
(* nothing of it.  Flushing adds what the packets of the old session       *)
(* carry.                                                                  *)
(*                                                                         *)
(* First come lemmas on queues and on what each operator of the module     *)
(* sends, then a lemma for every action, then what a step does to the      *)
(* changes of the old session.                                             *)
(***************************************************************************)
EXTENDS SessionTakeover, TLAPS, SequenceTheorems, FiniteSetTheorems
----------------------------------------------------------------------------
(* Queues of packets. *)

(* An empty queue has nothing.                                              *)
LEMMA NothingQueued ==
  ASSUME NEW t, NEW u, NEW types
  PROVE  ~Has(<<>>, t) /\ NoneAfter(<<>>, t, u) /\ Only(<<>>, types)
BY EmptySeq DEF Has, NoneAfter, Only

(* A packet sent is the last one of its queue.                              *)
LEMMA Sent ==
  ASSUME NEW S, NEW c \in Seq(S), NEW m \in S, NEW t, NEW u, NEW types
  PROVE  /\ Append(c, m) \in Seq(S)
         /\ Has(Append(c, m), t) <=> Has(c, t) \/ m.type = t
         /\ NoneAfter(Append(c, m), t, u) <=> NoneAfter(c, t, u) /\ ~(Has(c, t) /\ m.type = u)
         /\ Only(Append(c, m), types) <=> Only(c, types) /\ m.type \in types
<1> DEFINE d == Append(c, m)
           n == Len(c)
<1>1. /\ d \in Seq(S) /\ Len(d) = n + 1 /\ n \in Nat
      /\ \A i \in 1..n : d[i] = c[i]
      /\ d[n + 1] = m
  BY AppendProperties, LenProperties
<1> HIDE DEF d
<1>2. \A i \in 1..Len(d) : (i \in 1..n /\ d[i] = c[i]) \/ (i = n + 1 /\ d[i] = m)
  BY <1>1
<1>3. n + 1 \in 1..Len(d) /\ \A i \in 1..n : i \in 1..Len(d) /\ i < n + 1
  BY <1>1
<1> HIDE DEF n
<1>4. Has(d, t) <=> (\E i \in 1..n : c[i].type = t) \/ m.type = t
  BY <1>1, <1>2, <1>3 DEF Has
<1>5. Only(d, types) <=> (\A i \in 1..n : c[i].type \in types) /\ m.type \in types
  BY <1>1, <1>2, <1>3 DEF Only
<1>6. NoneAfter(d, t, u) <=>
        /\ \A i, j \in 1..n : i < j /\ c[i].type = t => c[j].type # u
        /\ ~((\E i \in 1..n : c[i].type = t) /\ m.type = u)
  <2>1. ASSUME NoneAfter(d, t, u)
        PROVE  /\ \A i, j \in 1..n : i < j /\ c[i].type = t => c[j].type # u
               /\ ~((\E i \in 1..n : c[i].type = t) /\ m.type = u)
    BY <2>1, <1>1, <1>3 DEF NoneAfter
  <2>2. ASSUME \A i, j \in 1..n : i < j /\ c[i].type = t => c[j].type # u,
               ~((\E i \in 1..n : c[i].type = t) /\ m.type = u)
        PROVE  NoneAfter(d, t, u)
    <3> SUFFICES ASSUME NEW i \in 1..Len(d), NEW j \in 1..Len(d), i < j, d[i].type = t
                 PROVE  d[j].type # u
      BY DEF NoneAfter
    <3>1. i \in 1..n /\ d[i] = c[i]
      BY <1>1, <1>2
    <3>2. CASE j \in 1..n /\ d[j] = c[j]
      BY <2>2, <3>1, <3>2
    <3>3. CASE j = n + 1 /\ d[j] = m
      BY <2>2, <3>1, <3>3
    <3> QED BY <1>2, <3>2, <3>3
  <2> QED BY <2>1, <2>2
<1> QED BY <1>1, <1>4, <1>5, <1>6 DEF Has, Only, NoneAfter, d, n

(* A packet received was the first one of its queue.                        *)
LEMMA Taken ==
  ASSUME NEW S, NEW c \in Seq(S), c # <<>>, NEW t, NEW u, NEW types
  PROVE  /\ Tail(c) \in Seq(S) /\ Head(c) \in S
         /\ Has(c, t) <=> Has(Tail(c), t) \/ Head(c).type = t
         /\ NoneAfter(c, t, u) =>
              NoneAfter(Tail(c), t, u) /\ ~(Head(c).type = t /\ Has(Tail(c), u))
         /\ Only(c, types) => Only(Tail(c), types) /\ Head(c).type \in types
<1> DEFINE d == Tail(c)
           n == Len(c)
<1>1. n \in Nat /\ n >= 1
  BY EmptySeq, LenProperties
<1>2. /\ d \in Seq(S) /\ Len(d) = n - 1 /\ Head(c) \in S
      /\ \A i \in 1..Len(d) : d[i] = c[i + 1]
  BY HeadTailProperties, Zenon
<1>3. Head(c) = c[1]
  OBVIOUS
<1> HIDE DEF d, n
<1>4. \A i \in 1..n : i = 1 \/ (i - 1 \in 1..Len(d) /\ d[i - 1] = c[i])
  <2> SUFFICES ASSUME NEW i \in 1..n, i # 1 PROVE i - 1 \in 1..Len(d) /\ d[i - 1] = c[i]
    OBVIOUS
  <2>1. i - 1 \in 1..Len(d) /\ (i - 1) + 1 = i
    BY <1>1, <1>2
  <2> QED BY <1>2, <2>1
<1>5. 1 \in 1..n /\ \A i \in 1..Len(d) : i + 1 \in 1..n /\ 1 < i + 1 /\ d[i] = c[i + 1]
  BY <1>1, <1>2
<1>6. (\E i \in 1..n : c[i].type = t) <=> Has(d, t) \/ c[1].type = t
  BY <1>4, <1>5 DEF Has
<1>7. (\A i \in 1..n : c[i].type \in types) => Only(d, types) /\ c[1].type \in types
  BY <1>5 DEF Only
<1>8. ASSUME \A i, j \in 1..n : i < j /\ c[i].type = t => c[j].type # u
      PROVE  NoneAfter(d, t, u) /\ ~(c[1].type = t /\ Has(d, u))
  <2>1. \A i, j \in 1..Len(d) : i < j => i + 1 < j + 1
    BY <1>1, <1>2
  <2>2. NoneAfter(d, t, u)
    BY <1>5, <1>8, <2>1 DEF NoneAfter
  <2> QED BY <1>5, <1>8, <2>2 DEF Has
<1> QED BY <1>2, <1>3, <1>6, <1>7, <1>8 DEF Has, Only, NoneAfter, d, n

(* The packet of a type that is only there once is gone when it is received. *)
LEMMA TakenOnce ==
  ASSUME NEW S, NEW c \in Seq(S), c # <<>>, NEW t, NEW due, Once(c, t, due)
  PROVE  /\ Head(c).type = t => due /\ Once(Tail(c), t, FALSE)
         /\ Head(c).type # t => Once(Tail(c), t, due)
BY Taken DEF Once

(* A packet of a type that is not due is sent at most once.                 *)
LEMMA SentOnce ==
  ASSUME NEW S, NEW c \in Seq(S), NEW m \in S, NEW t, NEW due, Once(c, t, due)
  PROVE  /\ m.type = t /\ ~due => Once(Append(c, m), t, TRUE)
         /\ m.type # t => Once(Append(c, m), t, due)
BY Sent DEF Once

(* Packets sent together come after the others, in their order.             *)
LEMMA Joined ==
  ASSUME NEW S, NEW c \in Seq(S), NEW d \in Seq(S), NEW t, NEW u, NEW types
  PROVE  /\ c \o d \in Seq(S)
         /\ Has(c \o d, t) <=> Has(c, t) \/ Has(d, t)
         /\ NoneAfter(c \o d, t, u) <=>
              NoneAfter(c, t, u) /\ NoneAfter(d, t, u) /\ ~(Has(c, t) /\ Has(d, u))
         /\ Only(c \o d, types) <=> Only(c, types) /\ Only(d, types)
<1> DEFINE e == c \o d
           n == Len(c)
           k == Len(d)
<1>1. n \in Nat /\ k \in Nat
  BY LenProperties
<1>2. /\ e \in Seq(S) /\ Len(e) = n + k
      /\ \A i \in 1..(n + k) : e[i] = IF i <= n THEN c[i] ELSE d[i - n]
  BY ConcatProperties
<1> HIDE DEF e, n, k
<1>3. \A i \in 1..Len(e) : (i \in 1..n /\ e[i] = c[i]) \/ (i - n \in 1..k /\ i > n /\ e[i] = d[i - n])
  BY <1>1, <1>2
<1>4. \A i \in 1..n : i \in 1..Len(e) /\ e[i] = c[i]
  BY <1>1, <1>2
<1>5. \A j \in 1..k : n + j \in 1..Len(e) /\ e[n + j] = d[j]
  <2> SUFFICES ASSUME NEW j \in 1..k PROVE n + j \in 1..Len(e) /\ e[n + j] = d[j]
    OBVIOUS
  <2>1. n + j \in 1..(n + k) /\ ~(n + j <= n) /\ (n + j) - n = j
    BY <1>1
  <2> QED BY <1>2, <2>1
<1>6. Has(e, t) <=> (\E i \in 1..n : c[i].type = t) \/ (\E j \in 1..k : d[j].type = t)
  BY <1>3, <1>4, <1>5 DEF Has
<1>7. Only(e, types) <=> (\A i \in 1..n : c[i].type \in types) /\ (\A j \in 1..k : d[j].type \in types)
  BY <1>3, <1>4, <1>5 DEF Only
<1>8. ASSUME NoneAfter(e, t, u)
      PROVE  /\ \A i, j \in 1..n : i < j /\ c[i].type = t => c[j].type # u
             /\ \A i, j \in 1..k : i < j /\ d[i].type = t => d[j].type # u
             /\ ~((\E i \in 1..n : c[i].type = t) /\ (\E j \in 1..k : d[j].type = u))
  <2>1. \A i, j \in 1..n : i < j /\ c[i].type = t => c[j].type # u
    BY <1>4, <1>8 DEF NoneAfter
  <2>2. \A i, j \in 1..k : i < j => n + i < n + j
    BY <1>1
  <2>3. \A i, j \in 1..k : i < j /\ d[i].type = t => d[j].type # u
    BY <1>5, <1>8, <2>2 DEF NoneAfter
  <2>4. \A i \in 1..n, j \in 1..k : i < n + j
    BY <1>1
  <2>5. \A i \in 1..n, j \in 1..k : c[i].type = t => d[j].type # u
    BY <1>4, <1>5, <1>8, <2>4 DEF NoneAfter
  <2> QED BY <2>1, <2>3, <2>5
<1>9. ASSUME \A i, j \in 1..n : i < j /\ c[i].type = t => c[j].type # u,
             \A i, j \in 1..k : i < j /\ d[i].type = t => d[j].type # u,
             ~((\E i \in 1..n : c[i].type = t) /\ (\E j \in 1..k : d[j].type = u))
      PROVE  NoneAfter(e, t, u)
  <2> SUFFICES ASSUME NEW i \in 1..Len(e), NEW j \in 1..Len(e), i < j, e[i].type = t
               PROVE  e[j].type # u
    BY DEF NoneAfter
  <2>1. CASE i \in 1..n /\ e[i] = c[i]
    BY <1>3, <1>9, <2>1
  <2>2. CASE i - n \in 1..k /\ i > n /\ e[i] = d[i - n]
    <3>1. j - n \in 1..k /\ e[j] = d[j - n] /\ i - n < j - n
      BY <1>1, <1>2, <1>3, <2>2
    <3> QED BY <1>9, <2>2, <3>1
  <2> QED BY <1>3, <2>1, <2>2
<1> QED BY <1>2, <1>6, <1>7, <1>8, <1>9 DEF Has, Only, NoneAfter, e, n, k
----------------------------------------------------------------------------
(* The queues between all peers. *)

Chans == [Peers -> [Peers -> Seq(Packets)]]

(* A packet for several peers goes to each of them.                         *)
LEMMA SentAll ==
  ASSUME NEW c \in Chans, NEW p \in Peers, NEW targets, NEW m \in Packets
  PROVE  /\ SendAll(c, p, targets, m) \in Chans
         /\ \A a, b \in Peers :
              SendAll(c, p, targets, m)[a][b] =
                IF a = p /\ b \in targets THEN Append(c[a][b], m) ELSE c[a][b]
<1> DEFINE row == [q \in Peers |-> IF q \in targets THEN Append(c[p][q], m) ELSE c[p][q]]
<1>1. c[p] \in [Peers -> Seq(Packets)] /\ \A q \in Peers : c[p][q] \in Seq(Packets)
  BY DEF Chans
<1>2. \A q \in Peers : Append(c[p][q], m) \in Seq(Packets)
  BY <1>1, AppendProperties
<1>3. row \in [Peers -> Seq(Packets)]
  BY <1>1, <1>2
<1>4. SendAll(c, p, targets, m) = [c EXCEPT ![p] = row]
  BY DEF SendAll
<1>5. \A b \in Peers : row[b] = IF b \in targets THEN Append(c[p][b], m) ELSE c[p][b]
  OBVIOUS
<1> HIDE DEF row
<1>6. \A a \in Peers : [c EXCEPT ![p] = row][a] = IF a = p THEN row ELSE c[a]
  BY DEF Chans
<1>7. [c EXCEPT ![p] = row] \in Chans
  BY <1>3 DEF Chans
<1> QED BY <1>4, <1>5, <1>6, <1>7

(* The same for several packets.                                            *)
LEMMA SentEach ==
  ASSUME NEW c \in Chans, NEW p \in Peers, NEW targets, NEW d \in Seq(Packets)
  PROVE  /\ SendEach(c, p, targets, d) \in Chans
         /\ \A a, b \in Peers :
              SendEach(c, p, targets, d)[a][b] =
                IF a = p /\ b \in targets THEN c[a][b] \o d ELSE c[a][b]
<1> DEFINE row == [q \in Peers |-> IF q \in targets THEN c[p][q] \o d ELSE c[p][q]]
<1>1. c[p] \in [Peers -> Seq(Packets)] /\ \A q \in Peers : c[p][q] \in Seq(Packets)
  BY DEF Chans
<1>2. \A q \in Peers : c[p][q] \o d \in Seq(Packets)
  BY <1>1, ConcatProperties
<1>3. row \in [Peers -> Seq(Packets)]
  BY <1>1, <1>2
<1>4. SendEach(c, p, targets, d) = [c EXCEPT ![p] = row]
  BY DEF SendEach
<1>5. \A b \in Peers : row[b] = IF b \in targets THEN c[p][b] \o d ELSE c[p][b]
  OBVIOUS
<1> HIDE DEF row
<1>6. \A a \in Peers : [c EXCEPT ![p] = row][a] = IF a = p THEN row ELSE c[a]
  BY DEF Chans
<1>7. [c EXCEPT ![p] = row] \in Chans
  BY <1>3 DEF Chans
<1> QED BY <1>4, <1>5, <1>6, <1>7

(* A packet received leaves one queue.                                      *)
LEMMA ReceivedFrom ==
  ASSUME chan \in Chans, NEW p \in Peers, NEW q \in Peers, chan[q][p] # <<>>
  PROVE  /\ Received(p, q) \in Chans
         /\ \A a, b \in Peers :
              Received(p, q)[a][b] = IF a = q /\ b = p THEN Tail(chan[a][b]) ELSE chan[a][b]
<1>1. chan[q] \in [Peers -> Seq(Packets)] /\ chan[q][p] \in Seq(Packets)
  BY DEF Chans
<1>2. Tail(chan[q][p]) \in Seq(Packets)
  BY <1>1, HeadTailProperties, Zenon
<1> DEFINE t == Tail(chan[q][p])
<1>3. Received(p, q) = [chan EXCEPT ![q] = [chan[q] EXCEPT ![p] = t]]
  BY DEF Received
<1> HIDE DEF t
<1>4. [chan[q] EXCEPT ![p] = t] \in [Peers -> Seq(Packets)]
  BY <1>1, <1>2 DEF t
<1> QED BY <1>1, <1>3, <1>4 DEF Chans, t
----------------------------------------------------------------------------
(* Types. *)

(* The packets of every type are packets.                                   *)
LEMMA SomePackets ==
  /\ ChangePackets \subseteq Packets
  /\ Packet("takeoverAck") \in Packets /\ Packet("flushed") \in Packets
  /\ Packet("reconnectRequest") \in Packets /\ Packet("reconnectAck") \in Packets
  /\ Packet("left") \in Packets
  /\ \A b \in SUBSET Peers : RequestPacket(TRUE, b) \in Packets
  /\ \A n \in Peers : RequestPacket(FALSE, {n}) \in Packets
BY DEF Packets, Packet, RequestPacket, RequestPackets

(* What a packet of a type carries.                                         *)
LEMMA PacketContents ==
  ASSUME NEW m \in Packets
  PROVE  /\ m.type = "change" => m \in ChangePackets /\ m.id \in Changes
         /\ m.type = "takeoverRequest" =>
              /\ m.promote \in BOOLEAN /\ m.buddies \subseteq Peers
              /\ ~m.promote => \E n \in Peers : m.buddies = {n}
BY DEF Packets, ChangePackets, RequestPackets

(* There are finitely many peers.                                           *)
LEMMA FinitePeers ==
  /\ IsFiniteSet(Peers) /\ Master \in Peers /\ Slaves \subseteq Peers /\ None \notin Peers
  /\ Cardinality(Slaves) \in Nat
BY TakeoverPeersAssumption, FS_AddElement, FS_CardinalityType DEF Peers

(* A user makes his changes one by one.                                     *)
LEMMA NextChange ==
  ASSUME TypeOK, NEW p \in Peers, Cardinality({id \in doc[p] : id[1] = p}) + 1 <= MaxEdits
  PROVE  <<p, Cardinality({id \in doc[p] : id[1] = p}) + 1>> \in Changes
<1> DEFINE own == {id \in doc[p] : id[1] = p}
<1>1. IsFiniteSet(1..MaxEdits)
  BY TakeoverBoundsAssumption, FS_Interval
<1>2. IsFiniteSet(Changes)
  BY <1>1, FinitePeers, FS_Product DEF Changes
<1>3. own \subseteq Changes
  BY DEF TypeOK
<1>4. IsFiniteSet(own)
  BY <1>2, <1>3, FS_Subset
<1>5. Cardinality(own) \in Nat
  BY <1>4, FS_CardinalityType
<1>6. Cardinality(own) + 1 \in 1..MaxEdits
  BY <1>5, TakeoverBoundsAssumption
<1> QED BY <1>6 DEF Changes

(* The queues are typed, and what is in one of them is a packet.            *)
LEMMA ChanTypes ==
  ASSUME TypeOK
  PROVE  /\ chan \in Chans
         /\ \A p, q \in Peers :
              /\ chan[q][p] \in Seq(Packets)
              /\ chan[q][p] # <<>> => Head(chan[q][p]) \in Packets
         /\ \A p \in Peers : outgoing[p] \in Seq(Packets) /\ outgoing[p] \in Seq(ChangePackets)
<1>1. chan \in Chans /\ \A p, q \in Peers : chan[q][p] \in Seq(Packets)
  BY DEF TypeOK, Chans
<1>2. \A c \in Seq(Packets) : c # <<>> => Head(c) \in Packets
  BY HeadTailProperties
<1>3. \A d \in Seq(ChangePackets) : d \in Seq(Packets)
  BY SomePackets, SeqMonotonic, Zenon
<1>4. \A p \in Peers : outgoing[p] \in Seq(ChangePackets)
  BY DEF TypeOK
<1> QED BY <1>1, <1>2, <1>3, <1>4

(* The start is typed, ...                                                  *)
LEMMA StartTypes ==
  Init => TypeOK
<1> SUFFICES ASSUME Init PROVE TypeOK
  OBVIOUS
<1>1. <<>> \in Seq(ChangePackets) /\ <<>> \in Seq(Packets)
  BY EmptySeq
<1> QED BY <1>1, FinitePeers DEF Init, TypeOK, Peers

(* ... and so is every step of a user, ...                                  *)
LEMMA EditTypes ==
  ASSUME TypeOK, NEW p \in Peers, Edit(p) PROVE TypeOK'
<1> DEFINE n  == Cardinality({id \in doc[p] : id[1] = p}) + 1
           id == <<p, n>>
           m  == ChangePacket(id, doc[p])
<1>1. id \in Changes
  BY NextChange DEF Edit
<1>2. m \in ChangePackets /\ m \in Packets
  BY <1>1, SomePackets DEF ChangePacket, ChangePackets, TypeOK
<1> HIDE DEF m, id
<1>3. SendAll(chan, p, collaborators[p], m) \in Chans
  BY <1>2, ChanTypes, SentAll
<1>4. [outgoing EXCEPT ![p] = Append(@, m)] \in [Peers -> Seq(ChangePackets)]
  BY <1>2, ChanTypes, AppendProperties DEF TypeOK
<1>5. /\ doc'   = [doc EXCEPT ![p] = @ \cup {id}]
      /\ stack' = [stack EXCEPT ![p] = @ \cup {id}]
      /\ \/ outgoing' = [outgoing EXCEPT ![p] = Append(@, m)] /\ chan' = chan
         \/ chan' = SendAll(chan, p, collaborators[p], m) /\ outgoing' = outgoing
      /\ rash' \in BOOLEAN
      /\ UNCHANGED <<protocol, collaborators, old, refused>>
  BY DEF Edit, m, id, TypeOK
<1>6. outgoing' \in [Peers -> Seq(ChangePackets)] /\ chan' \in Chans
  BY <1>3, <1>4, <1>5, ChanTypes DEF TypeOK
<1>7. doc' \in [Peers -> SUBSET Changes] /\ stack' \in [Peers -> SUBSET Changes]
  BY <1>1, <1>5 DEF TypeOK
<1> QED BY <1>5, <1>6, <1>7 DEF TypeOK, Chans, protocol

(* ... of a master that leaves ...                                          *)
LEMMA LeaveTypes ==
  ASSUME TypeOK, NEW p \in Peers, InitiateSessionTakeover(p) \/ DeleteSession(p) PROVE TypeOK'
<1>1. CASE InitiateSessionTakeover(p)
  <2>1. PICK n \in collaborators[p] :
          /\ proposed' = [proposed EXCEPT ![p] = n]
          /\ chan' = SendAll(SendAll(chan, p, {n}, RequestPacket(TRUE, collaborators[p] \ {n})),
                             p, collaborators[p] \ {n}, RequestPacket(FALSE, {n}))
    BY <1>1 DEF InitiateSessionTakeover
  <2>2. collaborators[p] \subseteq Peers /\ n \in Peers
    BY DEF TypeOK
  <2>3. RequestPacket(TRUE, collaborators[p] \ {n}) \in Packets /\ RequestPacket(FALSE, {n}) \in Packets
    BY <2>2, SomePackets
  <2>4. SendAll(chan, p, {n}, RequestPacket(TRUE, collaborators[p] \ {n})) \in Chans
    <3>1. \A m \in Packets : \A targets : SendAll(chan, p, targets, m) \in Chans
      BY ChanTypes, SentAll
    <3> QED BY <2>3, <3>1
  <2>5. chan' \in Chans
    BY <2>1, <2>3, <2>4, SentAll
  <2>6. [outgoing EXCEPT ![p] = <<>>] \in [Peers -> Seq(ChangePackets)]
    BY EmptySeq DEF TypeOK
  <2>7. /\ life' \in [Peers -> {"in", "waiting", "released", "gone"}]
        /\ state' \in [Peers -> {"NONE", "SENT_TAKEOVER_REQUEST", "SENT_TAKEOVER_ACK",
                                 "SENT_SESSION_RECONNECT_REQUEST"}]
        /\ proposed' \in [Peers -> Peers \cup {None}]
        /\ approved' \in [Peers -> SUBSET Peers] /\ acked' \in [Peers -> SUBSET Peers]
        /\ promoted' \in [Peers -> BOOLEAN] /\ flushed' \in [Peers -> BOOLEAN]
        /\ outgoing' \in [Peers -> Seq(ChangePackets)]
        /\ UNCHANGED <<controller, collaborators, stack, doc, old, refused, rash>>
    BY <1>1, <2>1, <2>2, <2>6 DEF InitiateSessionTakeover, TypeOK
  <2>8. \A x \in Peers : state'[x] = "SENT_TAKEOVER_ACK" /\ ~promoted'[x] => proposed'[x] \in Peers
    BY <1>1, <2>1 DEF InitiateSessionTakeover, TypeOK
  <2> QED BY <2>5, <2>7, <2>8 DEF TypeOK, Chans
<1>2. CASE DeleteSession(p)
  <2>1. chan' \in Chans
    BY <1>2, ChanTypes, SentAll, SomePackets DEF DeleteSession
  <2> QED BY <1>2, <2>1 DEF DeleteSession, TypeOK, Chans
<1> QED BY <1>1, <1>2

(* ... and of a peer that gets a packet.                                    *)
LEMMA RestartTypes ==
  ASSUME TypeOK, NEW p \in Peers, NEW q \in Peers, chan[q][p] # <<>>, NEW cs, NEW told, NEW missing,
         CheckRestartAsMaster(p, q, cs, told, missing)
  PROVE  /\ stack' \in [Peers -> SUBSET Changes] /\ chan' \in Chans
         /\ state' \in [Peers -> {"NONE", "SENT_TAKEOVER_REQUEST", "SENT_TAKEOVER_ACK",
                                  "SENT_SESSION_RECONNECT_REQUEST"}]
         /\ outgoing' \in [Peers -> Seq(ChangePackets)]
         /\ \A x \in Peers : state'[x] = "SENT_TAKEOVER_ACK" => state[x] = "SENT_TAKEOVER_ACK"
<1> DEFINE d == <<Packet("reconnectAck")>> \o outgoing[p]
<1>1. d \in Seq(Packets)
  <2>1. <<Packet("reconnectAck")>> \in Seq(Packets)
    BY SomePackets
  <2> QED BY <2>1, ChanTypes, ConcatProperties
<1> HIDE DEF d
<1>2. Received(p, q) \in Chans
  BY ChanTypes, ReceivedFrom
<1>3. SendEach(Received(p, q), p, cs, d) \in Chans
  BY <1>1, <1>2, SentEach
<1>4. [outgoing EXCEPT ![p] = <<>>] \in [Peers -> Seq(ChangePackets)]
  BY EmptySeq DEF TypeOK
<1>5. CASE Restarts(told, missing)
  <2>1. /\ stack'    = [stack EXCEPT ![p] = {}]
        /\ state'    = [state EXCEPT ![p] = "NONE"]
        /\ outgoing' = [outgoing EXCEPT ![p] = <<>>]
        /\ chan'     = SendEach(Received(p, q), p, cs, d)
    BY <1>5 DEF CheckRestartAsMaster, d
  <2> QED BY <1>3, <1>4, <2>1 DEF TypeOK
<1>6. CASE ~Restarts(told, missing)
  <2>1. chan' = Received(p, q) /\ UNCHANGED <<stack, state, outgoing>>
    BY <1>6 DEF CheckRestartAsMaster
  <2> QED BY <1>2, <2>1 DEF TypeOK
<1> QED BY <1>5, <1>6

LEMMA DeliverTypes ==
  ASSUME TypeOK, NEW p \in Peers, NEW q \in Peers, Deliver(p, q) PROVE TypeOK'
<1>1. chan[q][p] # <<>>
  BY DEF Deliver, ImportChange, HandleRequest, HandleAck, BecomeMaster, SwitchMaster,
         HandleReconnectRequest, RestartAsSlave, Refuse, DropUnknown, RemoveBuddy, HeadIs
<1> DEFINE m == Head(chan[q][p])
           r == Received(p, q)
<1>2. r \in Chans /\ m \in Packets
  BY <1>1, ChanTypes, ReceivedFrom
<1>3. \A x \in Packets : \A targets : SendAll(r, p, targets, x) \in Chans
  BY <1>2, SentAll
<1> HIDE DEF m, r
<1>4. CASE ImportChange(p, q)
  <2>1. m.id \in Changes /\ ChangePacket(m.id, doc[p]) \in Packets
    <3>1. m.id \in Changes
      BY <1>2, <1>4, PacketContents DEF ImportChange, HeadIs, m
    <3>2. ChangePacket(m.id, doc[p]) \in ChangePackets
      BY <3>1 DEF TypeOK, ChangePacket, ChangePackets
    <3> QED BY <3>1, <3>2, SomePackets
  <2>2. /\ doc'   = [doc EXCEPT ![p] = @ \cup {m.id}]
        /\ stack' = [stack EXCEPT ![p] = @ \cup {m.id}]
        /\ collaborators' = [collaborators EXCEPT ![p] = @ \cup {q}]
        /\ chan'  = SendAll(r, p, ForwardTo(p, q), ChangePacket(m.id, doc[p]))
        /\ UNCHANGED <<protocol, outgoing, old, refused, rash>>
    BY <1>4 DEF ImportChange, m, r
  <2>3. chan' \in Chans
    BY <1>3, <2>1, <2>2
  <2>4. /\ doc' \in [Peers -> SUBSET Changes] /\ stack' \in [Peers -> SUBSET Changes]
        /\ collaborators' \in [Peers -> SUBSET Peers]
    BY <2>1, <2>2 DEF TypeOK
  <2> QED BY <2>2, <2>3, <2>4 DEF TypeOK, Chans, protocol
<1>5. CASE HandleRequest(p, q)
  <2>1. m.promote \in BOOLEAN /\ m.buddies \subseteq Peers /\ ProposedIn(m) \in Peers \cup {None}
    BY <1>2, <1>5, PacketContents DEF HandleRequest, HeadIs, m, ProposedIn
  <2>2. chan' = SendAll(r, p, {q}, Ack) /\ Ack \in Packets
    BY <1>5, SomePackets DEF HandleRequest, r, Ack
  <2>3. chan' \in Chans
    BY <1>3, <2>2
  <2>4. /\ promoted' = [promoted EXCEPT ![p] = m.promote]
        /\ proposed' = [proposed EXCEPT ![p] = ProposedIn(m)]
        /\ approved' = [approved EXCEPT ![p] = IF m.promote THEN m.buddies ELSE {}]
        /\ state'    = [state EXCEPT ![p] = "SENT_TAKEOVER_ACK"]
        /\ UNCHANGED <<life, controller, collaborators, acked, flushed, outgoing, stack, doc, old,
                       refused, rash>>
    BY <1>5 DEF HandleRequest, m
  <2>5. /\ promoted' \in [Peers -> BOOLEAN] /\ proposed' \in [Peers -> Peers \cup {None}]
        /\ approved' \in [Peers -> SUBSET Peers]
    BY <2>1, <2>4 DEF TypeOK
  <2>6. ~m.promote => ProposedIn(m) \in Peers
    BY <1>2, <1>5, PacketContents DEF HandleRequest, HeadIs, m, ProposedIn
  <2>7. \A x \in Peers : state'[x] = "SENT_TAKEOVER_ACK" /\ ~promoted'[x] => proposed'[x] \in Peers
    BY <2>4, <2>6 DEF TypeOK
  <2> QED BY <2>3, <2>4, <2>5, <2>7 DEF TypeOK, Chans
<1>6. CASE HandleAck(p, q)
  <2>1. chan' = r \/ chan' = SendAll(r, p, collaborators[p], Packet("flushed"))
    BY <1>6 DEF HandleAck, r
  <2>2. chan' \in Chans
    BY <1>2, <1>3, <2>1, SomePackets
  <2>3. /\ state' = state \/ state' = [state EXCEPT ![p] = "NONE"]
        /\ life' = life \/ life' = [life EXCEPT ![p] = "released"]
        /\ old' = old \/ old' = doc[p]
        /\ acked' = [acked EXCEPT ![p] = acked[p] \cup {q}]
        /\ UNCHANGED <<controller, collaborators, proposed, promoted, approved, flushed, outgoing,
                       stack, doc, refused, rash>>
    BY <1>6 DEF HandleAck
  <2>4. /\ state' \in [Peers -> {"NONE", "SENT_TAKEOVER_REQUEST", "SENT_TAKEOVER_ACK",
                                 "SENT_SESSION_RECONNECT_REQUEST"}]
        /\ life' \in [Peers -> {"in", "waiting", "released", "gone"}]
        /\ \A x \in Peers : state'[x] = "SENT_TAKEOVER_ACK" => state[x] = "SENT_TAKEOVER_ACK"
    BY <2>3 DEF TypeOK
  <2>5. old' \subseteq Changes /\ acked' \in [Peers -> SUBSET Peers]
    BY <2>3 DEF TypeOK
  <2> QED BY <2>2, <2>3, <2>4, <2>5 DEF TypeOK, Chans
<1>7. CASE HandleReconnectRequest(p, q)
  <2>1. /\ chan' \in Chans /\ stack' \in [Peers -> SUBSET Changes]
        /\ state' \in [Peers -> {"NONE", "SENT_TAKEOVER_REQUEST", "SENT_TAKEOVER_ACK",
                                  "SENT_SESSION_RECONNECT_REQUEST"}]
        /\ outgoing' \in [Peers -> Seq(ChangePackets)]
        /\ \A x \in Peers : state'[x] = "SENT_TAKEOVER_ACK" => state[x] = "SENT_TAKEOVER_ACK"
    BY <1>1, <1>7, RestartTypes DEF HandleReconnectRequest
  <2> QED BY <1>7, <2>1 DEF HandleReconnectRequest, TypeOK, Chans
<1>8. CASE BecomeMaster(p, q)
  <2>1. /\ chan' \in Chans /\ stack' \in [Peers -> SUBSET Changes]
        /\ state' \in [Peers -> {"NONE", "SENT_TAKEOVER_REQUEST", "SENT_TAKEOVER_ACK",
                                  "SENT_SESSION_RECONNECT_REQUEST"}]
        /\ outgoing' \in [Peers -> Seq(ChangePackets)]
        /\ \A x \in Peers : state'[x] = "SENT_TAKEOVER_ACK" => state[x] = "SENT_TAKEOVER_ACK"
    BY <1>1, <1>8, RestartTypes DEF BecomeMaster
  <2> QED BY <1>8, <2>1 DEF BecomeMaster, TypeOK, Chans
<1>9. CASE SwitchMaster(p, q)
  <2>1. chan' = SendAll(r, p, {proposed[p]}, Packet("reconnectRequest"))
    BY <1>9 DEF SwitchMaster, r
  <2>2. chan' \in Chans
    BY <1>3, <2>1, SomePackets
  <2>3. UNCHANGED <<life, proposed, promoted, approved, acked, outgoing, stack, doc, old, refused, rash>>
    BY <1>9 DEF SwitchMaster
  <2>4. /\ flushed' \in [Peers -> BOOLEAN]
        /\ controller' \in [Peers -> Peers \cup {None}]
        /\ state' \in [Peers -> {"NONE", "SENT_TAKEOVER_REQUEST", "SENT_TAKEOVER_ACK",
                                 "SENT_SESSION_RECONNECT_REQUEST"}]
    BY <1>9 DEF SwitchMaster, TypeOK
  <2>5. proposed[p] \in Peers
    BY <1>9 DEF SwitchMaster, FlushedAllowed, TypeOK
  <2>6. collaborators' \in [Peers -> SUBSET Peers]
    BY <1>9, <2>5 DEF SwitchMaster, TypeOK
  <2>7. \A x \in Peers : state'[x] = "SENT_TAKEOVER_ACK" => state[x] = "SENT_TAKEOVER_ACK"
    BY <1>9 DEF SwitchMaster, TypeOK
  <2> QED BY <2>2, <2>3, <2>4, <2>6, <2>7 DEF TypeOK, Chans
<1>10. CASE RestartAsSlave(p, q)
  <2>1. chan' = SendEach(r, p, collaborators[p], outgoing[p])
    BY <1>10 DEF RestartAsSlave, r
  <2>2. chan' \in Chans
    BY <1>2, <2>1, ChanTypes, SentEach
  <2>3. outgoing' \in [Peers -> Seq(ChangePackets)]
    BY <1>10, EmptySeq DEF RestartAsSlave, TypeOK
  <2> QED BY <1>10, <2>2, <2>3 DEF RestartAsSlave, TypeOK, Chans
<1>11. CASE Refuse(p, q)
  BY <1>2, <1>11 DEF Refuse, TypeOK, Chans, protocol, r
<1>12. CASE DropUnknown(p, q)
  BY <1>2, <1>12 DEF DropUnknown, TypeOK, Chans, protocol, r
<1>13. CASE RemoveBuddy(p, q)
  BY <1>2, <1>13 DEF RemoveBuddy, TypeOK, Chans, r
<1> QED BY <1>4, <1>5, <1>6, <1>7, <1>8, <1>9, <1>10, <1>11, <1>12, <1>13 DEF Deliver
----------------------------------------------------------------------------
(* The handshake. *)

(* At the start everyone stays with the master and nothing is under way.    *)
LEMMA StartHandshake ==
  Init => Handshake
<1> SUFFICES ASSUME Init PROVE Handshake
  OBVIOUS
<1>1. Master \in Peers /\ Slaves \subseteq Peers /\ Master \notin Slaves /\ None \notin Slaves /\ None # Master
  BY FinitePeers, TakeoverPeersAssumption
<1>2. /\ life[Master] = "in" /\ NewMaster = None /\ ~Begun /\ ~Ended
      /\ \A p, q \in Peers : chan[p][q] = <<>>
  BY <1>1 DEF Init, NewMaster, Begun, Ended
<1>3. MasterInv
  BY <1>1, <1>2 DEF Init, MasterInv
<1>4. ASSUME NEW s \in Slaves PROVE Way(s) /\ Member(s) /\ FromMaster(s) /\ ToMaster(s)
  <2>1. Stays(s) /\ ~Answers(s) /\ ~Follows(s) /\ ~Leads(s)
    BY <1>1 DEF Init, Stays, Answers, Follows, Leads
  <2>2. Way(s) /\ Member(s)
    BY <1>1, <1>2, <2>1 DEF Way, Member, Init
  <2>3. chan[Master][s] = <<>> /\ chan[s][Master] = <<>> /\ Len(<<>>) = 0
    BY <1>1, <1>2, EmptySeq
  <2>4. FromMaster(s)
    BY <1>2, <2>1, <2>3, NothingQueued DEF FromMaster, Once
  <2>5. ToMaster(s)
    BY <1>2, <2>1, <2>3, NothingQueued DEF ToMaster, Once
  <2> QED BY <2>2, <2>4, <2>5
<1>5. LeaderInv
  BY <1>2 DEF LeaderInv
<1> QED BY <1>2, <1>3, <1>4, <1>5 DEF Handshake

(* The stages exclude each other, and the leader is not a follower.         *)
LEMMA Stages ==
  ASSUME TypeOK, Handshake
  PROVE  /\ Master \in Peers /\ Slaves \subseteq Peers /\ Master \notin Slaves /\ None \notin Peers
         /\ Peers = Slaves \cup {Master} /\ Followers \subseteq Slaves /\ NewMaster \notin Followers
         /\ Ended => Begun /\ life[Master] # "waiting"
         /\ life[Master] = "waiting" => Begun /\ ~Ended
         /\ Begun => life[Master] = "waiting" \/ Ended
         /\ Begun => NewMaster \in Slaves /\ Slaves = Followers \cup {NewMaster}
         /\ \A s \in Slaves :
              /\ Stays(s) => ~Answers(s) /\ ~Leads(s) /\ ~Follows(s)
              /\ Answers(s) => ~Leads(s) /\ ~Follows(s)
              /\ Leads(s) => ~Follows(s)
              /\ Leads(s) \/ Follows(s) => Ended
              /\ Answers(s) => Begun
         /\ Restarted => Begun /\ Ended /\ NewMaster \in Slaves
<1>1. Master \in Peers /\ Slaves \subseteq Peers /\ Master \notin Slaves /\ None \notin Peers
      /\ Peers = Slaves \cup {Master}
  BY FinitePeers, TakeoverPeersAssumption DEF Peers
<1>2. Followers \subseteq Slaves /\ NewMaster \notin Followers
  BY DEF Followers
<1>3. life[Master] \in {"in", "waiting", "released", "gone"}
  BY <1>1 DEF TypeOK
<1>4. /\ Ended => Begun /\ life[Master] # "waiting"
      /\ life[Master] = "waiting" => Begun /\ ~Ended
      /\ Begun => life[Master] = "waiting" \/ Ended
  BY <1>3 DEF Ended, Begun
<1>5. Begun => NewMaster \in Slaves /\ Slaves = Followers \cup {NewMaster}
  BY DEF Handshake, MasterInv, Followers
<1>6. ASSUME NEW s \in Slaves
      PROVE  /\ Stays(s) => ~Answers(s) /\ ~Leads(s) /\ ~Follows(s)
             /\ Answers(s) => ~Leads(s) /\ ~Follows(s)
             /\ Leads(s) => ~Follows(s)
  BY <1>1 DEF Stays, Answers, Leads, Follows
<1>7. ASSUME NEW s \in Slaves
      PROVE  /\ Leads(s) \/ Follows(s) => Ended
             /\ Answers(s) => Begun
  BY <1>4, <1>6 DEF Handshake, Way
<1>8. Restarted => Begun /\ Ended /\ NewMaster \in Slaves
  BY <1>5, <1>7 DEF Restarted
<1> QED BY <1>1, <1>2, <1>4, <1>5, <1>6, <1>7, <1>8

(* What the next packet of a queue may be, whom it is from and for, and     *)
(* that it comes when it is due.                                           *)
LEMMA WhatComes ==
  ASSUME TypeOK, Handshake, NEW p \in Peers, NEW q \in Peers, chan[q][p] # <<>>,
         NEW m, m = Head(chan[q][p])
  PROVE  /\ \/ q = Master /\ p \in Slaves /\ m.type \in {"change", "takeoverRequest", "flushed", "left"}
            \/ q \in Slaves /\ p = Master /\ m.type \in {"change", "takeoverAck"}
            \/ /\ Begun /\ q \in Followers /\ p = NewMaster
               /\ m.type = "reconnectRequest" \/ (m.type = "change" /\ Restarted)
            \/ Begun /\ q = NewMaster /\ p \in Followers /\ m.type \in {"change", "reconnectAck"}
         /\ m.type = "takeoverRequest" => Begun /\ Stays(p) /\ m = Asked(p)
         /\ m.type = "takeoverAck" => life[Master] = "waiting" /\ Answers(q) /\ q \notin acked[Master]
         /\ m.type = "flushed" => Ended /\ Answers(p)
         /\ m.type = "reconnectRequest" => Follows(q) /\ q \in approved[p]
         /\ m.type = "reconnectAck" =>
              Follows(p) /\ state[p] = "SENT_SESSION_RECONNECT_REQUEST" /\ Restarted
         /\ m.type = "left" => life[Master] = "gone" /\ ~Answers(p)
         /\ m.type = "change" /\ p = Master /\ life[Master] = "waiting" => q \notin acked[Master]
<1> DEFINE c == chan[q][p]
<1>1. c \in Seq(Packets) /\ c # <<>> /\ m = Head(c) /\ m = c[1] /\ Len(c) \in Nat /\ Len(c) >= 1
  BY ChanTypes, EmptySeq, LenProperties
<1> HIDE DEF c
<1>2. \A types : Only(c, types) => m.type \in types
  BY <1>1, Taken
<1>3. \A t : m.type = t => Has(c, t)
  BY <1>1, Taken
<1>4. CASE q = Master /\ p \in Slaves
  <2>1. FromMaster(p) /\ c = chan[Master][p]
    BY <1>4 DEF Handshake, c
  <2>2. m.type \in {"change", "takeoverRequest", "flushed", "left"}
    BY <1>2, <2>1 DEF FromMaster
  <2>3. m.type = "takeoverRequest" => Begun /\ Stays(p)
    BY <1>3, <2>1 DEF FromMaster, Once
  <2>4. m.type = "takeoverRequest" => m = Asked(p)
    BY <1>1, <2>1 DEF FromMaster
  <2>5. m.type = "flushed" => Ended /\ Answers(p)
    BY <1>3, <2>1 DEF FromMaster, Once
  <2>6. m.type = "left" => life[Master] = "gone" /\ ~Answers(p)
    <3> SUFFICES ASSUME m.type = "left" PROVE life[Master] = "gone" /\ ~Answers(p)
      OBVIOUS
    <3>1. life[Master] = "gone"
      BY <1>3, <2>1 DEF FromMaster
    <3>2. NoneAfter(c, "left", "flushed")
      BY <2>1 DEF FromMaster
    <3>3. ~Has(Tail(c), "flushed")
      BY <1>1, <3>2, Taken
    <3>4. ~Has(c, "flushed")
      BY <1>1, <3>3, Taken
    <3>5. Ended
      BY <3>1 DEF Ended
    <3> QED BY <2>1, <3>1, <3>4, <3>5 DEF FromMaster, Once
  <2>7. p # Master
    BY <1>4, Stages
  <2> QED BY <1>4, <2>2, <2>3, <2>4, <2>5, <2>6, <2>7
<1>5. CASE q \in Slaves /\ p = Master
  <2>1. ToMaster(q) /\ c = chan[q][Master]
    BY <1>5 DEF Handshake, c
  <2>2. m.type \in {"change", "takeoverAck"}
    BY <1>2, <2>1 DEF ToMaster
  <2>3. m.type = "takeoverAck" => life[Master] = "waiting" /\ Answers(q) /\ q \notin acked[Master]
    BY <1>3, <2>1 DEF ToMaster, Once
  <2>4. m.type = "change" /\ life[Master] = "waiting" => q \notin acked[Master]
    BY <1>3, <2>1 DEF ToMaster
  <2> QED BY <1>5, <2>2, <2>3, <2>4
<1>6. CASE Begun /\ q \in Followers /\ p = NewMaster
  <2>1. ToLeader(q) /\ c = chan[q][NewMaster]
    BY <1>6 DEF Handshake, c
  <2>2. m.type \in {"change", "reconnectRequest"}
    BY <1>2, <2>1 DEF ToLeader
  <2>3. m.type = "change" => Restarted
    BY <1>3, <2>1 DEF ToLeader
  <2>4. m.type = "reconnectRequest" => Follows(q) /\ q \in approved[p]
    BY <1>3, <1>6, <2>1 DEF ToLeader, Once
  <2>5. p # Master
    BY <1>6, Stages
  <2> QED BY <1>6, <2>2, <2>3, <2>4, <2>5
<1>7. CASE Begun /\ q = NewMaster /\ p \in Followers
  <2>1. FromLeader(p) /\ c = chan[NewMaster][p]
    BY <1>7 DEF Handshake, c
  <2>2. m.type \in {"change", "reconnectAck"}
    BY <1>2, <2>1 DEF FromLeader
  <2>3. m.type = "reconnectAck" =>
              Follows(p) /\ state[p] = "SENT_SESSION_RECONNECT_REQUEST" /\ Restarted
    BY <1>3, <2>1 DEF FromLeader, Once
  <2>4. p # Master
    BY <1>7, Stages
  <2> QED BY <1>7, <2>2, <2>3, <2>4
<1>8. ~Silent(p, q)
  <2>1. Silent(q, p) <=> Silent(p, q)
    BY DEF Silent
  <2> QED BY <2>1, <1>1 DEF Handshake, c
<1>9. \/ q = Master /\ p \in Slaves
      \/ q \in Slaves /\ p = Master
      \/ Begun /\ q \in Followers /\ p = NewMaster
      \/ Begun /\ q = NewMaster /\ p \in Followers
  <2>1. p # q /\ (p \in {Master, NewMaster} \/ q \in {Master, NewMaster})
    BY <1>8 DEF Silent
  <2>2. NewMaster \in Peers => Begun
    BY Stages DEF Handshake, MasterInv
  <2>3. (p = Master \/ p \in Slaves) /\ (q = Master \/ q \in Slaves)
    BY Stages
  <2> QED BY <2>1, <2>2, <2>3 DEF Followers
<1> QED BY <1>4, <1>5, <1>6, <1>7, <1>9

(* A peer that nothing happened to is at the same stage.                    *)
LEMMA StageKept ==
  ASSUME NEW s, proposed'[Master] = proposed[Master],
         state'[s] = state[s], controller'[s] = controller[s], promoted'[s] = promoted[s],
         flushed'[s] = flushed[s], proposed'[s] = proposed[s]
  PROVE  /\ Stays(s)' <=> Stays(s)
         /\ Answers(s)' <=> Answers(s)
         /\ Leads(s)' <=> Leads(s)
         /\ Follows(s)' <=> Follows(s)
BY DEF Stays, Answers, Leads, Follows, Named, NewMaster

(* Two queues that differ in changes only: some were received, some sent.   *)
Control == {"takeoverRequest", "takeoverAck", "flushed", "reconnectRequest", "reconnectAck", "left"}

SameControl(c, d) ==
  /\ \A t \in Control : Has(d, t) <=> Has(c, t)
  /\ \A t, u \in Control : NoneAfter(c, t, u) => NoneAfter(d, t, u)
  /\ \A types : "change" \in types /\ Only(c, types) => Only(d, types)
  /\ \A i \in 1..Len(d) : d[i].type # "change" => \E j \in 1..Len(c) : d[i] = c[j]

LEMMA SameControlKept ==
  ASSUME NEW c PROVE SameControl(c, c)
BY DEF SameControl

LEMMA SameControlSent ==
  ASSUME NEW c \in Seq(Packets), NEW m \in Packets, m.type = "change"
  PROVE  SameControl(c, Append(c, m))
<1> DEFINE d == Append(c, m)
<1>1. /\ \A t \in Control : Has(d, t) <=> Has(c, t)
      /\ \A t, u \in Control : NoneAfter(c, t, u) => NoneAfter(d, t, u)
      /\ \A types : "change" \in types /\ Only(c, types) => Only(d, types)
  BY Sent DEF Control
<1>2. ASSUME NEW i \in 1..Len(d), d[i].type # "change" PROVE \E j \in 1..Len(c) : d[i] = c[j]
  <2>1. /\ Len(d) = Len(c) + 1 /\ Len(c) \in Nat
        /\ \A j \in 1..Len(c) : d[j] = c[j]
        /\ d[Len(c) + 1] = m
    BY AppendProperties, LenProperties
  <2>2. i # Len(c) + 1
    BY <1>2, <2>1
  <2>3. i \in 1..Len(c)
    BY <2>1, <2>2
  <2> QED BY <2>1, <2>3
<1> QED BY <1>1, <1>2 DEF SameControl

LEMMA SameControlTaken ==
  ASSUME NEW c \in Seq(Packets), c # <<>>, Head(c).type = "change"
  PROVE  SameControl(c, Tail(c))
<1> DEFINE d == Tail(c)
<1>1. /\ \A t \in Control : Has(d, t) <=> Has(c, t)
      /\ \A t, u \in Control : NoneAfter(c, t, u) => NoneAfter(d, t, u)
      /\ \A types : "change" \in types /\ Only(c, types) => Only(d, types)
  BY Taken DEF Control
<1>2. ASSUME NEW i \in 1..Len(d) PROVE \E j \in 1..Len(c) : d[i] = c[j]
  <2>1. Len(c) \in Nat /\ Len(d) = Len(c) - 1 /\ \A j \in 1..Len(d) : d[j] = c[j + 1]
    BY HeadTailProperties, LenProperties, Zenon
  <2>2. i + 1 \in 1..Len(c)
    BY <2>1
  <2> QED BY <2>1, <2>2
<1> QED BY <1>1, <1>2 DEF SameControl

(* Between the same stages a queue with the same control is as good.        *)
LEMMA SameControlOnce ==
  ASSUME NEW c, NEW d, SameControl(c, d), NEW t \in Control, NEW due, Once(c, t, due)
  PROVE  Once(d, t, due)
BY DEF SameControl, Once

(* A step about changes only, of users and of importers, keeps the          *)
(* handshake where changes may be.                                          *)
LEMMA ChangesOnly ==
  ASSUME TypeOK, Handshake, UNCHANGED protocol,
         collaborators'[Master] = Slaves,
         \A s \in Slaves : Member(s)',
         LeaderInv',
         \A p, q \in Peers : SameControl(chan[p][q], chan'[p][q]),
         \A s \in Slaves : life[Master] = "waiting" =>
            /\ NoneAfter(chan'[s][Master], "takeoverAck", "change")
            /\ s \in acked[Master] => ~Has(chan'[s][Master], "change"),
         Begun => \A s \in Followers :
            /\ Has(chan'[s][NewMaster], "change") => Restarted
            /\ ~Follows(s) => chan'[NewMaster][s] = <<>>,
         \A p, q \in Peers : Silent(p, q) => chan'[p][q] = <<>>
  PROVE  Handshake'
<1>1. /\ UNCHANGED <<life, state, controller, proposed, promoted, approved, acked, flushed>>
      /\ NewMaster' = NewMaster /\ Followers' = Followers /\ Begun' = Begun /\ Ended' = Ended
  BY DEF protocol, NewMaster, Followers, Begun, Ended
<1>2. ASSUME NEW s
      PROVE  /\ Stays(s)' <=> Stays(s)
             /\ Answers(s)' <=> Answers(s)
             /\ Leads(s)' <=> Leads(s)
             /\ Follows(s)' <=> Follows(s)
  BY <1>1, StageKept
<1>3. Restarted' <=> Restarted
  BY <1>1, <1>2 DEF Restarted
<1>4. MasterInv'
  BY <1>1 DEF Handshake, MasterInv
<1>5. ASSUME NEW s \in Slaves PROVE Way(s)'
  <2>1. Way(s)
    BY DEF Handshake
  <2> QED BY <1>1, <1>2, <1>3, <2>1 DEF Way
<1>6. ASSUME NEW s \in Slaves PROVE FromMaster(s)'
  <2> DEFINE c == chan[Master][s]
             d == chan'[Master][s]
  <2>1. SameControl(c, d)
    BY Stages
  <2>2. FromMaster(s)
    BY DEF Handshake
  <2>3. Asked(s)' = Asked(s)
    BY <1>1 DEF Asked
  <2> HIDE DEF c, d
  <2>4. Only(d, {"change", "takeoverRequest", "flushed", "left"})
    BY <2>1, <2>2 DEF FromMaster, SameControl, c
  <2>5. Once(d, "takeoverRequest", Begun /\ Stays(s)) /\ Once(d, "flushed", Ended /\ Answers(s))
    BY <2>1, <2>2, SameControlOnce DEF FromMaster, Control, c
  <2>6. \A i \in 1..Len(d) : d[i].type = "takeoverRequest" => d[i] = Asked(s)
    BY <2>1, <2>2 DEF FromMaster, SameControl, c
  <2>7. (Has(d, "left") => life[Master] = "gone") /\ NoneAfter(d, "left", "flushed")
    BY <2>1, <2>2 DEF FromMaster, SameControl, Control, c
  <2> QED BY <1>1, <1>2, <2>3, <2>4, <2>5, <2>6, <2>7 DEF FromMaster, Once, d
<1>7. ASSUME NEW s \in Slaves PROVE ToMaster(s)'
  <2> DEFINE c == chan[s][Master]
             d == chan'[s][Master]
  <2>1. SameControl(c, d)
    BY Stages
  <2>2. ToMaster(s)
    BY DEF Handshake
  <2> HIDE DEF c, d
  <2>3. Only(d, {"change", "takeoverAck"})
    BY <2>1, <2>2 DEF ToMaster, SameControl, c
  <2>4. Once(d, "takeoverAck", life[Master] = "waiting" /\ Answers(s) /\ s \notin acked[Master])
    BY <2>1, <2>2, SameControlOnce DEF ToMaster, Control, c
  <2> QED BY <1>1, <1>2, <2>3, <2>4 DEF ToMaster, Once, d
<1>8. ASSUME Begun, NEW s \in Followers PROVE ToLeader(s)' /\ FromLeader(s)'
  <2> DEFINE c == chan[s][NewMaster]
             d == chan'[s][NewMaster]
             e == chan[NewMaster][s]
             f == chan'[NewMaster][s]
  <2>1. SameControl(c, d) /\ SameControl(e, f)
    BY <1>8, Stages
  <2>2. ToLeader(s) /\ FromLeader(s)
    BY <1>8 DEF Handshake
  <2> HIDE DEF c, d, e, f
  <2>3. /\ Only(d, {"change", "reconnectRequest"})
        /\ Once(d, "reconnectRequest", Follows(s) /\ s \in approved[NewMaster])
    BY <2>1, <2>2, SameControlOnce DEF ToLeader, SameControl, Control, c
  <2>4. /\ Only(f, {"change", "reconnectAck"})
        /\ Once(f, "reconnectAck",
                Follows(s) /\ state[s] = "SENT_SESSION_RECONNECT_REQUEST" /\ Restarted)
    BY <2>1, <2>2, SameControlOnce DEF FromLeader, SameControl, Control, e
  <2>5. ToLeader(s)'
    BY <1>1, <1>2, <1>3, <1>8, <2>3 DEF ToLeader, Once, d
  <2>6. FromLeader(s)'
    BY <1>1, <1>2, <1>3, <1>8, <2>4 DEF FromLeader, Once, f
  <2> QED BY <2>5, <2>6
<1>9. \A p, q \in Peers : Silent(p, q)' <=> Silent(p, q)
  BY <1>1 DEF Silent
<1> QED BY <1>1, <1>4, <1>5, <1>6, <1>7, <1>8, <1>9 DEF Handshake

LEMMA SameControlTogether ==
  ASSUME NEW c, NEW d, NEW e, SameControl(c, d), SameControl(d, e) PROVE SameControl(c, e)
<1>1. ASSUME NEW i \in 1..Len(e), e[i].type # "change" PROVE \E j \in 1..Len(c) : e[i] = c[j]
  <2>1. PICK j \in 1..Len(d) : e[i] = d[j]
    BY <1>1 DEF SameControl
  <2> QED BY <1>1, <2>1 DEF SameControl
<1> QED BY <1>1 DEF SameControl

(* Whom a peer that does not hold on to its changes sends them to.          *)
LEMMA SendsTo ==
  ASSUME TypeOK, Handshake, NEW p \in Peers, ~HoldsOn(p), NEW q \in collaborators[p]
  PROVE  /\ q \in Peers /\ ~Silent(p, q)
         /\ p \in Slaves /\ life[Master] = "waiting" => Stays(p) /\ p \notin acked[Master]
         /\ Begun /\ p \in Followers /\ q = NewMaster => Restarted
         /\ Begun /\ p = NewMaster /\ q \in Followers => Follows(q)
<1>1. CASE p = Master
  <2>1. q \in Slaves
    BY <1>1 DEF Handshake, MasterInv
  <2> QED BY <1>1, <2>1, Stages DEF Silent
<1>2. CASE p \in Slaves
  <2>1. Way(p) /\ Member(p) /\ p \in Peers
    BY <1>2, Stages DEF Handshake
  <2>2. ~Answers(p)
    BY <2>1, Stages DEF Answers, HoldsOn, isLocallyControlled
  <2>3. life[Master] = "waiting" => Stays(p) /\ p \notin acked[Master]
    BY <2>1, <2>2 DEF Way
  <2>4. Follows(p) => Restarted /\ NewMaster \in Slaves
    BY <1>2, <2>1, Stages DEF Follows, HoldsOn, isLocallyControlled, Way
  <2>5. Stays(p) \/ Leads(p) \/ Follows(p)
    BY <2>1, <2>2, Stages DEF Way
  <2>6. Stays(p) => q = Master
    BY <2>1 DEF Member
  <2>7. ASSUME Leads(p) PROVE p = NewMaster /\ (q = Master \/ (q \in Followers /\ Follows(q)))
    <3>1. p = NewMaster /\ Begun
      BY <1>2, <2>7, Stages DEF Leads
    <3>2. /\ \A s \in Followers \ approved[p] : Follows(s)
          /\ collaborators[p] \ {Master} = Followers \ approved[p]
      BY <2>7, <3>1 DEF Handshake, LeaderInv
    <3> QED BY <3>1, <3>2
  <2>8. Follows(p) => p # NewMaster /\ q \in {Master, NewMaster}
    BY <2>1 DEF Member, Follows
  <2> QED BY <1>2, <2>3, <2>4, <2>5, <2>6, <2>7, <2>8, Stages DEF Silent
<1> QED BY <1>1, <1>2, Stages

(* Changes move: one is taken from its queue, or none, and one is sent by a *)
(* peer that does not hold on to them.                                      *)
TakesChange(base) ==
  \A a, b \in Peers :
     \/ base[a][b] = chan[a][b]
     \/ /\ chan[a][b] # <<>> /\ Head(chan[a][b]).type = "change"
        /\ base[a][b] = Tail(chan[a][b])

SendsChange(base, p, targets, m) ==
  \A a, b \in Peers :
     chan'[a][b] = IF a = p /\ b \in targets THEN Append(base[a][b], m) ELSE base[a][b]

LEMMA ChangesMove ==
  ASSUME TypeOK, Handshake, UNCHANGED protocol, collaborators'[Master] = Slaves,
         \A s \in Slaves : Member(s)', LeaderInv',
         NEW base \in Chans, TakesChange(base),
         NEW p \in Peers, NEW targets \in SUBSET collaborators[p], targets = {} \/ ~HoldsOn(p),
         NEW m \in ChangePackets, SendsChange(base, p, targets, m)
  PROVE  Handshake'
<1>1. m \in Packets /\ m.type = "change"
  BY SomePackets DEF ChangePackets
<1>2. ASSUME NEW a \in Peers, NEW b \in Peers
      PROVE  /\ base[a][b] \in Seq(Packets) /\ SameControl(chan[a][b], base[a][b])
             /\ Has(base[a][b], "change") => Has(chan[a][b], "change")
             /\ NoneAfter(chan[a][b], "takeoverAck", "change") =>
                  NoneAfter(base[a][b], "takeoverAck", "change")
             /\ chan[a][b] = <<>> => base[a][b] = <<>>
  <2>1. chan[a][b] \in Seq(Packets) /\ base[a][b] \in Seq(Packets)
    BY ChanTypes DEF Chans
  <2>2. CASE base[a][b] = chan[a][b]
    BY <2>1, <2>2, SameControlKept
  <2>3. CASE /\ chan[a][b] # <<>> /\ Head(chan[a][b]).type = "change"
             /\ base[a][b] = Tail(chan[a][b])
    <3>1. SameControl(chan[a][b], base[a][b])
      BY <2>1, <2>3, SameControlTaken
    <3>2. /\ Has(Tail(chan[a][b]), "change") => Has(chan[a][b], "change")
          /\ NoneAfter(chan[a][b], "takeoverAck", "change") =>
               NoneAfter(Tail(chan[a][b]), "takeoverAck", "change")
      BY <2>1, <2>3, Taken
    <3> QED BY <2>1, <2>3, <3>1, <3>2
  <2> QED BY <2>2, <2>3 DEF TakesChange
<1> USE DEF SendsChange
<1>3. ASSUME NEW a \in Peers, NEW b \in Peers PROVE SameControl(chan[a][b], chan'[a][b])
  <2>1. SameControl(chan[a][b], base[a][b]) /\ base[a][b] \in Seq(Packets)
    BY <1>2
  <2>2. SameControl(base[a][b], chan'[a][b])
    BY <1>1, <2>1, SameControlKept, SameControlSent
  <2> QED BY <2>1, <2>2, SameControlTogether
<1>4. ASSUME NEW s \in Slaves, life[Master] = "waiting"
      PROVE  /\ NoneAfter(chan'[s][Master], "takeoverAck", "change")
             /\ s \in acked[Master] => ~Has(chan'[s][Master], "change")
  <2> DEFINE c == chan[s][Master]
             e == base[s][Master]
  <2>1. ToMaster(s) /\ s \in Peers /\ Master \in Peers
    BY Stages DEF Handshake
  <2>2. /\ NoneAfter(c, "takeoverAck", "change")
        /\ s \in acked[Master] => ~Has(c, "change")
    BY <1>4, <2>1 DEF ToMaster
  <2>3. /\ NoneAfter(e, "takeoverAck", "change") /\ e \in Seq(Packets)
        /\ s \in acked[Master] => ~Has(e, "change")
    BY <1>2, <2>1, <2>2
  <2>4. CASE s = p /\ Master \in targets
    <3>1. Stays(s) /\ s \notin acked[Master]
      BY <1>4, <2>4, SendsTo
    <3>2. ~Has(c, "takeoverAck")
      BY <2>1, <3>1, Stages DEF ToMaster, Once
    <3>3. ~Has(e, "takeoverAck")
      BY <1>2, <2>1, <3>2 DEF SameControl, Control
    <3> HIDE DEF e
    <3>4. NoneAfter(Append(e, m), "takeoverAck", "change")
      BY <1>1, <2>3, <3>3, Sent
    <3> USE DEF e
    <3> QED BY <2>1, <2>4, <3>1, <3>4
  <2>5. CASE ~(s = p /\ Master \in targets)
    BY <2>1, <2>3, <2>5
  <2> QED BY <2>4, <2>5
<1>5. ASSUME Begun, NEW s \in Followers
      PROVE  /\ Has(chan'[s][NewMaster], "change") => Restarted
             /\ ~Follows(s) => chan'[NewMaster][s] = <<>>
  <2>1. ToLeader(s) /\ FromLeader(s) /\ s \in Peers /\ NewMaster \in Peers /\ s # NewMaster
    BY <1>5, Stages DEF Handshake
  <2>2. Has(chan[s][NewMaster], "change") => Restarted
    BY <2>1 DEF ToLeader
  <2>3. Has(base[s][NewMaster], "change") => Restarted
    BY <1>2, <2>1, <2>2
  <2>4. Has(chan'[s][NewMaster], "change") => Restarted
    <3>1. s = p /\ NewMaster \in targets => Restarted
      BY <1>5, <2>1, SendsTo
    <3> QED BY <2>1, <2>3, <3>1
  <2>5. ~Follows(s) => base[NewMaster][s] = <<>>
    BY <1>2, <2>1 DEF FromLeader
  <2>6. ~Follows(s) => chan'[NewMaster][s] = <<>>
    <3>1. NewMaster = p /\ s \in targets => Follows(s)
      BY <1>5, <2>1, SendsTo
    <3> QED BY <2>1, <2>5, <3>1
  <2> QED BY <2>4, <2>6
<1>6. ASSUME NEW a \in Peers, NEW b \in Peers, Silent(a, b) PROVE chan'[a][b] = <<>>
  <2>1. chan[a][b] = <<>>
    BY <1>6 DEF Handshake
  <2>2. base[a][b] = <<>>
    BY <1>2, <2>1
  <2>3. ~(a = p /\ b \in targets)
    BY <1>6, SendsTo
  <2> QED BY <2>2, <2>3
<1> QED BY <1>3, <1>4, <1>5, <1>6, ChangesOnly

(* The collaborators of the peers, when nobody has changed anything else.    *)
LEMMA MembersKept ==
  ASSUME Handshake, UNCHANGED protocol, NEW s \in Slaves, collaborators'[s] = collaborators[s]
  PROVE  Member(s)'
<1>1. UNCHANGED <<state, controller, proposed, promoted, flushed>> /\ NewMaster' = NewMaster
  BY DEF protocol, NewMaster
<1>2. (Stays(s)' <=> Stays(s)) /\ (Answers(s)' <=> Answers(s)) /\ (Follows(s)' <=> Follows(s))
  BY <1>1, StageKept
<1>3. Member(s)
  BY DEF Handshake
<1> QED BY <1>1, <1>2, <1>3 DEF Member

LEMMA LeaderKept ==
  ASSUME Handshake, UNCHANGED protocol,
         Begun => collaborators'[NewMaster] \ {Master} = collaborators[NewMaster] \ {Master},
         Begun /\ Leads(NewMaster) /\ state[NewMaster] = "SENT_TAKEOVER_ACK" =>
            Master \notin collaborators'[NewMaster]
  PROVE  LeaderInv'
<1>1. /\ UNCHANGED <<life, state, controller, proposed, promoted, approved, flushed>>
      /\ NewMaster' = NewMaster /\ Followers' = Followers /\ Begun' = Begun
  BY DEF protocol, NewMaster, Followers, Begun
<1>2. ASSUME NEW s
      PROVE (Answers(s)' <=> Answers(s)) /\ (Leads(s)' <=> Leads(s)) /\ (Follows(s)' <=> Follows(s))
  BY <1>1, StageKept
<1>3. Restarted' <=> Restarted
  BY <1>1, <1>2 DEF Restarted
<1>4. LeaderInv
  BY DEF Handshake
<1> QED BY <1>1, <1>2, <1>3, <1>4 DEF LeaderInv

(* Edit: the change is sent, or held back.                                  *)
LEMMA EditHandshake ==
  ASSUME TypeOK, Handshake, NEW p \in Peers, Edit(p) PROVE Handshake'
<1> DEFINE n  == Cardinality({id \in doc[p] : id[1] = p}) + 1
           m  == ChangePacket(<<p, n>>, doc[p])
           targets == IF HoldsOn(p) THEN {} ELSE collaborators[p]
<1>1. m \in ChangePackets /\ m \in Packets
  <2>1. <<p, n>> \in Changes
    BY NextChange DEF Edit
  <2> QED BY <2>1, SomePackets DEF ChangePacket, ChangePackets, TypeOK
<1>2. /\ IF HoldsOn(p) THEN chan' = chan ELSE chan' = SendAll(chan, p, collaborators[p], m)
      /\ UNCHANGED <<protocol, collaborators>>
  BY DEF Edit, m, n
<1> HIDE DEF m, n
<1>3. chan \in Chans
  BY ChanTypes
<1>4. SendsChange(chan, p, targets, m) /\ TakesChange(chan)
  BY <1>1, <1>2, <1>3, SentAll DEF SendsChange, TakesChange
<1>5. targets \in SUBSET collaborators[p] /\ (targets = {} \/ ~HoldsOn(p))
  OBVIOUS
<1> HIDE DEF targets
<1>6. UNCHANGED protocol /\ collaborators' = collaborators
  BY <1>2
<1>7. collaborators'[Master] = Slaves /\ LeaderInv' /\ \A s \in Slaves : Member(s)'
  <2>1. \A s \in Slaves : Member(s)'
    BY <1>6, MembersKept
  <2>2. Begun /\ Leads(NewMaster) /\ state[NewMaster] = "SENT_TAKEOVER_ACK" =>
            Master \notin collaborators[NewMaster]
    BY DEF Handshake, LeaderInv
  <2>3. LeaderInv'
    BY <1>6, <2>2, LeaderKept
  <2> QED BY <1>6, <2>1, <2>3 DEF Handshake, MasterInv
<1> QED BY <1>1, <1>3, <1>4, <1>5, <1>6, <1>7, ChangesMove

(* ImportChange: a change is taken, and the peer in control sends it on.    *)
LEMMA ImportHandshake ==
  ASSUME TypeOK, Handshake, NEW p \in Peers, NEW q \in Peers, ImportChange(p, q) PROVE Handshake'
<1> DEFINE h == Head(chan[q][p])
           m == ChangePacket(h.id, doc[p])
           r == Received(p, q)
           targets == ForwardTo(p, q)
<1>1. chan[q][p] # <<>> /\ h.type = "change" /\ MayImport(p, q)
  BY DEF ImportChange, HeadIs
<1>2. m \in ChangePackets /\ m \in Packets
  <2>1. h.id \in Changes
    BY <1>1, ChanTypes, PacketContents
  <2> QED BY <2>1, SomePackets DEF ChangePacket, ChangePackets, TypeOK
<1>3. /\ chan' = SendAll(r, p, targets, m)
      /\ UNCHANGED protocol
      /\ collaborators' = [collaborators EXCEPT ![p] = @ \cup {q}]
  BY DEF ImportChange
<1>4. /\ r \in Chans
      /\ \A a, b \in Peers : r[a][b] = IF a = q /\ b = p THEN Tail(chan[a][b]) ELSE chan[a][b]
  BY <1>1, ChanTypes, ReceivedFrom
<1>5. /\ \/ q = Master /\ p \in Slaves
         \/ q \in Slaves /\ p = Master
         \/ Begun /\ q \in Followers /\ p = NewMaster /\ Restarted
         \/ Begun /\ q = NewMaster /\ p \in Followers
      /\ h.type = "change"
  BY <1>1, WhatComes
<1>6. TakesChange(r)
  BY <1>1, <1>4 DEF TakesChange
<1> HIDE DEF h, m, r
<1>7. SendsChange(r, p, targets, m)
  BY <1>2, <1>3, <1>4, SentAll DEF SendsChange
<1>8. targets \in SUBSET collaborators[p] /\ (targets = {} \/ ~HoldsOn(p))
  BY DEF ForwardTo, HoldsOn
<1> HIDE DEF targets
<1>9. \A s \in Peers : collaborators'[s] = IF s = p THEN collaborators[s] \cup {q} ELSE collaborators[s]
  BY <1>3 DEF TypeOK
<1>10. collaborators'[Master] = Slaves
  <2>1. Master \in Peers /\ (p = Master => q \in Slaves)
    BY <1>5, Stages
  <2> QED BY <1>9, <2>1 DEF Handshake, MasterInv
<1>11. ASSUME NEW s \in Slaves PROVE Member(s)'
  <2>1. CASE s # p
    BY <1>3, <1>9, <2>1, MembersKept, Stages
  <2>2. CASE s = p
    <3>1. UNCHANGED <<state, controller, proposed, promoted, flushed>> /\ NewMaster' = NewMaster
      BY <1>3 DEF protocol, NewMaster
    <3>2. (Stays(s)' <=> Stays(s)) /\ (Answers(s)' <=> Answers(s)) /\ (Follows(s)' <=> Follows(s))
      BY <3>1, StageKept
    <3>3. Member(s) /\ s \in Peers /\ s # Master
      BY Stages DEF Handshake
    <3>4. CASE q = Master
      BY <1>9, <2>2, <3>1, <3>2, <3>3, <3>4 DEF Member
    <3>5. CASE Begun /\ q \in Followers /\ p = NewMaster /\ Restarted
      <4>1. Leads(s)
        BY <2>2, <3>5 DEF Restarted
      <4>2. ~Stays(s) /\ ~Follows(s) /\ s = NewMaster
        BY <2>2, <3>5, <4>1, Stages
      <4> QED BY <1>9, <2>2, <3>1, <3>2, <3>3, <4>2 DEF Member
    <3>6. CASE Begun /\ q = NewMaster /\ p \in Followers
      <4>1. Follows(s)
        BY <1>1, <2>2, <3>6 DEF Handshake, FromLeader
      <4>2. ~Stays(s) /\ ~Answers(s)
        BY <4>1, Stages
      <4> QED BY <1>9, <2>2, <3>1, <3>2, <3>3, <3>6, <4>1, <4>2 DEF Member
    <3> QED BY <1>5, <2>2, <3>3, <3>4, <3>5, <3>6
  <2> QED BY <2>1, <2>2
<1>12. LeaderInv'
  <2>1. ASSUME Begun, p = NewMaster
        PROVE  /\ collaborators'[NewMaster] \ {Master} = collaborators[NewMaster] \ {Master}
               /\ ~(Leads(NewMaster) /\ state[NewMaster] = "SENT_TAKEOVER_ACK")
    <3>1. q = Master \/ (q \in Followers /\ Restarted)
      BY <1>5, <2>1, Stages
    <3>2. NewMaster \in Peers
      BY <2>1
    <3>3. CASE q = Master
      <4>1. ~(Leads(NewMaster) /\ state[NewMaster] = "SENT_TAKEOVER_ACK")
        BY <1>1, <2>1 DEF MayImport, isLocallyControlled, Leads
      <4> QED BY <1>9, <2>1, <3>3, <4>1
    <3>4. CASE q \in Followers /\ Restarted
      <4>1. state[NewMaster] = "NONE" /\ Leads(NewMaster)
        BY <3>4 DEF Restarted
      <4>2. approved[NewMaster] = {} /\ collaborators[NewMaster] \ {Master} = Followers
        BY <2>1, <3>4, <4>1 DEF Handshake, LeaderInv
      <4> QED BY <1>9, <2>1, <3>4, <4>1, <4>2
    <3> QED BY <3>1, <3>3, <3>4
  <2>2. ASSUME Begun, p # NewMaster
        PROVE  /\ collaborators'[NewMaster] = collaborators[NewMaster]
               /\ Leads(NewMaster) /\ state[NewMaster] = "SENT_TAKEOVER_ACK" =>
                     Master \notin collaborators[NewMaster]
    <3>1. NewMaster \in Peers
      BY <2>2, Stages
    <3> QED BY <1>9, <2>2, <3>1 DEF Handshake, LeaderInv
  <2> QED BY <1>3, <2>1, <2>2, LeaderKept
<1> QED BY <1>2, <1>3, <1>4, <1>6, <1>7, <1>8, <1>10, <1>11, <1>12, ChangesMove

(* Only a change of the master that leaves is ever refused.                 *)
LEMMA Refused ==
  ASSUME TypeOK, Handshake, NEW p \in Peers, NEW q \in Peers, chan[q][p] # <<>>,
         ~Allowed(p, q, Head(chan[q][p]).type)
  PROVE  Head(chan[q][p]).type = "change" /\ q = Master /\ Begun
<1> DEFINE m == Head(chan[q][p])
<1>1. /\ \/ q = Master /\ p \in Slaves /\ m.type \in {"change", "takeoverRequest", "flushed", "left"}
         \/ q \in Slaves /\ p = Master /\ m.type \in {"change", "takeoverAck"}
         \/ /\ Begun /\ q \in Followers /\ p = NewMaster
            /\ m.type = "reconnectRequest" \/ (m.type = "change" /\ Restarted)
         \/ Begun /\ q = NewMaster /\ p \in Followers /\ m.type \in {"change", "reconnectAck"}
      /\ m.type = "takeoverRequest" => Begun /\ Stays(p) /\ m = Asked(p)
      /\ m.type = "takeoverAck" => life[Master] = "waiting" /\ Answers(q) /\ q \notin acked[Master]
      /\ m.type = "flushed" => Ended /\ Answers(p)
      /\ m.type = "reconnectRequest" => Follows(q) /\ q \in approved[p]
      /\ m.type = "reconnectAck" =>
           Follows(p) /\ state[p] = "SENT_SESSION_RECONNECT_REQUEST" /\ Restarted
      /\ m.type = "left" => life[Master] = "gone" /\ ~Answers(p)
      /\ m.type = "change" /\ p = Master /\ life[Master] = "waiting" => q \notin acked[Master]
  BY WhatComes
<1> HIDE DEF m
<1>2. ~Allowed(p, q, m.type)
  BY DEF m
<1>3. MasterInv /\ NewMaster # Master
  BY Stages DEF Handshake, MasterInv
<1>4. m.type # "takeoverRequest"
  BY <1>1, <1>2 DEF Allowed, RequestAllowed, Stays
<1>5. m.type # "takeoverAck"
  <2> SUFFICES ASSUME m.type = "takeoverAck" PROVE FALSE
    OBVIOUS
  <2>1. p = Master /\ life[Master] = "waiting" /\ Begun /\ q \notin acked[Master]
    BY <1>1, Stages
  <2>2. proposed[Master] # None
    BY <1>3, <2>1, Stages DEF NewMaster
  <2>3. AckAllowed(p, q)
    BY <1>3, <2>1, <2>2 DEF AckAllowed, isLocallyControlled, MasterInv
  <2> QED BY <1>2, <2>3 DEF Allowed
<1>6. m.type # "flushed"
  BY <1>1, <1>2 DEF Allowed, FlushedAllowed, Answers
<1>7. m.type # "reconnectRequest"
  <2> SUFFICES ASSUME m.type = "reconnectRequest" PROVE FALSE
    OBVIOUS
  <2>1. p = NewMaster /\ Follows(q) /\ q \in approved[p] /\ q \in Slaves /\ Begun /\ p \in Slaves
    BY <1>1, Stages
  <2>2. Ended
    BY <2>1, Stages
  <2>3. Answers(p) \/ Leads(p)
    BY <2>1, <2>2, Stages DEF Handshake, Way, Follows
  <2>4. ~Restarted
    BY <2>1 DEF Handshake, LeaderInv
  <2>5. state[p] = "SENT_TAKEOVER_ACK" /\ promoted[p]
    BY <2>1, <2>3, <2>4 DEF Restarted, Answers, Leads, Named
  <2> QED BY <1>2, <2>1, <2>5 DEF Allowed, ReconnectAllowed
<1>8. m.type # "reconnectAck"
  <2> SUFFICES ASSUME m.type = "reconnectAck" PROVE FALSE
    OBVIOUS
  <2>1. Follows(p) /\ state[p] = "SENT_SESSION_RECONNECT_REQUEST" /\ q = NewMaster /\ q \in Slaves
    BY <1>1, Stages
  <2>2. RestartAllowed(p, q)
    BY <2>1, TakeoverPeersAssumption DEF Follows, Named, RestartAllowed, isLocallyControlled
  <2> QED BY <1>2, <2>2 DEF Allowed
<1>9. m.type # "left"
  BY <1>2 DEF Allowed
<1>10. m.type = "change"
  BY <1>1, <1>4, <1>5, <1>6, <1>7, <1>8, <1>9
<1>11. state[p] # "NONE" /\ controller[p] = None
       /\ ~(state[p] = "SENT_TAKEOVER_REQUEST" /\ q \notin acked[p])
  BY <1>2, <1>10 DEF Allowed, MayImport, isLocallyControlled
<1>12. p # Master
  <2> SUFFICES ASSUME p = Master PROVE FALSE
    OBVIOUS
  <2>1. life[Master] = "waiting" /\ state[Master] = "SENT_TAKEOVER_REQUEST"
    BY <1>3, <1>11 DEF MasterInv
  <2> QED BY <1>1, <1>10, <1>11, <2>1
<1>13. p \in Slaves /\ None \notin Peers
  BY <1>12, Stages
<1>14. ~Stays(p) /\ ~Answers(p) /\ ~Follows(p)
  BY <1>11, <1>13, Stages DEF Stays, Answers, Follows
<1>15. Leads(p) /\ p = NewMaster /\ Begun
  BY <1>13, <1>14, Stages DEF Handshake, Way, Leads
<1>16. ~Restarted
  BY <1>11, <1>15 DEF Restarted
<1> QED BY <1>1, <1>10, <1>12, <1>15, <1>16, Stages DEF m

(* Refuse and DropUnknown take a change away.                               *)
LEMMA DropHandshake ==
  ASSUME TypeOK, Handshake, NEW p \in Peers, NEW q \in Peers, Refuse(p, q) \/ DropUnknown(p, q)
  PROVE  Handshake'
<1>1. /\ chan[q][p] # <<>> /\ chan' = Received(p, q)
      /\ UNCHANGED <<protocol, collaborators>>
  BY DEF Refuse, DropUnknown
<1>2. Head(chan[q][p]).type = "change"
  <2>1. CASE Refuse(p, q)
    BY <1>1, <2>1, Refused DEF Refuse
  <2>2. CASE DropUnknown(p, q)
    <3>1. life[p] = "gone"
      BY <2>2 DEF DropUnknown
    <3>2. p = Master
      BY <3>1, Stages DEF Handshake, Way
    <3>3. Head(chan[q][p]).type \in {"change", "takeoverAck"}
      BY <1>1, <3>2, WhatComes, Stages
    <3> QED BY <1>1, <3>1, <3>2, <3>3, WhatComes
  <2> QED BY <2>1, <2>2
<1> DEFINE r == Received(p, q)
<1>3. /\ r \in Chans
      /\ \A a, b \in Peers : r[a][b] = IF a = q /\ b = p THEN Tail(chan[a][b]) ELSE chan[a][b]
  BY <1>1, ChanTypes, ReceivedFrom
<1>4. Head(chan[q][p]) \in ChangePackets
  BY <1>1, <1>2, ChanTypes, PacketContents
<1>5. TakesChange(r)
  BY <1>1, <1>2, <1>3 DEF TakesChange
<1>6. SendsChange(r, p, {}, Head(chan[q][p])) /\ {} \in SUBSET collaborators[p]
  BY <1>1 DEF SendsChange
<1>7. \A s \in Slaves : Member(s)'
  BY <1>1, MembersKept
<1>8. LeaderInv'
  <2>1. Begun /\ Leads(NewMaster) /\ state[NewMaster] = "SENT_TAKEOVER_ACK" =>
            Master \notin collaborators[NewMaster]
    BY DEF Handshake, LeaderInv
  <2> QED BY <1>1, <2>1, LeaderKept
<1>9. collaborators'[Master] = Slaves
  BY <1>1 DEF Handshake, MasterInv
<1> HIDE DEF r
<1> QED BY <1>1, <1>3, <1>4, <1>5, <1>6, <1>7, <1>8, <1>9, ChangesMove

(* The master and the new one are never silent, but to themselves.          *)
LEMMA NotSilent ==
  ASSUME NEW a, NEW b, Silent(a, b), a # b
  PROVE  a # Master /\ b # Master /\ a # NewMaster /\ b # NewMaster
BY DEF Silent

(* A queue that nobody has touched is as before, if it was due what is due. *)
LEMMA FromMasterKept ==
  ASSUME NEW s, FromMaster(s), chan'[Master][s] = chan[Master][s], NewMaster' = NewMaster,
         (Begun /\ Stays(s))' <=> (Begun /\ Stays(s)),
         (Ended /\ Answers(s))' <=> (Ended /\ Answers(s)),
         life[Master] = "gone" => life'[Master] = "gone"
  PROVE  FromMaster(s)'
<1>1. Asked(s)' = Asked(s)
  BY DEF Asked, Followers
<1> QED BY <1>1 DEF FromMaster, Once

LEMMA ToMasterKept ==
  ASSUME NEW s, ToMaster(s), chan'[s][Master] = chan[s][Master],
         (life[Master] = "waiting" /\ Answers(s) /\ s \notin acked[Master])' <=>
           (life[Master] = "waiting" /\ Answers(s) /\ s \notin acked[Master]),
         life'[Master] = "waiting" =>
           life[Master] = "waiting" /\ (s \in acked'[Master] => s \in acked[Master])
  PROVE  ToMaster(s)'
BY DEF ToMaster, Once

LEMMA ToLeaderKept ==
  ASSUME NEW s, ToLeader(s), NewMaster' = NewMaster, chan'[s][NewMaster] = chan[s][NewMaster],
         (Follows(s) /\ s \in approved[NewMaster])' <=> (Follows(s) /\ s \in approved[NewMaster]),
         Restarted => Restarted'
  PROVE  ToLeader(s)'
BY DEF ToLeader, Once

LEMMA FromLeaderKept ==
  ASSUME NEW s, FromLeader(s), NewMaster' = NewMaster, chan'[NewMaster][s] = chan[NewMaster][s],
         (Follows(s) /\ state[s] = "SENT_SESSION_RECONNECT_REQUEST" /\ Restarted)' <=>
           (Follows(s) /\ state[s] = "SENT_SESSION_RECONNECT_REQUEST" /\ Restarted),
         Follows(s) => Follows(s)'
  PROVE  FromLeader(s)'
BY DEF FromLeader, Once

(* DeleteSession: the old master says that it leaves.                       *)
LEMMA DeleteHandshake ==
  ASSUME TypeOK, Handshake, NEW p \in Peers, DeleteSession(p) PROVE Handshake'
<1>1. p = Master /\ life[Master] = "released"
  <2>1. life[p] = "released"
    BY DEF DeleteSession
  <2> QED BY <2>1, Stages DEF Handshake, Way
<1>2. /\ life' = [life EXCEPT ![Master] = "gone"]
      /\ chan' = SendAll(chan, Master, Peers \ {Master}, Packet("left"))
      /\ UNCHANGED <<state, controller, collaborators, proposed, promoted, approved, acked, flushed>>
  BY <1>1 DEF DeleteSession
<1>3. Master \in Peers /\ Slaves = Peers \ {Master} /\ Packet("left") \in Packets
      /\ Packet("left").type = "left"
  BY Stages, SomePackets DEF Packet
<1>4. \A a, b \in Peers :
        chan'[a][b] = IF a = Master /\ b \in Slaves THEN Append(chan[a][b], Packet("left")) ELSE chan[a][b]
  BY <1>2, <1>3, ChanTypes, SentAll
<1>5. life'[Master] = "gone" /\ \A s \in Slaves : life'[s] = life[s]
  BY <1>2, <1>3 DEF TypeOK
<1>6. /\ Begun /\ Begun' /\ Ended /\ Ended' /\ NewMaster' = NewMaster /\ Followers' = Followers
      /\ life[Master] # "waiting" /\ life'[Master] # "waiting"
  BY <1>1, <1>2, <1>5 DEF Begun, Ended, NewMaster, Followers
<1>7. ASSUME NEW s
      PROVE  /\ Stays(s)' <=> Stays(s)
             /\ Answers(s)' <=> Answers(s)
             /\ Leads(s)' <=> Leads(s)
             /\ Follows(s)' <=> Follows(s)
  BY <1>2, StageKept
<1>8. Restarted' <=> Restarted
  BY <1>2, <1>6, <1>7 DEF Restarted
<1>9. MasterInv'
  BY <1>1, <1>2, <1>5, <1>6 DEF Handshake, MasterInv
<1>10. ASSUME NEW s \in Slaves PROVE Way(s)' /\ Member(s)'
  <2>1. Way(s) /\ Member(s)
    BY DEF Handshake
  <2>2. Way(s)'
    BY <1>2, <1>5, <1>6, <1>7, <1>8, <2>1 DEF Way
  <2>3. Member(s)'
    BY <1>2, <1>6, <1>7, <2>1 DEF Member
  <2> QED BY <2>2, <2>3
<1>11. LeaderInv'
  BY <1>2, <1>6, <1>7, <1>8 DEF Handshake, LeaderInv
<1>12. ASSUME NEW s \in Slaves PROVE FromMaster(s)'
  <2> DEFINE c == chan[Master][s]
             d == chan'[Master][s]
  <2>1. FromMaster(s)
    BY DEF Handshake
  <2>2. c \in Seq(Packets) /\ d = Append(c, Packet("left"))
    BY <1>3, <1>4, ChanTypes
  <2>3. Asked(s)' = Asked(s)
    BY <1>6 DEF Asked
  <2> HIDE DEF c, d
  <2>4. Only(d, {"change", "takeoverRequest", "flushed", "left"})
    BY <1>3, <2>1, <2>2, Sent DEF FromMaster, c
  <2>5. Once(d, "takeoverRequest", Begun /\ Stays(s)) /\ Once(d, "flushed", Ended /\ Answers(s))
    <3>1. Once(c, "takeoverRequest", Begun /\ Stays(s)) /\ Once(c, "flushed", Ended /\ Answers(s))
      BY <2>1 DEF FromMaster, c
    <3> QED BY <1>3, <2>2, <3>1, SentOnce
  <2>6. \A i \in 1..Len(d) : d[i].type = "takeoverRequest" => d[i] = Asked(s)
    <3>1. \A i \in 1..Len(c) : c[i].type = "takeoverRequest" => c[i] = Asked(s)
      BY <2>1 DEF FromMaster, c
    <3>2. /\ Len(d) = Len(c) + 1 /\ Len(c) \in Nat
          /\ \A j \in 1..Len(c) : d[j] = c[j]
          /\ d[Len(c) + 1] = Packet("left")
      BY <1>3, <2>2, AppendProperties, LenProperties
    <3>3. \A i \in 1..Len(d) : i \in 1..Len(c) \/ i = Len(c) + 1
      BY <3>2
    <3> QED BY <1>3, <3>1, <3>2, <3>3
  <2>7. NoneAfter(d, "left", "flushed")
    <3>1. NoneAfter(c, "left", "flushed")
      BY <2>1 DEF FromMaster, c
    <3> QED BY <1>3, <2>2, <3>1, Sent
  <2> QED BY <1>5, <1>6, <1>7, <2>3, <2>4, <2>5, <2>6, <2>7 DEF FromMaster, Once, d
<1>13. ASSUME NEW s \in Slaves PROVE ToMaster(s)'
  <2>1. ToMaster(s) /\ chan'[s][Master] = chan[s][Master]
    BY <1>3, <1>4 DEF Handshake
  <2> QED BY <1>6, <2>1, ToMasterKept
<1>14. ASSUME NEW s \in Followers PROVE ToLeader(s)' /\ FromLeader(s)'
  <2>1. /\ ToLeader(s) /\ FromLeader(s)
        /\ chan'[s][NewMaster] = chan[s][NewMaster] /\ chan'[NewMaster][s] = chan[NewMaster][s]
    BY <1>4, <1>6, Stages DEF Handshake
  <2> QED BY <1>2, <1>6, <1>7, <1>8, <2>1, ToLeaderKept, FromLeaderKept
<1>15. ASSUME NEW a \in Peers, NEW b \in Peers, Silent(a, b)' PROVE chan'[a][b] = <<>>
  <2>1. Silent(a, b)
    BY <1>6, <1>15 DEF Silent
  <2>2. ~(a = Master /\ b \in Slaves)
    BY <1>3, <2>1 DEF Silent
  <2> QED BY <1>4, <2>1, <2>2 DEF Handshake
<1> QED BY <1>6, <1>9, <1>10, <1>11, <1>12, <1>13, <1>14, <1>15 DEF Handshake

(* The packets of a type are all alike.                                     *)
Alike(c, t, x) == \A i \in 1..Len(c) : c[i].type = t => c[i] = x

LEMMA SentAlike ==
  ASSUME NEW S, NEW c \in Seq(S), NEW m \in S, NEW t, NEW x, Alike(c, t, x), m.type = t => m = x
  PROVE  Alike(Append(c, m), t, x)
<1>1. /\ Len(Append(c, m)) = Len(c) + 1 /\ Len(c) \in Nat
      /\ \A j \in 1..Len(c) : Append(c, m)[j] = c[j]
      /\ Append(c, m)[Len(c) + 1] = m
  BY AppendProperties, LenProperties
<1>2. \A i \in 1..Len(Append(c, m)) : i \in 1..Len(c) \/ i = Len(c) + 1
  BY <1>1
<1> QED BY <1>1, <1>2 DEF Alike

LEMMA TakenAlike ==
  ASSUME NEW S, NEW c \in Seq(S), c # <<>>, NEW t, NEW x, Alike(c, t, x)
  PROVE  Alike(Tail(c), t, x)
<1>1. Len(c) \in Nat /\ Len(Tail(c)) = Len(c) - 1 /\ \A j \in 1..Len(Tail(c)) : Tail(c)[j] = c[j + 1]
  BY HeadTailProperties, LenProperties, Zenon
<1>2. \A i \in 1..Len(Tail(c)) : i + 1 \in 1..Len(c)
  BY <1>1
<1> QED BY <1>1, <1>2 DEF Alike

(* Queues from the old master, by what is taken from them and sent.         *)
LEMMA FromMasterTaken ==
  ASSUME TypeOK, NEW s \in Slaves, FromMaster(s), chan[Master][s] # <<>>,
         chan'[Master][s] = Tail(chan[Master][s]), NewMaster' = NewMaster,
         life'[Master] = life[Master],
         IF Head(chan[Master][s]).type = "takeoverRequest"
         THEN ~(Begun /\ Stays(s))' ELSE (Begun /\ Stays(s))' <=> (Begun /\ Stays(s)),
         IF Head(chan[Master][s]).type = "flushed"
         THEN ~(Ended /\ Answers(s))' ELSE (Ended /\ Answers(s))' <=> (Ended /\ Answers(s))
  PROVE  FromMaster(s)'
<1> DEFINE c == chan[Master][s]
           d == chan'[Master][s]
<1>1. c \in Seq(Packets) /\ c # <<>> /\ d = Tail(c)
  BY ChanTypes, FinitePeers
<1>2. Asked(s)' = Asked(s)
  BY DEF Asked, Followers
<1>3. /\ Only(c, {"change", "takeoverRequest", "flushed", "left"})
      /\ Once(c, "takeoverRequest", Begun /\ Stays(s)) /\ Once(c, "flushed", Ended /\ Answers(s))
      /\ Alike(c, "takeoverRequest", Asked(s))
      /\ Has(c, "left") => life[Master] = "gone"
      /\ NoneAfter(c, "left", "flushed")
  BY DEF FromMaster, Alike
<1>4. /\ IF Head(c).type = "takeoverRequest"
         THEN ~(Begun /\ Stays(s))' ELSE (Begun /\ Stays(s))' <=> (Begun /\ Stays(s))
      /\ IF Head(c).type = "flushed"
         THEN ~(Ended /\ Answers(s))' ELSE (Ended /\ Answers(s))' <=> (Ended /\ Answers(s))
  OBVIOUS
<1> HIDE DEF c, d
<1>5. Only(d, {"change", "takeoverRequest", "flushed", "left"})
  BY <1>1, <1>3, Taken
<1>6. NoneAfter(d, "left", "flushed")
  BY <1>1, <1>3, Taken
<1>7. Has(d, "left") => Has(c, "left")
  BY <1>1, Taken
<1>8. Once(d, "takeoverRequest", (Begun /\ Stays(s))')
  <2>1. IF Head(c).type = "takeoverRequest" THEN Once(d, "takeoverRequest", FALSE)
        ELSE Once(d, "takeoverRequest", Begun /\ Stays(s))
    BY <1>1, <1>3, TakenOnce
  <2> QED BY <1>4, <2>1 DEF Once
<1>9. Once(d, "flushed", (Ended /\ Answers(s))')
  <2>1. IF Head(c).type = "flushed" THEN Once(d, "flushed", FALSE)
        ELSE Once(d, "flushed", Ended /\ Answers(s))
    BY <1>1, <1>3, TakenOnce
  <2> QED BY <1>4, <2>1 DEF Once
<1>10. Alike(d, "takeoverRequest", Asked(s))
  BY <1>1, <1>3, TakenAlike
<1> QED BY <1>2, <1>3, <1>5, <1>6, <1>7, <1>8, <1>9, <1>10 DEF FromMaster, Once, Alike, d

LEMMA FromMasterSent ==
  ASSUME TypeOK, NEW s \in Slaves, FromMaster(s), NEW m \in Packets,
         chan'[Master][s] = Append(chan[Master][s], m),
         m.type \in {"takeoverRequest", "flushed"},
         m.type = "takeoverRequest" => ~Begun /\ (Begun /\ Stays(s))' /\ m = Asked(s)',
         m.type # "takeoverRequest" =>
            NewMaster' = NewMaster /\ ((Begun /\ Stays(s))' <=> (Begun /\ Stays(s))),
         IF m.type = "flushed" THEN ~(Ended /\ Answers(s)) /\ (Ended /\ Answers(s))'
         ELSE (Ended /\ Answers(s))' <=> (Ended /\ Answers(s)),
         life[Master] # "gone"
  PROVE  FromMaster(s)'
<1> DEFINE c == chan[Master][s]
           d == chan'[Master][s]
<1>1. c \in Seq(Packets) /\ d = Append(c, m)
  BY ChanTypes, FinitePeers
<1>2. m.type # "takeoverRequest" => Asked(s)' = Asked(s)
  BY DEF Asked, Followers
<1>3. /\ Only(c, {"change", "takeoverRequest", "flushed", "left"})
      /\ Once(c, "takeoverRequest", Begun /\ Stays(s)) /\ Once(c, "flushed", Ended /\ Answers(s))
      /\ Alike(c, "takeoverRequest", Asked(s))
      /\ ~Has(c, "left")
      /\ NoneAfter(c, "left", "flushed")
  BY DEF FromMaster, Alike
<1> HIDE DEF c, d
<1>4. Only(d, {"change", "takeoverRequest", "flushed", "left"})
  BY <1>1, <1>3, Sent
<1>5. NoneAfter(d, "left", "flushed")
  BY <1>1, <1>3, Sent
<1>6. ~Has(d, "left")
  BY <1>1, <1>3, Sent
<1>7. Once(d, "takeoverRequest", (Begun /\ Stays(s))')
  <2>1. CASE m.type = "takeoverRequest"
    <3>1. Once(d, "takeoverRequest", TRUE)
      BY <1>1, <1>3, <2>1, SentOnce
    <3> QED BY <2>1, <3>1 DEF Once
  <2>2. CASE m.type # "takeoverRequest"
    <3>1. Once(d, "takeoverRequest", Begun /\ Stays(s))
      BY <1>1, <1>3, <2>2, SentOnce
    <3> QED BY <2>2, <3>1 DEF Once
  <2> QED BY <2>1, <2>2
<1>8. Once(d, "flushed", (Ended /\ Answers(s))')
  <2>1. CASE m.type = "flushed"
    <3>1. Once(d, "flushed", TRUE)
      BY <1>1, <1>3, <2>1, SentOnce
    <3> QED BY <2>1, <3>1 DEF Once
  <2>2. CASE m.type # "flushed"
    <3>1. Once(d, "flushed", Ended /\ Answers(s))
      BY <1>1, <1>3, <2>2, SentOnce
    <3> QED BY <2>2, <3>1 DEF Once
  <2> QED BY <2>1, <2>2
<1>9. Alike(d, "takeoverRequest", Asked(s)')
  <2>1. CASE m.type = "takeoverRequest"
    <3>1. ~Has(c, "takeoverRequest")
      BY <1>3, <2>1 DEF Once
    <3>2. Alike(c, "takeoverRequest", Asked(s)')
      BY <3>1 DEF Has, Alike
    <3> QED BY <1>1, <2>1, <3>2, SentAlike
  <2>2. CASE m.type # "takeoverRequest"
    <3>1. Alike(d, "takeoverRequest", Asked(s))
      BY <1>1, <1>3, <2>2, SentAlike
    <3> QED BY <1>2, <2>2, <3>1
  <2> QED BY <2>1, <2>2
<1> QED BY <1>4, <1>5, <1>6, <1>7, <1>8, <1>9 DEF FromMaster, Once, Alike, d

(* HandleRequest: a slave that stayed with the master has answered it.      *)
LEMMA RequestHandshake ==
  ASSUME TypeOK, Handshake, NEW p \in Peers, NEW q \in Peers, HandleRequest(p, q) PROVE Handshake'
<1> DEFINE m == Head(chan[q][p])
<1>1. /\ q = Master /\ p \in Slaves /\ m = Asked(p) /\ Begun /\ Stays(p)
      /\ m.type = "takeoverRequest" /\ chan[Master][p] # <<>>
  <2>1. chan[q][p] # <<>> /\ m.type = "takeoverRequest"
    BY DEF HandleRequest, HeadIs
  <2> QED BY <2>1, WhatComes
<1>2. /\ Master \in Peers /\ p # Master /\ p \in Peers /\ Slaves \subseteq Peers
      /\ NewMaster \in Slaves /\ Slaves = Followers \cup {NewMaster} /\ NewMaster \notin Followers
      /\ Master \notin Slaves
  BY <1>1, Stages
<1>3. Way(p) /\ ~Answers(p) /\ ~Leads(p) /\ ~Follows(p)
  BY <1>1, Stages DEF Handshake
<1>4. life[Master] = "waiting" /\ ~Ended /\ p \notin acked[Master]
  BY <1>1, <1>3, Stages DEF Way
<1>5. /\ promoted' = [promoted EXCEPT ![p] = m.promote]
      /\ proposed' = [proposed EXCEPT ![p] = ProposedIn(m)]
      /\ approved' = [approved EXCEPT ![p] = IF m.promote THEN m.buddies ELSE {}]
      /\ state'    = [state EXCEPT ![p] = "SENT_TAKEOVER_ACK"]
      /\ chan'     = SendAll(Received(p, Master), p, {Master}, Ack)
      /\ UNCHANGED <<life, controller, collaborators, acked, flushed>>
  BY <1>1 DEF HandleRequest
<1>6. \A a, b \in Peers :
        chan'[a][b] = IF a = p /\ b = Master THEN Append(chan[a][b], Ack)
                      ELSE IF a = Master /\ b = p THEN Tail(chan[a][b]) ELSE chan[a][b]
  <2>1. /\ Received(p, Master) \in Chans
        /\ \A a, b \in Peers :
              Received(p, Master)[a][b] = IF a = Master /\ b = p THEN Tail(chan[a][b]) ELSE chan[a][b]
    BY <1>1, <1>2, ChanTypes, ReceivedFrom
  <2> QED BY <1>2, <1>5, <2>1, SomePackets, SentAll DEF Ack
<1>7. /\ promoted'[p] = (p = NewMaster)
      /\ p # NewMaster => proposed'[p] = NewMaster
      /\ approved'[p] = IF p = NewMaster THEN Followers ELSE {}
      /\ state'[p] = "SENT_TAKEOVER_ACK"
  <2> HIDE DEF m
  <2>1. m.promote = (p = NewMaster) /\ m.buddies = IF p = NewMaster THEN Followers ELSE {NewMaster}
    BY <1>1 DEF Asked, RequestPacket
  <2>2. p # NewMaster => ProposedIn(m) = NewMaster
    BY <2>1 DEF ProposedIn
  <2> QED BY <1>2, <1>5, <2>1, <2>2 DEF TypeOK
<1>8. /\ NewMaster' = NewMaster /\ Followers' = Followers /\ Begun' /\ ~Ended'
      /\ life'[Master] = "waiting" /\ acked'[Master] = acked[Master]
  BY <1>1, <1>2, <1>4, <1>5 DEF NewMaster, Followers, Begun, Ended, TypeOK
<1>9. Answers(p)' /\ ~Stays(p)' /\ ~Leads(p)' /\ ~Follows(p)'
  <2>1. Answers(p)'
    BY <1>1, <1>5, <1>7, <1>8 DEF Stays, Answers, Named
  <2>2. controller'[p] = Master /\ Master # None
    BY <1>1, <1>5, Stages DEF Stays
  <2> QED BY <1>2, <1>7, <1>8, <2>1, <2>2 DEF Answers, Stays, Leads, Follows
<1>10. ASSUME NEW s \in Slaves, s # p
       PROVE  /\ Stays(s)' <=> Stays(s)
              /\ Answers(s)' <=> Answers(s)
              /\ Leads(s)' <=> Leads(s)
              /\ Follows(s)' <=> Follows(s)
  <2>1. /\ state'[s] = state[s] /\ promoted'[s] = promoted[s] /\ proposed'[s] = proposed[s]
        /\ controller'[s] = controller[s] /\ flushed'[s] = flushed[s]
        /\ proposed'[Master] = proposed[Master]
    BY <1>2, <1>5, <1>10 DEF TypeOK
  <2> QED BY <2>1, StageKept
<1>11. \A s \in Slaves : ~Leads(s) /\ ~Follows(s) /\ ~Leads(s)' /\ ~Follows(s)'
  BY <1>4, <1>9, <1>10, Stages
<1>12. ~Restarted /\ ~Restarted'
  BY <1>2, <1>8, <1>11 DEF Restarted
<1>13. MasterInv'
  <2>1. state'[Master] = state[Master]
    BY <1>2, <1>5 DEF TypeOK
  <2>2. controller'[Master] = controller[Master] /\ collaborators'[Master] = collaborators[Master]
    BY <1>5
  <2>3. MasterInv
    BY DEF Handshake
  <2> QED BY <1>1, <1>4, <1>8, <2>1, <2>2, <2>3 DEF MasterInv
<1>14. ASSUME NEW s \in Slaves PROVE Way(s)' /\ Member(s)'
  <2>1. Way(s) /\ Member(s)
    BY DEF Handshake
  <2>2. Way(s)'
    BY <1>4, <1>5, <1>8, <1>9, <1>10, <1>11, <2>1 DEF Way
  <2>3. collaborators'[s] = collaborators[s] /\ ~Follows(s)'
    BY <1>5, <1>11
  <2>4. CASE s = p
    <3>1. collaborators[s] \subseteq {Master}
      BY <1>1, <2>1, <2>4 DEF Member
    <3> QED BY <2>2, <2>3, <3>1 DEF Member
  <2>5. CASE s # p
    BY <1>8, <1>10, <2>1, <2>2, <2>3, <2>5 DEF Member
  <2> QED BY <2>2, <2>4, <2>5
<1>15. LeaderInv'
  <2>1. CASE p = NewMaster
    <3>1. collaborators[p] \subseteq {Master}
      BY <1>1 DEF Handshake, Member
    <3>2. approved'[p] = Followers
      BY <1>7, <2>1
    <3> QED BY <1>5, <1>8, <1>11, <1>12, <1>2, <2>1, <3>1, <3>2 DEF LeaderInv
  <2>2. CASE p # NewMaster
    <3>1. approved'[NewMaster] = approved[NewMaster]
      BY <1>5, <2>2 DEF TypeOK
    <3>3. Answers(NewMaster)' <=> Answers(NewMaster)
      BY <1>2, <1>8, <1>10, <2>2
    <3>2. Answers(NewMaster) => /\ approved[NewMaster] \subseteq Followers
                                /\ Followers \ approved[NewMaster] = {}
                                /\ collaborators[NewMaster] \ {Master} = {}
      <4>1. Answers(NewMaster) =>
              /\ approved[NewMaster] \subseteq Followers
              /\ \A s \in Followers \ approved[NewMaster] : Follows(s)
              /\ collaborators[NewMaster] \ {Master} = Followers \ approved[NewMaster]
        BY <1>1 DEF Handshake, LeaderInv
      <4> QED BY <4>1, <1>2, <1>11
    <3> QED BY <1>5, <1>8, <1>11, <1>12, <1>2, <3>1, <3>2, <3>3 DEF LeaderInv
  <2> QED BY <2>1, <2>2
<1>16. ASSUME NEW s \in Slaves PROVE FromMaster(s)'
  <2>1. FromMaster(s) /\ s \in Peers /\ s # Master
    BY <1>2 DEF Handshake
  <2>2. CASE s = p
    <3>1. chan'[Master][s] = Tail(chan[Master][s]) /\ Head(chan[Master][s]).type = "takeoverRequest"
      BY <1>1, <1>2, <1>6, <2>2
    <3>2. (Ended /\ Answers(s))' <=> (Ended /\ Answers(s))
      BY <1>4, <1>8
    <3>3. ~(Begun /\ Stays(s))'
      BY <1>9, <2>2
    <3>4. life'[Master] = life[Master]
      BY <1>5
    <3> QED BY <1>1, <1>8, <2>1, <2>2, <3>1, <3>2, <3>3, <3>4, FromMasterTaken
  <2>3. CASE s # p
    <3>1. chan'[Master][s] = chan[Master][s]
      BY <1>2, <1>6, <2>1, <2>3
    <3>2. life[Master] = "gone" => life'[Master] = "gone"
      BY <1>5
    <3>3. (Begun /\ Stays(s))' <=> (Begun /\ Stays(s))
      BY <1>1, <1>8, <1>10, <2>3
    <3>4. (Ended /\ Answers(s))' <=> (Ended /\ Answers(s))
      BY <1>4, <1>8
    <3> QED BY <1>8, <2>1, <3>1, <3>2, <3>3, <3>4, FromMasterKept
  <2> QED BY <2>2, <2>3
<1>17. ASSUME NEW s \in Slaves PROVE ToMaster(s)'
  <2>1. ToMaster(s) /\ s \in Peers /\ s # Master
    BY <1>2 DEF Handshake
  <2>2. CASE s = p
    <3> DEFINE c == chan[s][Master]
               d == chan'[s][Master]
    <3>1. c \in Seq(Packets) /\ d = Append(c, Ack) /\ Ack \in Packets /\ Ack.type = "takeoverAck"
      BY <1>2, <1>6, <2>2, ChanTypes, SomePackets DEF Ack, Packet
    <3>2. /\ Only(c, {"change", "takeoverAck"})
          /\ Once(c, "takeoverAck", FALSE)
          /\ NoneAfter(c, "takeoverAck", "change")
      BY <1>3, <1>4, <2>1, <2>2 DEF ToMaster, Once
    <3> HIDE DEF c, d
    <3>3. Only(d, {"change", "takeoverAck"}) /\ NoneAfter(d, "takeoverAck", "change")
      BY <3>1, <3>2, Sent
    <3>4. Once(d, "takeoverAck", TRUE)
      BY <3>1, <3>2, SentOnce
    <3> QED BY <1>4, <1>8, <1>9, <2>2, <3>3, <3>4 DEF ToMaster, Once, d
  <2>3. CASE s # p
    <3>1. chan'[s][Master] = chan[s][Master]
      BY <1>2, <1>6, <2>1, <2>3
    <3> QED BY <1>4, <1>8, <1>10, <2>1, <2>3, <3>1, ToMasterKept
  <2> QED BY <2>2, <2>3
<1>18. ASSUME NEW s \in Followers PROVE ToLeader(s)' /\ FromLeader(s)'
  <2>1. s \in Slaves /\ s \in Peers /\ NewMaster \in Peers /\ s # Master /\ NewMaster # Master
    BY <1>2
  <2>2. /\ ToLeader(s) /\ FromLeader(s)
        /\ chan'[s][NewMaster] = chan[s][NewMaster] /\ chan'[NewMaster][s] = chan[NewMaster][s]
    BY <1>1, <1>6, <2>1 DEF Handshake
  <2>3. ~Follows(s) /\ ~Follows(s)'
    BY <1>11, <2>1
  <2> QED BY <1>8, <1>12, <2>2, <2>3, ToLeaderKept, FromLeaderKept
<1>19. ASSUME NEW a \in Peers, NEW b \in Peers, Silent(a, b)' PROVE chan'[a][b] = <<>>
  <2>1. Silent(a, b)
    BY <1>8, <1>19 DEF Silent
  <2>2. ~(a = Master /\ b = p) /\ ~(a = p /\ b = Master)
    BY <1>2, <2>1, NotSilent
  <2> QED BY <1>6, <2>1, <2>2 DEF Handshake
<1> QED BY <1>8, <1>13, <1>14, <1>15, <1>16, <1>17, <1>18, <1>19 DEF Handshake

(* The old master has every acknowledgement when it counts as many as       *)
(* slaves.                                                                  *)
LEMMA AllSlavesAcked ==
  ASSUME NEW acks \in SUBSET Slaves, acks # {}, collaborators[Master] = Slaves, AllAcked(Master, acks)
  PROVE  acks = Slaves
<1>1. IsFiniteSet(Slaves)
  BY TakeoverPeersAssumption
<1>2. CASE Cardinality(acks) = Cardinality(Slaves)
  BY <1>1, <1>2, FS_Subset
<1>3. CASE Cardinality(Slaves) = 1
  BY <1>1, <1>3, FS_Singleton
<1> QED BY <1>2, <1>3 DEF AllAcked

(* HandleAck: the old master counts the acknowledgements, and ends the old  *)
(* session with the last one.                                               *)
LEMMA AckHandshake ==
  ASSUME TypeOK, Handshake, NEW p \in Peers, NEW q \in Peers, HandleAck(p, q) PROVE Handshake'
<1> DEFINE acks == acked[Master] \cup {q}
           all == AllAcked(Master, acks)
<1>1. /\ p = Master /\ q \in Slaves /\ life[Master] = "waiting" /\ Answers(q) /\ q \notin acked[Master]
      /\ chan[q][Master] # <<>> /\ Head(chan[q][Master]).type = "takeoverAck"
  <2>1. chan[q][p] # <<>> /\ Head(chan[q][p]).type = "takeoverAck"
    BY DEF HandleAck, HeadIs
  <2> QED BY <2>1, WhatComes
<1>2. /\ Master \in Peers /\ q # Master /\ Slaves \subseteq Peers /\ Followers \subseteq Slaves
      /\ NewMaster \in Slaves /\ Master \notin Slaves /\ Begun /\ ~Ended
  BY <1>1, Stages
<1>3. /\ acked' = [acked EXCEPT ![Master] = acks]
      /\ UNCHANGED <<controller, collaborators, proposed, promoted, approved, flushed>>
      /\ IF all
         THEN /\ state' = [state EXCEPT ![Master] = "NONE"]
              /\ life'  = [life EXCEPT ![Master] = "released"]
              /\ chan'  = SendAll(Received(Master, q), Master, collaborators[Master], Packet("flushed"))
         ELSE chan' = Received(Master, q) /\ UNCHANGED <<state, life>>
  BY <1>1 DEF HandleAck
<1>4. collaborators[Master] = Slaves /\ acked[Master] \subseteq Slaves /\ controller[Master] = None
      /\ state[Master] = "SENT_TAKEOVER_REQUEST"
  BY <1>1, <1>2 DEF Handshake, MasterInv
<1>5. all => acks = Slaves
  BY <1>1, <1>4, AllSlavesAcked
<1>6. acked'[Master] = acks /\ acks \subseteq Slaves
  BY <1>1, <1>2, <1>3, <1>4 DEF TypeOK
<1> HIDE DEF all
<1>7. /\ life'[Master] = IF all THEN "released" ELSE "waiting"
      /\ state'[Master] = IF all THEN "NONE" ELSE "SENT_TAKEOVER_REQUEST"
      /\ \A s \in Slaves : life'[s] = life[s] /\ state'[s] = state[s]
  BY <1>1, <1>2, <1>3, <1>4 DEF TypeOK
<1>8. \A a, b \in Peers :
        chan'[a][b] = IF a = q /\ b = Master THEN Tail(chan[a][b])
                      ELSE IF all /\ a = Master /\ b \in Slaves THEN Append(chan[a][b], Packet("flushed"))
                      ELSE chan[a][b]
  <2>1. /\ Received(Master, q) \in Chans
        /\ \A a, b \in Peers :
              Received(Master, q)[a][b] = IF a = q /\ b = Master THEN Tail(chan[a][b]) ELSE chan[a][b]
    BY <1>1, <1>2, ChanTypes, ReceivedFrom
  <2>2. CASE all
    BY <1>2, <1>3, <1>4, <2>1, <2>2, SomePackets, SentAll
  <2>3. CASE ~all
    BY <1>3, <2>1, <2>3
  <2> QED BY <2>2, <2>3
<1>9. NewMaster' = NewMaster /\ Followers' = Followers /\ Begun' /\ (Ended' <=> all)
  BY <1>3, <1>7 DEF NewMaster, Followers, Begun, Ended
<1>10. ASSUME NEW s \in Slaves
       PROVE  /\ Stays(s)' <=> Stays(s)
              /\ Answers(s)' <=> Answers(s)
              /\ Leads(s)' <=> Leads(s)
              /\ Follows(s)' <=> Follows(s)
  BY <1>3, <1>7, StageKept
<1>11. \A s \in Slaves : ~Leads(s) /\ ~Follows(s) /\ ~Leads(s)' /\ ~Follows(s)'
  BY <1>2, <1>10, Stages
<1>12. ~Restarted /\ ~Restarted'
  BY <1>2, <1>9, <1>11 DEF Restarted
<1>13. MasterInv'
  BY <1>2, <1>3, <1>4, <1>6, <1>7, <1>9 DEF MasterInv
<1>14. ASSUME NEW s \in Slaves PROVE Answers(s) \/ (Stays(s) /\ s \notin acks /\ ~all)
  <2>1. Answers(s) \/ (Stays(s) /\ s \notin acked[Master])
    BY <1>1 DEF Handshake, Way
  <2> QED BY <1>1, <1>5, <2>1
<1>15. ASSUME NEW s \in Slaves PROVE Way(s)' /\ Member(s)'
  <2>1. Way(s) /\ Member(s)
    BY DEF Handshake
  <2>2. Way(s)'
    <3>1. life'[s] = "in"
      BY <1>7, <2>1 DEF Way
    <3>2. life'[Master] = "waiting" => Answers(s)' \/ (Stays(s)' /\ s \notin acked'[Master])
      BY <1>6, <1>10, <1>14
    <3>3. Ended' => Answers(s)'
      BY <1>9, <1>10, <1>14
    <3> QED BY <1>9, <1>11, <3>1, <3>2, <3>3 DEF Way
  <2>3. Member(s)'
    <3>1. collaborators'[s] = collaborators[s]
      BY <1>3
    <3> QED BY <1>9, <1>10, <2>1, <3>1 DEF Member
  <2> QED BY <2>2, <2>3
<1>16. LeaderInv'
  <2>1. Answers(NewMaster) =>
          /\ approved[NewMaster] \subseteq Followers /\ \A s \in Followers \ approved[NewMaster] : Follows(s)
          /\ collaborators[NewMaster] \ {Master} = Followers \ approved[NewMaster]
    BY <1>2 DEF Handshake, LeaderInv
  <2>2. approved' = approved /\ collaborators' = collaborators
    BY <1>3
  <2>3. Answers(NewMaster)' <=> Answers(NewMaster)
    BY <1>2, <1>9, <1>10
  <2> QED BY <1>2, <1>9, <1>10, <1>11, <1>12, <2>1, <2>2, <2>3 DEF LeaderInv
<1>17. ASSUME NEW s \in Slaves PROVE FromMaster(s)'
  <2>1. FromMaster(s) /\ s \in Peers /\ s # Master
    BY <1>2 DEF Handshake
  <2>2. (Begun /\ Stays(s))' <=> (Begun /\ Stays(s))
    BY <1>2, <1>9, <1>10
  <2>3. CASE all
    <3>1. chan'[Master][s] = Append(chan[Master][s], Packet("flushed"))
      BY <1>2, <1>8, <2>3
    <3>2. Packet("flushed") \in Packets /\ Packet("flushed").type = "flushed"
      BY SomePackets DEF Packet
    <3>3. ~(Ended /\ Answers(s)) /\ (Ended /\ Answers(s))'
      BY <1>2, <1>9, <1>10, <1>14, <2>3
    <3>4. life[Master] # "gone"
      BY <1>1
    <3> QED BY <1>9, <2>1, <2>2, <3>1, <3>2, <3>3, <3>4, FromMasterSent
  <2>4. CASE ~all
    <3>1. chan'[Master][s] = chan[Master][s]
      BY <1>2, <1>8, <2>1, <2>4
    <3>2. (Ended /\ Answers(s))' <=> (Ended /\ Answers(s))
      BY <1>2, <1>9, <2>4
    <3> QED BY <1>1, <1>9, <2>1, <2>2, <3>1, <3>2, FromMasterKept
  <2> QED BY <2>3, <2>4
<1>18. ASSUME NEW s \in Slaves PROVE ToMaster(s)'
  <2> DEFINE c == chan[s][Master]
             d == chan'[s][Master]
  <2>1. ToMaster(s) /\ s \in Peers /\ s # Master
    BY <1>2 DEF Handshake
  <2>2. c \in Seq(Packets)
    BY <1>2, <2>1, ChanTypes
  <2>3. /\ Only(c, {"change", "takeoverAck"})
        /\ Once(c, "takeoverAck", Answers(s) /\ s \notin acked[Master])
        /\ NoneAfter(c, "takeoverAck", "change")
        /\ s \in acked[Master] => ~Has(c, "change")
    BY <1>1, <2>1 DEF ToMaster, Once
  <2>4. CASE s = q
    <3>1. d = Tail(c) /\ c # <<>> /\ Head(c).type = "takeoverAck"
      BY <1>1, <1>2, <1>8, <2>1, <2>4
    <3> HIDE DEF c, d
    <3>2. Only(d, {"change", "takeoverAck"})
      BY <2>2, <2>3, <3>1, Taken
    <3>3. NoneAfter(d, "takeoverAck", "change") /\ ~Has(d, "change")
      BY <2>2, <2>3, <3>1, Taken
    <3>4. Once(d, "takeoverAck", FALSE)
      BY <2>2, <2>3, <3>1, TakenOnce
    <3>5. s \in acked'[Master]
      BY <1>6, <2>4
    <3> QED BY <3>2, <3>3, <3>4, <3>5 DEF ToMaster, Once, d
  <2>5. CASE s # q
    <3>1. d = c
      BY <1>2, <1>8, <2>1, <2>5
    <3>2. s \in acked'[Master] <=> s \in acked[Master]
      BY <1>6, <2>5
    <3>3. all => s \in acked[Master]
      BY <1>5, <2>5
    <3>4. Answers(s)' <=> Answers(s)
      BY <1>10
    <3> HIDE DEF c, d
    <3>5. Once(d, "takeoverAck", (life[Master] = "waiting" /\ Answers(s) /\ s \notin acked[Master])')
      BY <1>7, <2>3, <3>1, <3>2, <3>3, <3>4 DEF Once
    <3> QED BY <2>3, <3>1, <3>2, <3>5 DEF ToMaster, Once, d
  <2> QED BY <2>4, <2>5
<1>19. ASSUME NEW s \in Followers PROVE ToLeader(s)' /\ FromLeader(s)'
  <2>1. s \in Slaves /\ s \in Peers /\ NewMaster \in Peers /\ s # Master /\ NewMaster # Master
    BY <1>2
  <2>2. /\ ToLeader(s) /\ FromLeader(s)
        /\ chan'[s][NewMaster] = chan[s][NewMaster] /\ chan'[NewMaster][s] = chan[NewMaster][s]
    BY <1>2, <1>8, <2>1 DEF Handshake
  <2>3. ~Follows(s) /\ ~Follows(s)'
    BY <1>11, <2>1
  <2> QED BY <1>9, <1>12, <2>2, <2>3, ToLeaderKept, FromLeaderKept
<1>20. ASSUME NEW a \in Peers, NEW b \in Peers, Silent(a, b)' PROVE chan'[a][b] = <<>>
  <2>1. Silent(a, b)
    BY <1>9, <1>20 DEF Silent
  <2>2. ~(a = Master /\ b \in Slaves) /\ ~(a = q /\ b = Master)
    BY <1>2, <2>1, NotSilent
  <2> QED BY <1>8, <2>1, <2>2 DEF Handshake
<1> QED BY <1>9, <1>13, <1>15, <1>16, <1>17, <1>18, <1>19, <1>20 DEF Handshake

(* What a peer has held back are changes, ...                               *)
LEMMA HeldBack ==
  ASSUME TypeOK, NEW p \in Peers
  PROVE  /\ outgoing[p] \in Seq(Packets) /\ Only(outgoing[p], {"change"})
         /\ \A t : t # "change" => ~Has(outgoing[p], t)
         /\ \A t, u : t # "change" \/ u # "change" => NoneAfter(outgoing[p], t, u)
<1>1. outgoing[p] \in Seq(Packets) /\ outgoing[p] \in Seq(ChangePackets)
  BY ChanTypes
<1>2. \A i \in 1..Len(outgoing[p]) : outgoing[p][i] \in ChangePackets
  BY <1>1, ElementOfSeq
<1>3. \A i \in 1..Len(outgoing[p]) : outgoing[p][i].type = "change"
  BY <1>2 DEF ChangePackets
<1> QED BY <1>1, <1>3 DEF Only, Has, NoneAfter

(* ... which the new master sends when it restarts, after its word.         *)
Greeting(p) == <<Packet("reconnectAck")>> \o outgoing[p]

LEMMA GreetingIs ==
  ASSUME TypeOK, NEW p \in Peers
  PROVE  /\ Greeting(p) \in Seq(Packets) /\ Only(Greeting(p), {"change", "reconnectAck"})
         /\ Has(Greeting(p), "reconnectAck") /\ NoneAfter(Greeting(p), "reconnectAck", "reconnectAck")
<1> DEFINE w == Packet("reconnectAck")
<1>1. w \in Packets /\ w.type = "reconnectAck"
  BY SomePackets DEF Packet
<1> HIDE DEF w
<1>2. <<w>> \in Seq(Packets) /\ Len(<<w>>) = 1 /\ <<w>>[1] = w /\ 1..1 = {1}
  BY <1>1
<1>3. /\ Has(<<w>>, "reconnectAck") /\ NoneAfter(<<w>>, "reconnectAck", "reconnectAck")
      /\ Only(<<w>>, {"change", "reconnectAck"})
  BY <1>1, <1>2 DEF Has, NoneAfter, Only
<1>4. /\ outgoing[p] \in Seq(Packets) /\ Only(outgoing[p], {"change", "reconnectAck"})
      /\ ~Has(outgoing[p], "reconnectAck") /\ NoneAfter(outgoing[p], "reconnectAck", "reconnectAck")
  BY HeldBack DEF Only
<1> QED BY <1>2, <1>3, <1>4, Joined DEF Greeting, w

GreetsNow(p, q, targets, now) ==
  /\ \A a \in Peers : state'[a] = IF now /\ a = p THEN "NONE" ELSE state[a]
  /\ \A a, b \in Peers :
       chan'[a][b] = IF a = q /\ b = p THEN Tail(chan[a][b])
                     ELSE IF now /\ a = p /\ b \in targets THEN chan[a][b] \o Greeting(p)
                     ELSE chan[a][b]

LEMMA RestartSends ==
  ASSUME TypeOK, NEW p \in Peers, NEW q \in Peers, p # q, chan[q][p] # <<>>,
         NEW cs, NEW told, NEW missing, CheckRestartAsMaster(p, q, cs, told, missing)
  PROVE  \E now \in BOOLEAN : (now <=> Restarts(told, missing)) /\ GreetsNow(p, q, cs, now)
<1>1. /\ Received(p, q) \in Chans
      /\ \A a, b \in Peers :
            Received(p, q)[a][b] = IF a = q /\ b = p THEN Tail(chan[a][b]) ELSE chan[a][b]
  BY ChanTypes, ReceivedFrom
<1>2. Greeting(p) \in Seq(Packets)
  BY GreetingIs
<1>3. CASE Restarts(told, missing)
  <2>1. /\ state' = [state EXCEPT ![p] = "NONE"]
        /\ chan'  = SendEach(Received(p, q), p, cs, Greeting(p))
    BY <1>3 DEF CheckRestartAsMaster, Greeting
  <2>2. \A a, b \in Peers :
          chan'[a][b] = IF a = p /\ b \in cs THEN Received(p, q)[a][b] \o Greeting(p)
                        ELSE Received(p, q)[a][b]
    BY <1>1, <1>2, <2>1, SentEach
  <2>3. \A a \in Peers : state'[a] = IF a = p THEN "NONE" ELSE state[a]
    BY <2>1 DEF TypeOK
  <2>4. GreetsNow(p, q, cs, TRUE)
    BY <1>1, <2>2, <2>3 DEF GreetsNow
  <2> QED BY <1>3, <2>4
<1>4. CASE ~Restarts(told, missing)
  <2>1. chan' = Received(p, q) /\ state' = state
    BY <1>4 DEF CheckRestartAsMaster
  <2>2. GreetsNow(p, q, cs, FALSE)
    BY <1>1, <2>1 DEF GreetsNow
  <2> QED BY <1>4, <2>2
<1> QED BY <1>3, <1>4

LEMMA FromLeaderRestarted ==
  ASSUME TypeOK, NEW s \in Peers, NewMaster \in Peers, FromLeader(s), ~Restarted,
         chan'[NewMaster][s] = chan[NewMaster][s] \o Greeting(NewMaster), NewMaster' = NewMaster,
         (Follows(s) /\ state[s] = "SENT_SESSION_RECONNECT_REQUEST" /\ Restarted)'
  PROVE  FromLeader(s)'
<1> DEFINE c == chan[NewMaster][s]
           d == chan'[NewMaster][s]
           g == Greeting(NewMaster)
<1>1. c \in Seq(Packets) /\ d = c \o g
  BY ChanTypes
<1>2. /\ g \in Seq(Packets) /\ Only(g, {"change", "reconnectAck"})
      /\ Has(g, "reconnectAck") /\ NoneAfter(g, "reconnectAck", "reconnectAck")
  BY GreetingIs
<1>3. /\ Only(c, {"change", "reconnectAck"})
      /\ ~Has(c, "reconnectAck") /\ NoneAfter(c, "reconnectAck", "reconnectAck")
  BY DEF FromLeader, Once
<1> HIDE DEF c, d, g
<1>4. Only(d, {"change", "reconnectAck"})
  BY <1>1, <1>2, <1>3, Joined
<1>5. Has(d, "reconnectAck") /\ NoneAfter(d, "reconnectAck", "reconnectAck")
  BY <1>1, <1>2, <1>3, Joined
<1> QED BY <1>4, <1>5 DEF FromLeader, Once, d

(* BecomeMaster: the new master learns that the old session has ended, and  *)
(* starts the new one if all have turned to it already.                     *)
LEMMA BecomeHandshake ==
  ASSUME TypeOK, Handshake, NEW p \in Peers, NEW q \in Peers, BecomeMaster(p, q) PROVE Handshake'
<1> DEFINE all == Restarts(TRUE, approved[p])
<1>1. /\ q = Master /\ p \in Slaves /\ Ended /\ Answers(p) /\ promoted[p]
      /\ chan[Master][p] # <<>> /\ Head(chan[Master][p]).type = "flushed"
  <2>1. chan[q][p] # <<>> /\ Head(chan[q][p]).type = "flushed" /\ promoted[p]
    BY DEF BecomeMaster, HeadIs
  <2> QED BY <2>1, WhatComes
<1>2. /\ Master \in Peers /\ Slaves \subseteq Peers /\ Followers \subseteq Slaves /\ NewMaster \notin Followers
      /\ NewMaster \in Slaves /\ Master \notin Slaves /\ Begun /\ life[Master] # "waiting"
  BY <1>1, Stages
<1>3. p = NewMaster
  BY <1>1 DEF Answers, Named
<1>4. /\ p # Master /\ Followers \subseteq Peers /\ Master \notin Followers
      /\ p \notin Followers /\ p = NewMaster
  BY <1>2, <1>3
<1>5. /\ flushed' = [flushed EXCEPT ![p] = TRUE]
      /\ controller' = [controller EXCEPT ![p] = None]
      /\ collaborators' = [collaborators EXCEPT ![p] = @ \ {Master}]
      /\ CheckRestartAsMaster(p, Master, collaborators'[p], TRUE, approved[p])
      /\ UNCHANGED <<life, proposed, promoted, approved, acked>>
  BY <1>1, <1>3 DEF BecomeMaster
<1>6. /\ approved[p] \subseteq Followers /\ \A s \in Followers \ approved[p] : Follows(s)
      /\ collaborators[p] \ {Master} = Followers \ approved[p]
  BY <1>1, <1>2, <1>3 DEF Handshake, LeaderInv
<1>7. collaborators'[p] = Followers \ approved[p] /\ (all <=> approved[p] = {})
  BY <1>4, <1>5, <1>6 DEF TypeOK, Restarts
<1>8. /\ \A a \in Peers : state'[a] = IF all /\ a = p THEN "NONE" ELSE state[a]
      /\ \A a, b \in Peers :
           chan'[a][b] = IF a = Master /\ b = p THEN Tail(chan[a][b])
                         ELSE IF all /\ a = p /\ b \in Followers THEN chan[a][b] \o Greeting(p)
                         ELSE chan[a][b]
  <2>1. Master \in Peers /\ p # Master /\ chan[Master][p] # <<>>
    BY <1>1, <1>2, <1>4
  <2>2. PICK now \in BOOLEAN : (now <=> all) /\ GreetsNow(p, Master, collaborators'[p], now)
    BY <1>5, <2>1, RestartSends
  <2>3. now => collaborators'[p] = Followers
    BY <1>7, <2>2
  <2> HIDE DEF all
  <2> QED BY <2>2, <2>3 DEF GreetsNow
<1>9. /\ NewMaster' = NewMaster /\ Followers' = Followers /\ Begun' /\ Ended'
      /\ life' = life /\ acked' = acked /\ approved' = approved
  BY <1>1, <1>2, <1>5 DEF NewMaster, Followers, Begun, Ended
<1> HIDE DEF all
<1>10. ASSUME NEW s \in Slaves, s # p
       PROVE  /\ Stays(s)' <=> Stays(s)
              /\ Answers(s)' <=> Answers(s)
              /\ Leads(s)' <=> Leads(s)
              /\ Follows(s)' <=> Follows(s)
              /\ collaborators'[s] = collaborators[s] /\ state'[s] = state[s]
  <2>1. /\ state'[s] = state[s] /\ promoted'[s] = promoted[s] /\ proposed'[s] = proposed[s]
        /\ controller'[s] = controller[s] /\ flushed'[s] = flushed[s]
        /\ proposed'[Master] = proposed[Master] /\ collaborators'[s] = collaborators[s]
    BY <1>2, <1>5, <1>8, <1>10 DEF TypeOK
  <2> QED BY <2>1, StageKept
<1>11. Leads(p)' /\ ~Answers(p)' /\ ~Stays(p)' /\ ~Follows(p)' /\ state'[p] = IF all THEN "NONE" ELSE "SENT_TAKEOVER_ACK"
  <2>1. /\ controller'[p] = None /\ flushed'[p] /\ promoted'[p] /\ Master # None
        /\ state'[p] = IF all THEN "NONE" ELSE "SENT_TAKEOVER_ACK"
    BY <1>1, <1>3, <1>4, <1>5, <1>8, Stages DEF TypeOK, Answers
  <2>2. Leads(p)'
    BY <1>4, <1>9, <2>1 DEF Leads, Named
  <2> QED BY <1>4, <1>9, <2>1, <2>2 DEF Stays, Answers, Follows
<1>12. ~Restarted /\ (Restarted' <=> all)
  <2>1. ~Leads(NewMaster)
    BY <1>1, <1>3, Stages
  <2>2. Leads(NewMaster)' /\ (state'[NewMaster'] = "NONE" <=> all)
    BY <1>4, <1>9, <1>11
  <2> QED BY <1>9, <2>1, <2>2 DEF Restarted
<1>13. MasterInv'
  <2>1. MasterInv /\ state'[Master] = state[Master]
    BY <1>2, <1>4, <1>8 DEF Handshake
  <2>2. controller'[Master] = controller[Master] /\ collaborators'[Master] = collaborators[Master]
    BY <1>4, <1>5 DEF TypeOK
  <2> QED BY <1>2, <1>9, <2>1, <2>2 DEF MasterInv
<1>14. ASSUME NEW s \in Slaves PROVE Way(s)' /\ Member(s)'
  <2>1. Way(s) /\ Member(s)
    BY DEF Handshake
  <2>2. CASE s = p
    <3>1. Way(s)'
      BY <1>2, <1>9, <1>11, <2>1, <2>2 DEF Way
    <3>2. Member(s)'
      BY <1>4, <1>9, <1>11, <2>2 DEF Member
    <3> QED BY <3>1, <3>2
  <2>3. CASE s # p
    <3>1. Way(s)'
      BY <1>1, <1>2, <1>9, <1>10, <1>12, <2>1, <2>3 DEF Way
    <3>2. Member(s)'
      BY <1>9, <1>10, <2>1, <2>3 DEF Member
    <3> QED BY <3>1, <3>2
  <2> QED BY <2>2, <2>3
<1>15. LeaderInv'
  <2>1. \A s \in Followers \ approved[p] : Follows(s)'
    BY <1>2, <1>4, <1>6, <1>10
  <2>2. Master \notin collaborators'[p]
    BY <1>4, <1>7
  <2> QED BY <1>4, <1>6, <1>7, <1>9, <1>11, <1>12, <2>1, <2>2 DEF LeaderInv
<1>16. ASSUME NEW s \in Slaves PROVE FromMaster(s)'
  <2>1. FromMaster(s) /\ s \in Peers /\ s # Master
    BY <1>2 DEF Handshake
  <2>2. CASE s = p
    <3>1. chan'[Master][s] = Tail(chan[Master][s]) /\ Head(chan[Master][s]).type = "flushed"
      BY <1>1, <1>2, <1>3, <1>8, <2>2
    <3>2. ~(Ended /\ Answers(s))'
      BY <1>11, <2>2
    <3>3. (Begun /\ Stays(s))' <=> (Begun /\ Stays(s))
      BY <1>1, <1>3, <1>11, <2>2, Stages
    <3> QED BY <1>1, <1>3, <1>9, <2>1, <2>2, <3>1, <3>2, <3>3, FromMasterTaken
  <2>3. CASE s # p
    <3>1. chan'[Master][s] = chan[Master][s]
      BY <1>2, <1>4, <1>8, <2>1, <2>3
    <3> QED BY <1>1, <1>2, <1>9, <1>10, <2>1, <2>3, <3>1, FromMasterKept
  <2> QED BY <2>2, <2>3
<1>17. ASSUME NEW s \in Slaves PROVE ToMaster(s)'
  <2>1. ToMaster(s) /\ s \in Peers /\ s # Master
    BY <1>2 DEF Handshake
  <2>2. chan'[s][Master] = chan[s][Master]
    BY <1>2, <1>4, <1>8, <2>1
  <2> QED BY <1>2, <1>9, <2>1, <2>2, ToMasterKept
<1>18. ASSUME NEW s \in Followers PROVE ToLeader(s)' /\ FromLeader(s)'
  <2>1. s \in Slaves /\ s \in Peers /\ s # Master /\ s # p /\ ToLeader(s) /\ FromLeader(s)
    BY <1>2, <1>4 DEF Handshake
  <2>2. ToLeader(s)'
    <3>1. chan'[s][p] = chan[s][p]
      BY <1>4, <1>8, <2>1
    <3> QED BY <1>4, <1>9, <1>10, <1>12, <2>1, <3>1, ToLeaderKept
  <2>3. CASE all
    <3>1. chan'[p][s] = chan[p][s] \o Greeting(p)
      BY <1>4, <1>8, <2>1, <2>3
    <3>2. Follows(s) /\ state[s] # "NONE"
      <4>1. Follows(s)
        BY <1>6, <1>7, <2>3
      <4> QED BY <1>12, <2>1, <4>1 DEF Handshake, Way
    <3>3. (Follows(s) /\ state[s] = "SENT_SESSION_RECONNECT_REQUEST" /\ Restarted)'
      BY <1>10, <1>12, <2>1, <2>3, <3>2 DEF Follows
    <3> QED BY <1>4, <1>9, <1>12, <2>1, <2>2, <3>1, <3>3, FromLeaderRestarted
  <2>4. CASE ~all
    <3>1. chan'[p][s] = chan[p][s]
      BY <1>4, <1>8, <2>1, <2>4
    <3> QED BY <1>4, <1>9, <1>10, <1>12, <2>1, <2>2, <2>4, <3>1, FromLeaderKept
  <2> QED BY <2>3, <2>4
<1>19. ASSUME NEW a \in Peers, NEW b \in Peers, Silent(a, b)' PROVE chan'[a][b] = <<>>
  <2>1. Silent(a, b)
    BY <1>9, <1>19 DEF Silent
  <2>2. ~(a = Master /\ b = p) /\ ~(a = p /\ b \in Followers)
    BY <1>2, <1>4, <2>1, NotSilent
  <2> QED BY <1>8, <2>1, <2>2 DEF Handshake
<1> QED BY <1>9, <1>13, <1>14, <1>15, <1>16, <1>17, <1>18, <1>19 DEF Handshake

(* SwitchMaster: a slave learns that the old session has ended, and asks    *)
(* the new master for the new one.                                          *)
LEMMA SwitchHandshake ==
  ASSUME TypeOK, Handshake, NEW p \in Peers, NEW q \in Peers, SwitchMaster(p, q) PROVE Handshake'
<1> DEFINE n == proposed[p]
<1>1. /\ q = Master /\ p \in Slaves /\ Ended /\ Answers(p) /\ ~promoted[p]
      /\ chan[Master][p] # <<>> /\ Head(chan[Master][p]).type = "flushed"
  <2>1. chan[q][p] # <<>> /\ Head(chan[q][p]).type = "flushed" /\ ~promoted[p]
    BY DEF SwitchMaster, HeadIs
  <2> QED BY <2>1, WhatComes
<1>2. /\ Master \in Peers /\ Slaves \subseteq Peers /\ Followers \subseteq Slaves
      /\ NewMaster \notin Followers /\ Slaves = Followers \cup {NewMaster}
      /\ NewMaster \in Slaves /\ Master \notin Slaves /\ Begun /\ life[Master] # "waiting"
      /\ None \notin Peers
  BY <1>1, Stages
<1>3. n = NewMaster /\ p # NewMaster
  BY <1>1 DEF Answers, Named
<1>4. /\ p # Master /\ NewMaster # Master /\ NewMaster \in Peers /\ p \in Followers
      /\ ~Stays(p) /\ ~Leads(p) /\ ~Follows(p)
  BY <1>1, <1>2, <1>3, Stages
<1>5. /\ flushed' = [flushed EXCEPT ![p] = TRUE]
      /\ controller' = [controller EXCEPT ![p] = NewMaster]
      /\ collaborators' = [collaborators EXCEPT ![p] = {NewMaster}]
      /\ state' = [state EXCEPT ![p] = "SENT_SESSION_RECONNECT_REQUEST"]
      /\ chan' = SendAll(Received(p, Master), p, {NewMaster}, Packet("reconnectRequest"))
      /\ UNCHANGED <<life, proposed, promoted, approved, acked>>
  BY <1>1, <1>3 DEF SwitchMaster
<1> HIDE DEF n
<1>6. \A a, b \in Peers :
        chan'[a][b] = IF a = Master /\ b = p THEN Tail(chan[a][b])
                      ELSE IF a = p /\ b = NewMaster THEN Append(chan[a][b], Packet("reconnectRequest"))
                      ELSE chan[a][b]
  <2>1. /\ Received(p, Master) \in Chans
        /\ \A a, b \in Peers :
              Received(p, Master)[a][b] = IF a = Master /\ b = p THEN Tail(chan[a][b]) ELSE chan[a][b]
    BY <1>1, <1>2, ChanTypes, ReceivedFrom
  <2> QED BY <1>4, <1>5, <2>1, SomePackets, SentAll
<1>7. /\ NewMaster' = NewMaster /\ Followers' = Followers /\ Begun' /\ Ended'
      /\ life' = life /\ acked' = acked /\ approved' = approved
  BY <1>1, <1>2, <1>5 DEF NewMaster, Followers, Begun, Ended
<1>8. ASSUME NEW s \in Slaves, s # p
      PROVE  /\ Stays(s)' <=> Stays(s)
             /\ Answers(s)' <=> Answers(s)
             /\ Leads(s)' <=> Leads(s)
             /\ Follows(s)' <=> Follows(s)
             /\ collaborators'[s] = collaborators[s] /\ state'[s] = state[s]
  <2>1. /\ state'[s] = state[s] /\ promoted'[s] = promoted[s] /\ proposed'[s] = proposed[s]
        /\ controller'[s] = controller[s] /\ flushed'[s] = flushed[s]
        /\ proposed'[Master] = proposed[Master] /\ collaborators'[s] = collaborators[s]
    BY <1>5, <1>8 DEF TypeOK
  <2> QED BY <2>1, StageKept
<1>9. /\ Follows(p)' /\ ~Answers(p)' /\ ~Stays(p)'
      /\ state'[p] = "SENT_SESSION_RECONNECT_REQUEST" /\ collaborators'[p] = {NewMaster}
  <2>1. /\ controller'[p] = NewMaster /\ flushed'[p] /\ ~promoted'[p] /\ proposed'[p] = NewMaster
        /\ state'[p] = "SENT_SESSION_RECONNECT_REQUEST" /\ collaborators'[p] = {NewMaster}
    BY <1>1, <1>3, <1>5 DEF TypeOK, n
  <2>2. Follows(p)'
    BY <1>3, <1>7, <2>1 DEF Follows, Named
  <2> QED BY <1>3, <1>7, <2>1, <2>2 DEF Stays, Answers
<1>10. /\ Answers(NewMaster) \/ Leads(NewMaster)
       /\ approved[NewMaster] \subseteq Followers
       /\ \A s \in Followers \ approved[NewMaster] : Follows(s)
       /\ collaborators[NewMaster] \ {Master} = Followers \ approved[NewMaster]
       /\ p \in approved[NewMaster]
  <2>1. Answers(NewMaster) \/ Leads(NewMaster)
    BY <1>1, <1>2 DEF Handshake, Way, Follows
  <2>2. /\ approved[NewMaster] \subseteq Followers
        /\ \A s \in Followers \ approved[NewMaster] : Follows(s)
        /\ collaborators[NewMaster] \ {Master} = Followers \ approved[NewMaster]
    BY <1>2, <2>1 DEF Handshake, LeaderInv
  <2> QED BY <1>4, <2>1, <2>2
<1>11. ~Restarted
  BY <1>2, <1>10 DEF Handshake, LeaderInv
<1>12. /\ Stays(NewMaster)' <=> Stays(NewMaster)
       /\ Answers(NewMaster)' <=> Answers(NewMaster)
       /\ Leads(NewMaster)' <=> Leads(NewMaster)
       /\ collaborators'[NewMaster] = collaborators[NewMaster]
       /\ state'[NewMaster] = state[NewMaster]
  BY <1>2, <1>3, <1>7, <1>8
<1>13. ~Restarted'
  BY <1>2, <1>7, <1>11, <1>12 DEF Restarted
<1>14. MasterInv'
  <2>1. MasterInv /\ state'[Master] = state[Master]
    BY <1>2, <1>4, <1>5 DEF Handshake, TypeOK
  <2>2. controller'[Master] = controller[Master] /\ collaborators'[Master] = collaborators[Master]
    BY <1>2, <1>4, <1>5 DEF TypeOK
  <2> QED BY <1>2, <1>7, <2>1, <2>2 DEF MasterInv
<1>15. ASSUME NEW s \in Slaves PROVE Way(s)' /\ Member(s)'
  <2>1. Way(s) /\ Member(s)
    BY DEF Handshake
  <2>2. CASE s = p
    <3>1. Way(s)'
      BY <1>2, <1>7, <1>9, <2>1, <2>2 DEF Way
    <3>2. Member(s)'
      BY <1>7, <1>9, <2>2 DEF Member
    <3> QED BY <3>1, <3>2
  <2>3. CASE s # p
    <3>1. Way(s)'
      BY <1>1, <1>2, <1>7, <1>8, <1>11, <2>1, <2>3 DEF Way
    <3>2. Member(s)'
      BY <1>7, <1>8, <2>1, <2>3 DEF Member
    <3> QED BY <3>1, <3>2
  <2> QED BY <2>2, <2>3
<1>16. LeaderInv'
  <2>1. \A s \in Followers \ approved[NewMaster] : Follows(s)'
    BY <1>2, <1>8, <1>9, <1>10
  <2>2. Leads(NewMaster) /\ state[NewMaster] = "SENT_TAKEOVER_ACK" => Master \notin collaborators[NewMaster]
    BY <1>2 DEF Handshake, LeaderInv
  <2> QED BY <1>7, <1>10, <1>12, <1>13, <2>1, <2>2 DEF LeaderInv
<1>17. ASSUME NEW s \in Slaves PROVE FromMaster(s)'
  <2>1. FromMaster(s) /\ s \in Peers /\ s # Master
    BY <1>2 DEF Handshake
  <2>2. CASE s = p
    <3>1. chan'[Master][s] = Tail(chan[Master][s]) /\ Head(chan[Master][s]).type = "flushed"
      BY <1>1, <1>2, <1>6, <2>2
    <3>2. ~(Ended /\ Answers(s))'
      BY <1>9, <2>2
    <3>3. (Begun /\ Stays(s))' <=> (Begun /\ Stays(s))
      BY <1>4, <1>9, <2>2
    <3> QED BY <1>1, <1>7, <2>1, <2>2, <3>1, <3>2, <3>3, FromMasterTaken
  <2>3. CASE s # p
    <3>1. chan'[Master][s] = chan[Master][s]
      BY <1>2, <1>4, <1>6, <2>1, <2>3
    <3> QED BY <1>1, <1>2, <1>7, <1>8, <2>1, <2>3, <3>1, FromMasterKept
  <2> QED BY <2>2, <2>3
<1>18. ASSUME NEW s \in Slaves PROVE ToMaster(s)'
  <2>1. ToMaster(s) /\ s \in Peers /\ s # Master
    BY <1>2 DEF Handshake
  <2>2. chan'[s][Master] = chan[s][Master]
    BY <1>2, <1>4, <1>6, <2>1
  <2> QED BY <1>2, <1>7, <2>1, <2>2, ToMasterKept
<1>19. ASSUME NEW s \in Followers PROVE ToLeader(s)' /\ FromLeader(s)'
  <2>1. s \in Slaves /\ s \in Peers /\ s # Master /\ s # NewMaster /\ ToLeader(s) /\ FromLeader(s)
    BY <1>2 DEF Handshake
  <2>2. FromLeader(s)'
    <3>1. chan'[NewMaster][s] = chan[NewMaster][s]
      BY <1>3, <1>4, <1>6, <2>1
    <3>2. Follows(s) => Follows(s)'
      BY <1>8, <1>9, <2>1
    <3> QED BY <1>7, <1>11, <1>13, <2>1, <3>1, <3>2, FromLeaderKept
  <2>3. CASE s = p
    <3> DEFINE c == chan[s][NewMaster]
               d == chan'[s][NewMaster]
               m == Packet("reconnectRequest")
    <3>1. c \in Seq(Packets) /\ d = Append(c, m) /\ m \in Packets /\ m.type = "reconnectRequest"
      BY <1>4, <1>6, <2>1, <2>3, ChanTypes, SomePackets DEF Packet
    <3>2. Only(c, {"change", "reconnectRequest"}) /\ Once(c, "reconnectRequest", FALSE)
          /\ ~Has(c, "change")
      BY <1>4, <1>11, <2>1, <2>3 DEF ToLeader, Once
    <3> HIDE DEF c, d, m
    <3>3. Only(d, {"change", "reconnectRequest"}) /\ ~Has(d, "change")
      BY <3>1, <3>2, Sent
    <3>4. Once(d, "reconnectRequest", TRUE)
      BY <3>1, <3>2, SentOnce
    <3>5. ToLeader(s)'
      BY <1>7, <1>9, <1>10, <2>3, <3>3, <3>4 DEF ToLeader, Once, d
    <3> QED BY <2>2, <3>5
  <2>4. CASE s # p
    <3>1. chan'[s][NewMaster] = chan[s][NewMaster]
      BY <1>4, <1>6, <2>1, <2>4
    <3> QED BY <1>7, <1>8, <1>11, <2>1, <2>2, <2>4, <3>1, ToLeaderKept
  <2> QED BY <2>3, <2>4
<1>20. ASSUME NEW a \in Peers, NEW b \in Peers, Silent(a, b)' PROVE chan'[a][b] = <<>>
  <2>1. Silent(a, b)
    BY <1>7, <1>20 DEF Silent
  <2>2. ~(a = Master /\ b = p) /\ ~(a = p /\ b = NewMaster)
    BY <1>3, <1>4, <2>1, NotSilent
  <2> QED BY <1>6, <2>1, <2>2 DEF Handshake
<1> QED BY <1>7, <1>14, <1>15, <1>16, <1>17, <1>18, <1>19, <1>20 DEF Handshake

(* HandleReconnectRequest: a slave turns to the new master, which starts    *)
(* the new session when all have and the old one has ended.                 *)
LEMMA ReconnectHandshake ==
  ASSUME TypeOK, Handshake, NEW p \in Peers, NEW q \in Peers, HandleReconnectRequest(p, q)
  PROVE  Handshake'
<1> DEFINE missing == approved[p] \ {q}
           all == Restarts(flushed[p], missing)
<1>1. /\ Begun /\ q \in Followers /\ p = NewMaster /\ Follows(q) /\ q \in approved[p]
      /\ chan[q][p] # <<>> /\ Head(chan[q][p]).type = "reconnectRequest"
      /\ state[p] = "SENT_TAKEOVER_ACK"
  <2>1. chan[q][p] # <<>> /\ Head(chan[q][p]).type = "reconnectRequest" /\ state[p] = "SENT_TAKEOVER_ACK"
    BY DEF HandleReconnectRequest, HeadIs, ReconnectAllowed
  <2>2. Begun /\ q \in Followers /\ p = NewMaster
    BY <2>1, WhatComes
  <2>3. Follows(q) /\ q \in approved[p]
    BY <2>1, WhatComes
  <2> QED BY <2>1, <2>2, <2>3
<1>2. /\ Master \in Peers /\ Slaves \subseteq Peers /\ Followers \subseteq Slaves
      /\ p \notin Followers /\ Slaves = Followers \cup {p}
      /\ p \in Slaves /\ Master \notin Slaves /\ None \notin Peers
  BY <1>1, Stages
<1>3. p # q /\ q # Master /\ p # Master /\ Ended /\ life[Master] # "waiting"
  <2>1. p # q /\ q # Master /\ p # Master /\ q \in Slaves
    BY <1>1, <1>2
  <2>2. Ended
    BY <1>1, <2>1, Stages
  <2> QED BY <2>1, <2>2, Stages
<1>4. /\ approved' = [approved EXCEPT ![p] = missing]
      /\ collaborators' = [collaborators EXCEPT ![p] = @ \cup {q}]
      /\ CheckRestartAsMaster(p, q, collaborators'[p], flushed[p], missing)
      /\ UNCHANGED <<life, controller, proposed, promoted, acked, flushed>>
  <2>1. /\ approved' = [approved EXCEPT ![p] = missing]
        /\ collaborators' = [collaborators EXCEPT ![p] = @ \cup {q}]
        /\ CheckRestartAsMaster(p, q, collaborators'[p], flushed[p], approved'[p])
        /\ UNCHANGED <<life, controller, proposed, promoted, acked, flushed>>
    BY DEF HandleReconnectRequest
  <2>2. approved'[p] = missing
    BY <2>1 DEF TypeOK
  <2> QED BY <2>1, <2>2
<1>5. /\ Answers(p) \/ Leads(p)
      /\ approved[p] \subseteq Followers
      /\ \A s \in Followers \ approved[p] : Follows(s)
      /\ collaborators[p] \ {Master} = Followers \ approved[p]
      /\ Leads(p) => Master \notin collaborators[p]
  <2>1. Answers(p) \/ Leads(p)
    BY <1>1, <1>2, <1>3 DEF Handshake, Way, Follows
  <2>2. /\ approved[p] \subseteq Followers
        /\ \A s \in Followers \ approved[p] : Follows(s)
        /\ collaborators[p] \ {Master} = Followers \ approved[p]
        /\ Leads(p) => Master \notin collaborators[p]
    BY <1>1, <2>1 DEF Handshake, LeaderInv
  <2> QED BY <2>1, <2>2
<1>6. /\ approved'[p] = missing /\ collaborators'[p] = collaborators[p] \cup {q}
      /\ missing \subseteq Followers
      /\ \A s \in Followers \ missing : Follows(s)
      /\ collaborators'[p] \ {Master} = Followers \ missing
      /\ all <=> Leads(p) /\ missing = {}
  <2>1. approved'[p] = missing /\ collaborators'[p] = collaborators[p] \cup {q}
    BY <1>4 DEF TypeOK
  <2>2. flushed[p] <=> Leads(p)
    BY <1>5, Stages DEF Answers, Leads
  <2>3. all <=> Leads(p) /\ missing = {}
    BY <2>2 DEF Restarts
  <2> QED BY <1>1, <1>2, <1>3, <1>5, <2>1, <2>3
<1>7. all => collaborators'[p] = Followers
  BY <1>3, <1>5, <1>6
<1> HIDE DEF missing
<1>8. /\ \A a \in Peers : state'[a] = IF all /\ a = p THEN "NONE" ELSE state[a]
      /\ \A a, b \in Peers :
           chan'[a][b] = IF a = q /\ b = p THEN Tail(chan[a][b])
                         ELSE IF all /\ a = p /\ b \in Followers THEN chan[a][b] \o Greeting(p)
                         ELSE chan[a][b]
  <2>1. PICK now \in BOOLEAN : (now <=> all) /\ GreetsNow(p, q, collaborators'[p], now)
    BY <1>1, <1>3, <1>4, RestartSends
  <2>2. now => collaborators'[p] = Followers
    BY <1>7, <2>1
  <2> HIDE DEF all
  <2> QED BY <2>1, <2>2 DEF GreetsNow
<1>9. /\ NewMaster' = NewMaster /\ Followers' = Followers /\ Begun' /\ Ended'
      /\ life' = life /\ acked' = acked /\ \A s \in Slaves \ {p} : approved'[s] = approved[s]
  BY <1>1, <1>2, <1>3, <1>4 DEF NewMaster, Followers, Begun, Ended, TypeOK
<1> HIDE DEF all
<1>10. ASSUME NEW s \in Slaves
       PROVE  /\ Stays(s)' <=> Stays(s)
              /\ Answers(s)' <=> Answers(s)
              /\ Leads(s)' <=> Leads(s)
              /\ Follows(s)' <=> Follows(s)
              /\ s # p => collaborators'[s] = collaborators[s] /\ state'[s] = state[s]
  <2>1. /\ promoted'[s] = promoted[s] /\ proposed'[s] = proposed[s]
        /\ controller'[s] = controller[s] /\ flushed'[s] = flushed[s]
        /\ proposed'[Master] = proposed[Master]
        /\ s # p => state'[s] = state[s] /\ collaborators'[s] = collaborators[s]
    BY <1>2, <1>4, <1>8 DEF TypeOK
  <2>2. CASE state'[s] = state[s]
    <3>1. all /\ s = p => ~Answers(s)
      BY <1>6, <1>2, Stages
    <3> QED BY <2>1, <2>2, <3>1, StageKept
  <2>3. CASE s = p /\ all /\ state'[s] = "NONE"
    <3>1. Leads(s) /\ ~Stays(s) /\ ~Follows(s)
      BY <1>2, <1>6, <2>3, Stages
    <3>2. controller'[s] = None /\ Master # None /\ NewMaster' = NewMaster /\ NewMaster \in Peers
      BY <1>1, <1>2, <1>9, <2>1, <3>1 DEF Leads
    <3> QED BY <1>2, <2>1, <2>3, <3>1, <3>2 DEF Leads, Stays, Answers, Follows, Named
  <2> QED BY <1>2, <1>8, <2>2, <2>3
<1>11. ~Restarted /\ (Restarted' <=> all)
  <2>1. state[NewMaster] # "NONE" /\ (Restarted <=> Begun /\ Leads(NewMaster) /\ state[NewMaster] = "NONE")
    BY <1>1 DEF Restarted
  <2>2. Leads(p)' <=> Leads(p)
    BY <1>2, <1>10
  <2>3. state'[p] = "NONE" <=> all
    BY <1>1, <1>2, <1>8
  <2>4. Restarted' <=> Leads(p)' /\ state'[p] = "NONE"
    BY <1>1, <1>9 DEF Restarted
  <2> QED BY <1>6, <2>1, <2>2, <2>3, <2>4
<1>12. MasterInv'
  <2>1. MasterInv /\ state'[Master] = state[Master]
    BY <1>2, <1>3, <1>8 DEF Handshake
  <2>2. controller'[Master] = controller[Master] /\ collaborators'[Master] = collaborators[Master]
    BY <1>2, <1>3, <1>4 DEF TypeOK
  <2> QED BY <1>1, <1>9, <2>1, <2>2 DEF MasterInv
<1>13. ASSUME NEW s \in Slaves PROVE Way(s)' /\ Member(s)'
  <2>1. Way(s) /\ Member(s)
    BY DEF Handshake
  <2>2. Answers(s) \/ Leads(s) \/ Follows(s)
    BY <1>3, <2>1 DEF Way
  <2>3. ~Stays(s) /\ ~Stays(s)'
    BY <1>10, <2>2, Stages
  <2>4. Answers(s)' \/ Leads(s)' \/ Follows(s)'
    BY <1>6, <1>10, <2>2
  <2>5. Follows(s)' /\ state'[s] = "NONE" => FALSE
    <3>1. s = p => ~Follows(s)
      BY <1>1 DEF Follows
    <3> QED BY <1>10, <1>11, <2>1, <3>1 DEF Way
  <2>6. Way(s)'
    BY <1>1, <1>3, <1>9, <2>1, <2>4, <2>5 DEF Way
  <2>7. Member(s)'
    <3>1. CASE s = p
      <4>1. s = NewMaster' /\ ~Follows(s)'
        BY <1>1, <1>9, <3>1 DEF Follows
      <4> QED BY <2>3, <4>1 DEF Member
    <3>2. CASE s # p
      BY <1>9, <1>10, <2>1, <3>2 DEF Member
    <3> QED BY <3>1, <3>2
  <2> QED BY <2>6, <2>7
<1>14. LeaderInv'
  <2>1. \A s \in Followers \ missing : Follows(s)'
    BY <1>2, <1>6, <1>10
  <2>2. Leads(p)' => Master \notin collaborators'[p]
    BY <1>2, <1>3, <1>5, <1>6, <1>10
  <2>3. Restarted' => missing = {}
    BY <1>6, <1>11
  <2>4. Leads(NewMaster)' <=> Leads(p)'
    BY <1>1, <1>9
  <2> QED BY <1>1, <1>6, <1>9, <2>1, <2>2, <2>3, <2>4 DEF LeaderInv
<1>15. ASSUME NEW s \in Slaves PROVE FromMaster(s)' /\ ToMaster(s)'
  <2>1. FromMaster(s) /\ ToMaster(s) /\ s \in Peers /\ s # Master
    BY <1>2 DEF Handshake
  <2>2. chan'[Master][s] = chan[Master][s] /\ chan'[s][Master] = chan[s][Master]
    BY <1>2, <1>3, <1>8, <2>1
  <2>3. (Begun /\ Stays(s))' <=> (Begun /\ Stays(s))
    BY <1>1, <1>9, <1>10
  <2>4. (Ended /\ Answers(s))' <=> (Ended /\ Answers(s))
    <3>1. all /\ s = p => ~Answers(s)
      BY <1>2, <1>6, Stages
    <3> QED BY <1>3, <1>9, <1>10, <3>1
  <2>5. FromMaster(s)'
    BY <1>9, <2>1, <2>2, <2>3, <2>4, FromMasterKept
  <2>6. ToMaster(s)'
    BY <1>3, <1>9, <2>1, <2>2, ToMasterKept
  <2> QED BY <2>5, <2>6
<1>16. ASSUME NEW s \in Followers PROVE ToLeader(s)'
  <2>1. s \in Slaves /\ s \in Peers /\ s # Master /\ s # p /\ ToLeader(s)
    BY <1>1, <1>2 DEF Handshake
  <2>2. CASE s = q
    <3> DEFINE c == chan[q][p]
               d == chan'[q][p]
    <3>1. c \in Seq(Packets) /\ c # <<>> /\ d = Tail(c) /\ Head(c).type = "reconnectRequest"
      BY <1>1, <1>8, ChanTypes
    <3>2. Only(c, {"change", "reconnectRequest"}) /\ Once(c, "reconnectRequest", TRUE)
          /\ ~Has(c, "change")
      BY <1>1, <1>11, <2>1, <2>2 DEF ToLeader, Once
    <3> HIDE DEF c, d
    <3>3. Only(d, {"change", "reconnectRequest"}) /\ ~Has(d, "change")
      BY <3>1, <3>2, Taken
    <3>4. Once(d, "reconnectRequest", FALSE)
      BY <3>1, <3>2, TakenOnce
    <3>5. q \notin approved'[NewMaster'] /\ chan'[q][NewMaster'] = d
      BY <1>1, <1>6, <1>9 DEF d, missing
    <3> QED BY <2>2, <3>3, <3>4, <3>5 DEF ToLeader, Once
  <2>3. CASE s # q
    <3>1. chan'[s][NewMaster] = chan[s][NewMaster]
      BY <1>1, <1>8, <2>1, <2>3
    <3>2. s \in approved'[NewMaster] <=> s \in approved[NewMaster]
      BY <1>1, <1>6, <2>3 DEF missing
    <3>3. Follows(s)' <=> Follows(s)
      BY <1>10, <2>1
    <3> QED BY <1>9, <1>11, <2>1, <3>1, <3>2, <3>3, ToLeaderKept
  <2> QED BY <2>2, <2>3
<1>17. ASSUME NEW s \in Followers PROVE FromLeader(s)'
  <2>1. s \in Slaves /\ s \in Peers /\ s # Master /\ s # p /\ FromLeader(s)
    BY <1>1, <1>2 DEF Handshake
  <2>2. (Follows(s)' <=> Follows(s)) /\ state'[s] = state[s]
    BY <1>10, <2>1
  <2>3. CASE all
    <3>1. chan'[p][s] = chan[p][s] \o Greeting(p)
      BY <1>3, <1>8, <2>1, <2>3
    <3>2. Follows(s) /\ state[s] # "NONE"
      <4>1. Follows(s)
        BY <1>6, <2>3
      <4> QED BY <1>11, <2>1, <4>1 DEF Handshake, Way
    <3>3. (Follows(s) /\ state[s] = "SENT_SESSION_RECONNECT_REQUEST" /\ Restarted)'
      BY <1>11, <2>2, <2>3, <3>2 DEF Follows
    <3> QED BY <1>1, <1>9, <1>11, <2>1, <3>1, <3>3, FromLeaderRestarted
  <2>4. CASE ~all
    <3>1. chan'[p][s] = chan[p][s]
      BY <1>3, <1>8, <2>1, <2>4
    <3> QED BY <1>1, <1>9, <1>11, <2>1, <2>2, <2>4, <3>1, FromLeaderKept
  <2> QED BY <2>3, <2>4
<1>18. ASSUME NEW a \in Peers, NEW b \in Peers, Silent(a, b)' PROVE chan'[a][b] = <<>>
  <2>1. Silent(a, b)
    BY <1>9, <1>18 DEF Silent
  <2>2. ~(a = q /\ b = p) /\ ~(a = p /\ b \in Followers)
    BY <1>1, <1>2, <1>3, <2>1, NotSilent
  <2> QED BY <1>8, <2>1, <2>2 DEF Handshake
<1> QED BY <1>9, <1>12, <1>13, <1>14, <1>15, <1>16, <1>17, <1>18 DEF Handshake

(* RestartAsSlave: a slave is in the new session, and sends what it has     *)
(* held back.                                                               *)
LEMMA RestartHandshake ==
  ASSUME TypeOK, Handshake, NEW p \in Peers, NEW q \in Peers, RestartAsSlave(p, q)
  PROVE  Handshake'
<1>1. /\ Begun /\ q = NewMaster /\ p \in Followers /\ Follows(p) /\ Restarted
      /\ chan[q][p] # <<>> /\ Head(chan[q][p]).type = "reconnectAck"
      /\ state[p] = "SENT_SESSION_RECONNECT_REQUEST"
  <2>1. chan[q][p] # <<>> /\ Head(chan[q][p]).type = "reconnectAck"
    BY DEF RestartAsSlave, HeadIs
  <2>2. /\ \/ q = Master /\ Head(chan[q][p]).type \in {"change", "takeoverRequest", "flushed", "left"}
           \/ Head(chan[q][p]).type \in {"change", "takeoverAck"}
           \/ Head(chan[q][p]).type = "reconnectRequest" \/ Head(chan[q][p]).type = "change"
           \/ Begun /\ q = NewMaster /\ p \in Followers
        /\ Follows(p) /\ state[p] = "SENT_SESSION_RECONNECT_REQUEST" /\ Restarted
    BY <2>1, WhatComes
  <2> QED BY <2>1, <2>2
<1>2. /\ Master \in Peers /\ Slaves \subseteq Peers /\ Followers \subseteq Slaves
      /\ q \notin Followers /\ Slaves = Followers \cup {q}
      /\ q \in Slaves /\ Master \notin Slaves /\ Ended /\ life[Master] # "waiting"
  <2>1. Ended
    BY <1>1, Stages
  <2> QED BY <1>1, <2>1, Stages
<1>3. p # q /\ q # Master /\ p # Master /\ p \in Slaves /\ Followers \subseteq Peers /\ p \in Peers
  BY <1>1, <1>2
<1>4. /\ state' = [state EXCEPT ![p] = "NONE"]
      /\ chan'  = SendEach(Received(p, q), p, collaborators[p], outgoing[p])
      /\ UNCHANGED <<life, controller, collaborators, proposed, promoted, approved, acked, flushed>>
  BY DEF RestartAsSlave
<1>5. collaborators[p] \subseteq {Master, q}
  BY <1>1, <1>3 DEF Handshake, Member
<1>6. \A a, b \in Peers :
        chan'[a][b] = IF a = q /\ b = p THEN Tail(chan[a][b])
                      ELSE IF a = p /\ b \in collaborators[p] THEN chan[a][b] \o outgoing[p]
                      ELSE chan[a][b]
  <2>1. /\ Received(p, q) \in Chans
        /\ \A a, b \in Peers :
              Received(p, q)[a][b] = IF a = q /\ b = p THEN Tail(chan[a][b]) ELSE chan[a][b]
    BY <1>1, ChanTypes, ReceivedFrom
  <2>2. outgoing[p] \in Seq(Packets)
    BY HeldBack
  <2>3. \A a, b \in Peers :
          chan'[a][b] = IF a = p /\ b \in collaborators[p] THEN Received(p, q)[a][b] \o outgoing[p]
                        ELSE Received(p, q)[a][b]
    BY <1>4, <2>1, <2>2, SentEach
  <2> QED BY <1>3, <2>1, <2>3
<1>7. /\ NewMaster' = NewMaster /\ Followers' = Followers /\ Begun' /\ Ended'
      /\ life' = life /\ acked' = acked /\ approved' = approved /\ collaborators' = collaborators
  BY <1>1, <1>2, <1>4 DEF NewMaster, Followers, Begun, Ended
<1>8. state'[p] = "NONE" /\ \A s \in Peers : s # p => state'[s] = state[s]
  BY <1>4 DEF TypeOK
<1>9. ASSUME NEW s \in Slaves
      PROVE  /\ Stays(s)' <=> Stays(s)
             /\ Answers(s)' <=> Answers(s)
             /\ Leads(s)' <=> Leads(s)
             /\ Follows(s)' <=> Follows(s)
  <2>1. CASE s # p
    <3>1. state'[s] = state[s]
      BY <1>2, <1>8, <2>1
    <3> QED BY <1>4, <3>1, StageKept
  <2>2. CASE s = p
    <3>1. controller'[p] = NewMaster /\ NewMaster # Master /\ NewMaster # None /\ p # NewMaster
      BY <1>1, <1>2, <1>3, <1>4, Stages DEF Follows
    <3>2. Follows(p)' /\ ~Stays(p)' /\ ~Answers(p)' /\ ~Leads(p)'
      BY <1>1, <1>4, <1>7, <1>8, <3>1 DEF Follows, Named, Stays, Answers, Leads
    <3>3. ~Stays(p) /\ ~Answers(p) /\ ~Leads(p)
      BY <1>1, <1>3, Stages
    <3> QED BY <1>1, <2>2, <3>2, <3>3
  <2> QED BY <2>1, <2>2
<1>10. Restarted'
  <2>1. Leads(q) /\ state[q] = "NONE"
    BY <1>1 DEF Restarted
  <2>2. Leads(q)' /\ state'[q] = "NONE"
    BY <1>2, <1>3, <1>8, <1>9, <2>1
  <2> QED BY <1>1, <1>7, <2>2 DEF Restarted
<1>11. MasterInv'
  <2>1. MasterInv /\ state'[Master] = state[Master]
    BY <1>2, <1>3, <1>8 DEF Handshake
  <2>2. controller'[Master] = controller[Master]
    BY <1>4
  <2> QED BY <1>1, <1>7, <2>1, <2>2 DEF MasterInv
<1>12. ASSUME NEW s \in Slaves PROVE Way(s)' /\ Member(s)'
  <2>1. Way(s) /\ Member(s)
    BY DEF Handshake
  <2>2. Way(s)'
    BY <1>1, <1>2, <1>7, <1>9, <1>10, <2>1 DEF Way
  <2>3. Member(s)'
    BY <1>7, <1>9, <2>1 DEF Member
  <2> QED BY <2>2, <2>3
<1>13. LeaderInv'
  <2>1. Leads(q) /\ approved[q] = {} /\ approved[q] \subseteq Followers
        /\ \A s \in Followers \ approved[q] : Follows(s)
    BY <1>1 DEF Handshake, LeaderInv, Restarted
  <2>2. collaborators[q] \ {Master} = Followers \ approved[q]
    BY <1>1, <2>1 DEF Handshake, LeaderInv
  <2>3. \A s \in Followers \ approved[q] : Follows(s)'
    BY <1>2, <1>9, <2>1
  <2>4. state'[q] # "SENT_TAKEOVER_ACK"
    BY <1>1, <1>2, <1>3, <1>8 DEF Restarted
  <2> QED BY <1>1, <1>7, <2>1, <2>2, <2>3, <2>4 DEF LeaderInv
<1>14. ASSUME NEW s \in Slaves PROVE FromMaster(s)'
  <2>1. FromMaster(s) /\ s \in Peers /\ s # Master
    BY <1>2 DEF Handshake
  <2>2. chan'[Master][s] = chan[Master][s]
    BY <1>2, <1>3, <1>6, <2>1
  <2> QED BY <1>1, <1>2, <1>7, <1>9, <2>1, <2>2, FromMasterKept
<1>15. ASSUME NEW s \in Slaves PROVE ToMaster(s)'
  <2> DEFINE c == chan[s][Master]
             d == chan'[s][Master]
  <2>1. ToMaster(s) /\ s \in Peers /\ s # Master
    BY <1>2 DEF Handshake
  <2>2. CASE d = c
    BY <1>2, <1>7, <2>1, <2>2, ToMasterKept
  <2>3. CASE d = c \o outgoing[p]
    <3>1. c \in Seq(Packets) /\ Only(c, {"change", "takeoverAck"}) /\ Once(c, "takeoverAck", FALSE)
      BY <1>2, <2>1, ChanTypes DEF ToMaster, Once
    <3>2. /\ outgoing[p] \in Seq(Packets) /\ Only(outgoing[p], {"change", "takeoverAck"})
          /\ ~Has(outgoing[p], "takeoverAck") /\ NoneAfter(outgoing[p], "takeoverAck", "takeoverAck")
      BY HeldBack DEF Only
    <3> HIDE DEF c, d
    <3>3. Only(d, {"change", "takeoverAck"})
      BY <2>3, <3>1, <3>2, Joined
    <3>4. ~Has(d, "takeoverAck") /\ NoneAfter(d, "takeoverAck", "takeoverAck")
      BY <2>3, <3>1, <3>2, Joined DEF Once
    <3> QED BY <1>2, <1>7, <3>3, <3>4 DEF ToMaster, Once, d
  <2> QED BY <1>2, <1>3, <1>6, <2>1, <2>2, <2>3
<1>16. ASSUME NEW s \in Followers PROVE ToLeader(s)'
  <2> DEFINE c == chan[s][q]
             d == chan'[s][q]
  <2>1. ToLeader(s) /\ s \in Slaves /\ s \in Peers /\ s # q
    BY <1>1, <1>2 DEF Handshake
  <2>2. CASE d = c
    BY <1>1, <1>7, <1>9, <1>10, <2>1, <2>2, ToLeaderKept
  <2>3. CASE d = c \o outgoing[p]
    <3>1. approved[q] = {}
      BY <1>1 DEF Handshake, LeaderInv
    <3>2. /\ c \in Seq(Packets) /\ Only(c, {"change", "reconnectRequest"})
          /\ Once(c, "reconnectRequest", FALSE)
      BY <1>1, <2>1, <3>1, ChanTypes DEF ToLeader, Once
    <3>3. /\ outgoing[p] \in Seq(Packets) /\ Only(outgoing[p], {"change", "reconnectRequest"})
          /\ ~Has(outgoing[p], "reconnectRequest")
          /\ NoneAfter(outgoing[p], "reconnectRequest", "reconnectRequest")
      BY HeldBack DEF Only
    <3> HIDE DEF c, d
    <3>4. Only(d, {"change", "reconnectRequest"})
      BY <2>3, <3>2, <3>3, Joined
    <3>5. ~Has(d, "reconnectRequest") /\ NoneAfter(d, "reconnectRequest", "reconnectRequest")
      BY <2>3, <3>2, <3>3, Joined DEF Once
    <3> QED BY <1>1, <1>7, <1>10, <3>1, <3>4, <3>5 DEF ToLeader, Once, d
  <2> QED BY <1>1, <1>2, <1>3, <1>6, <2>1, <2>2, <2>3
<1>17. ASSUME NEW s \in Followers PROVE FromLeader(s)'
  <2>1. FromLeader(s) /\ s \in Slaves /\ s \in Peers /\ s # q
    BY <1>1, <1>2 DEF Handshake
  <2>2. CASE s = p
    <3> DEFINE c == chan[q][p]
               d == chan'[q][p]
    <3>1. c \in Seq(Packets) /\ c # <<>> /\ d = Tail(c) /\ Head(c).type = "reconnectAck"
      BY <1>1, <1>6, ChanTypes
    <3>2. Only(c, {"change", "reconnectAck"}) /\ Once(c, "reconnectAck", TRUE)
      BY <1>1, <2>1, <2>2 DEF FromLeader, Once
    <3>3. chan'[NewMaster'][s] = d
      BY <1>1, <1>7, <2>2
    <3> HIDE DEF c, d
    <3>4. Only(d, {"change", "reconnectAck"})
      BY <3>1, <3>2, Taken
    <3>5. Once(d, "reconnectAck", FALSE)
      BY <3>1, <3>2, TakenOnce
    <3>6. Follows(s)' /\ state'[s] # "SENT_SESSION_RECONNECT_REQUEST"
      BY <1>1, <1>3, <1>8, <1>9, <2>2
    <3> QED BY <3>3, <3>4, <3>5, <3>6 DEF FromLeader, Once
  <2>3. CASE s # p
    <3>1. chan'[NewMaster][s] = chan[NewMaster][s]
      BY <1>1, <1>3, <1>6, <2>1, <2>3
    <3>2. (Follows(s)' <=> Follows(s)) /\ state'[s] = state[s]
      BY <1>8, <1>9, <2>1, <2>3
    <3> QED BY <1>1, <1>7, <1>10, <2>1, <3>1, <3>2, FromLeaderKept
  <2> QED BY <2>2, <2>3
<1>18. ASSUME NEW a \in Peers, NEW b \in Peers, Silent(a, b)' PROVE chan'[a][b] = <<>>
  <2>1. Silent(a, b)
    BY <1>7, <1>18 DEF Silent
  <2>2. ~(a = q /\ b = p) /\ ~(a = p /\ b \in {Master, q})
    BY <1>1, <1>3, <2>1, NotSilent
  <2> QED BY <1>5, <1>6, <2>1, <2>2 DEF Handshake
<1> QED BY <1>7, <1>11, <1>12, <1>13, <1>14, <1>15, <1>16, <1>17, <1>18 DEF Handshake

(* RemoveBuddy: a slave, now in the new session, drops the old master.      *)
LEMMA RemoveHandshake ==
  ASSUME TypeOK, Handshake, NEW p \in Peers, NEW q \in Peers, RemoveBuddy(p, q) PROVE Handshake'
<1>1. /\ q = Master /\ p \in Slaves /\ life[Master] = "gone" /\ ~Answers(p)
      /\ chan[Master][p] # <<>> /\ Head(chan[Master][p]).type = "left"
  <2>1. chan[q][p] # <<>> /\ Head(chan[q][p]).type = "left"
    BY DEF RemoveBuddy, HeadIs
  <2> QED BY <2>1, WhatComes
<1>2. /\ Master \in Peers /\ Slaves \subseteq Peers /\ Followers \subseteq Slaves
      /\ NewMaster \notin Followers /\ NewMaster \in Slaves /\ Master \notin Slaves
      /\ Ended /\ Begun /\ life[Master] # "waiting" /\ None # Master
  <2>1. Ended
    BY <1>1 DEF Ended
  <2> QED BY <2>1, Stages
<1>3. Leads(p) \/ Follows(p)
  BY <1>1, <1>2 DEF Handshake, Way
<1>4. controller[p] # Master /\ p # Master /\ p \in Peers
  BY <1>1, <1>2, <1>3 DEF Leads, Follows
<1>5. /\ chan' = Received(p, Master)
      /\ UNCHANGED <<life, state, controller, proposed, promoted, approved, acked, flushed>>
      /\ collaborators' = IF isLocallyControlled(p) THEN [collaborators EXCEPT ![p] = @ \ {Master}]
                          ELSE collaborators
  BY <1>1, <1>4 DEF RemoveBuddy
<1>6. \A a, b \in Peers :
        chan'[a][b] = IF a = Master /\ b = p THEN Tail(chan[a][b]) ELSE chan[a][b]
  BY <1>1, <1>2, <1>5, ChanTypes, ReceivedFrom
<1>7. /\ NewMaster' = NewMaster /\ Followers' = Followers /\ Begun' /\ Ended'
  BY <1>2, <1>5 DEF NewMaster, Followers, Begun, Ended
<1>8. ASSUME NEW s
      PROVE  /\ Stays(s)' <=> Stays(s)
             /\ Answers(s)' <=> Answers(s)
             /\ Leads(s)' <=> Leads(s)
             /\ Follows(s)' <=> Follows(s)
  BY <1>5, StageKept
<1>9. Restarted' <=> Restarted
  BY <1>2, <1>5, <1>7, <1>8 DEF Restarted
<1>10. \A s \in Slaves :
         \/ collaborators'[s] = collaborators[s]
         \/ s = p /\ Leads(p) /\ collaborators'[s] = collaborators[s] \ {Master}
  <2>1. isLocallyControlled(p) => Leads(p)
    BY <1>2, <1>3, Stages DEF isLocallyControlled, Follows
  <2> QED BY <1>2, <1>5, <2>1 DEF TypeOK
<1>11. MasterInv'
  <2>1. MasterInv /\ collaborators'[Master] = collaborators[Master]
    BY <1>2, <1>4, <1>5 DEF Handshake, TypeOK
  <2> QED BY <1>2, <1>5, <1>7, <2>1 DEF MasterInv
<1>12. ASSUME NEW s \in Slaves PROVE Way(s)' /\ Member(s)'
  <2>1. Way(s) /\ Member(s)
    BY DEF Handshake
  <2>2. Way(s)'
    BY <1>2, <1>5, <1>7, <1>8, <1>9, <2>1 DEF Way
  <2>3. Member(s)'
    <3>1. Leads(s) => s = NewMaster /\ ~Follows(s) /\ ~Stays(s)
      BY Stages DEF Leads
    <3> QED BY <1>7, <1>8, <1>10, <2>1, <3>1 DEF Member
  <2> QED BY <2>2, <2>3
<1>13. LeaderInv'
  <2>1. collaborators'[NewMaster] \ {Master} = collaborators[NewMaster] \ {Master}
        /\ collaborators'[NewMaster] \subseteq collaborators[NewMaster]
    BY <1>2, <1>10
  <2> QED BY <1>2, <1>5, <1>7, <1>8, <1>9, <2>1 DEF Handshake, LeaderInv
<1>14. ASSUME NEW s \in Slaves PROVE FromMaster(s)' /\ ToMaster(s)'
  <2>1. FromMaster(s) /\ ToMaster(s) /\ s \in Peers /\ s # Master
    BY <1>2 DEF Handshake
  <2>2. FromMaster(s)'
    <3>1. CASE s = p
      <4>1. chan'[Master][s] = Tail(chan[Master][s]) /\ Head(chan[Master][s]).type = "left"
        BY <1>1, <1>2, <1>4, <1>6, <3>1
      <4>2. life'[Master] = life[Master]
        BY <1>5
      <4> QED BY <1>1, <1>2, <1>7, <1>8, <2>1, <3>1, <4>1, <4>2, FromMasterTaken
    <3>2. CASE s # p
      <4>1. chan'[Master][s] = chan[Master][s] /\ life' = life
        BY <1>2, <1>5, <1>6, <2>1, <3>2
      <4> QED BY <1>2, <1>7, <1>8, <2>1, <4>1, FromMasterKept
    <3> QED BY <3>1, <3>2
  <2>3. chan'[s][Master] = chan[s][Master] /\ life' = life /\ acked' = acked
    BY <1>2, <1>5, <1>6, <2>1
  <2>4. ToMaster(s)'
    BY <1>2, <2>1, <2>3, ToMasterKept
  <2> QED BY <2>2, <2>4
<1>15. ASSUME NEW s \in Followers PROVE ToLeader(s)' /\ FromLeader(s)'
  <2>1. /\ ToLeader(s) /\ FromLeader(s)
        /\ chan'[s][NewMaster] = chan[s][NewMaster] /\ chan'[NewMaster][s] = chan[NewMaster][s]
    BY <1>2, <1>6 DEF Handshake
  <2> QED BY <1>5, <1>7, <1>8, <1>9, <2>1, ToLeaderKept, FromLeaderKept
<1>16. ASSUME NEW a \in Peers, NEW b \in Peers, Silent(a, b)' PROVE chan'[a][b] = <<>>
  <2>1. Silent(a, b)
    BY <1>7, <1>16 DEF Silent
  <2>2. ~(a = Master /\ b = p)
    BY <1>4, <2>1, NotSilent
  <2> QED BY <1>6, <2>1, <2>2 DEF Handshake
<1> QED BY <1>7, <1>11, <1>12, <1>13, <1>14, <1>15, <1>16 DEF Handshake

(* InitiateSessionTakeover: the first master that leaves asks its slaves.   *)
LEMMA InitiateHandshake ==
  ASSUME TypeOK, Handshake, InitiateSessionTakeover(Master) PROVE Handshake'
<1>1. /\ life[Master] = "in" /\ ~Begun /\ ~Ended /\ NewMaster = None /\ collaborators[Master] = Slaves
      /\ controller[Master] = None
  <2>1. life[Master] = "in"
    BY DEF InitiateSessionTakeover
  <2> QED BY <2>1 DEF Begun, Ended, Handshake, MasterInv
<1>2. /\ Master \in Peers /\ Slaves \subseteq Peers /\ Master \notin Slaves /\ None \notin Peers
      /\ Peers = Slaves \cup {Master}
  BY Stages
<1>3. PICK n \in Slaves :
        /\ proposed' = [proposed EXCEPT ![Master] = n]
        /\ chan' = SendAll(SendAll(chan, Master, {n}, RequestPacket(TRUE, Slaves \ {n})),
                           Master, Slaves \ {n}, RequestPacket(FALSE, {n}))
  BY <1>1 DEF InitiateSessionTakeover
<1>4. /\ promoted' = [promoted EXCEPT ![Master] = FALSE]
      /\ approved' = [approved EXCEPT ![Master] = {}]
      /\ acked'    = [acked EXCEPT ![Master] = {}]
      /\ flushed'  = [flushed EXCEPT ![Master] = FALSE]
      /\ state'    = [state EXCEPT ![Master] = "SENT_TAKEOVER_REQUEST"]
      /\ life'     = [life EXCEPT ![Master] = "waiting"]
      /\ UNCHANGED <<controller, collaborators>>
  BY DEF InitiateSessionTakeover
<1> DEFINE m(s) == IF s = n THEN RequestPacket(TRUE, Slaves \ {n}) ELSE RequestPacket(FALSE, {n})
<1>5. \A a, b \in Peers :
        chan'[a][b] = IF a = Master /\ b \in Slaves THEN Append(chan[a][b], m(b)) ELSE chan[a][b]
  <2> DEFINE x == RequestPacket(TRUE, Slaves \ {n})
             y == RequestPacket(FALSE, {n})
             rest == Slaves \ {n}
             c == SendAll(chan, Master, {n}, x)
  <2>1. x \in Packets /\ y \in Packets
    BY <1>2, SomePackets
  <2>2. chan' = SendAll(c, Master, rest, y)
    BY <1>3
  <2>3. \A s \in Slaves : m(s) = IF s \in {n} THEN x ELSE y
    OBVIOUS
  <2> HIDE DEF x, y, m
  <2>4. /\ c \in Chans
        /\ \A a, b \in Peers : c[a][b] = IF a = Master /\ b \in {n} THEN Append(chan[a][b], x) ELSE chan[a][b]
    BY <1>2, <2>1, ChanTypes, SentAll
  <2> HIDE DEF c, rest
  <2>5. \A a, b \in Peers : chan'[a][b] = IF a = Master /\ b \in rest THEN Append(c[a][b], y) ELSE c[a][b]
    BY <1>2, <2>1, <2>2, <2>4, SentAll
  <2> QED BY <2>3, <2>4, <2>5 DEF rest
<1>6. /\ life'[Master] = "waiting" /\ state'[Master] = "SENT_TAKEOVER_REQUEST" /\ acked'[Master] = {}
      /\ proposed'[Master] = n /\ \A s \in Slaves : life'[s] = life[s]
  BY <1>2, <1>3, <1>4 DEF TypeOK
<1>7. NewMaster' = n /\ Followers' = Slaves \ {n} /\ Begun' /\ ~Ended'
  BY <1>6 DEF NewMaster, Followers, Begun, Ended
<1>8. ASSUME NEW s \in Slaves
      PROVE  /\ Stays(s) /\ ~Answers(s)
             /\ Stays(s)' /\ ~Answers(s)' /\ ~Leads(s)' /\ ~Follows(s)'
             /\ m(s) \in Packets /\ m(s).type = "takeoverRequest" /\ m(s) = Asked(s)'
  <2>1. Stays(s) /\ ~Answers(s)
    BY <1>1, Stages DEF Handshake, Way
  <2>2. /\ state'[s] = state[s] /\ promoted'[s] = promoted[s] /\ controller'[s] = controller[s]
        /\ flushed'[s] = flushed[s]
    BY <1>2, <1>4 DEF TypeOK
  <2>3. Stays(s)'
    BY <2>1, <2>2 DEF Stays
  <2>4. ~Answers(s)' /\ ~Leads(s)' /\ ~Follows(s)'
    BY <1>2, <1>7, <2>3 DEF Stays, Answers, Leads, Follows
  <2>5. m(s) \in Packets /\ m(s).type = "takeoverRequest"
    BY <1>2, SomePackets DEF RequestPacket
  <2>6. m(s) = Asked(s)'
    BY <1>7 DEF Asked, RequestPacket
  <2> QED BY <2>1, <2>3, <2>4, <2>5, <2>6
<1> HIDE DEF m
<1>9. MasterInv'
  BY <1>1, <1>4, <1>6, <1>7 DEF MasterInv
<1>10. ~Restarted'
  BY <1>7, <1>8 DEF Restarted
<1>11. ASSUME NEW s \in Slaves PROVE Way(s)' /\ Member(s)'
  <2>1. Way(s) /\ Member(s)
    BY DEF Handshake
  <2>2. Way(s)'
    BY <1>6, <1>7, <1>8, <2>1 DEF Way
  <2>3. collaborators'[s] \subseteq {Master}
    BY <1>4, <1>8, <2>1 DEF Member
  <2> QED BY <1>8, <2>2, <2>3 DEF Member
<1>12. LeaderInv'
  BY <1>7, <1>8, <1>10 DEF LeaderInv
<1>13. ASSUME NEW s \in Slaves PROVE FromMaster(s)'
  <2>1. FromMaster(s) /\ chan'[Master][s] = Append(chan[Master][s], m(s))
    BY <1>2, <1>5 DEF Handshake
  <2>2. m(s) \in Packets /\ m(s).type = "takeoverRequest" /\ m(s) = Asked(s)'
    BY <1>8
  <2>3. (Begun /\ Stays(s))' /\ ((Ended /\ Answers(s))' <=> (Ended /\ Answers(s)))
    BY <1>1, <1>7, <1>8
  <2> QED BY <1>1, <2>1, <2>2, <2>3, FromMasterSent
<1>14. ASSUME NEW s \in Slaves PROVE ToMaster(s)'
  <2>1. ToMaster(s) /\ chan'[s][Master] = chan[s][Master]
    BY <1>2, <1>5 DEF Handshake
  <2>2. ~Has(chan[s][Master], "takeoverAck") /\ Only(chan[s][Master], {"change", "takeoverAck"})
    BY <1>8, <2>1 DEF ToMaster, Once
  <2>3. /\ NoneAfter(chan[s][Master], "takeoverAck", "change")
        /\ NoneAfter(chan[s][Master], "takeoverAck", "takeoverAck")
    BY <2>2 DEF NoneAfter, Has
  <2> QED BY <1>6, <1>8, <2>1, <2>2, <2>3 DEF ToMaster, Once
<1>15. ASSUME NEW s \in Followers' PROVE ToLeader(s)' /\ FromLeader(s)'
  <2>1. s \in Slaves /\ s # n /\ s # Master /\ n # Master /\ s # None /\ n # None
    BY <1>2, <1>7
  <2>2. Silent(s, n) /\ Silent(n, s)
    BY <1>1, <2>1 DEF Silent
  <2>3. chan'[s][n] = <<>> /\ chan'[n][s] = <<>>
    BY <1>2, <1>5, <2>1, <2>2 DEF Handshake
  <2>4. ToLeader(s)'
    BY <1>7, <1>8, <2>1, <2>3, NothingQueued DEF ToLeader, Once
  <2>5. FromLeader(s)'
    BY <1>7, <1>8, <2>1, <2>3, NothingQueued DEF FromLeader, Once
  <2> QED BY <2>4, <2>5
<1>16. ASSUME NEW a \in Peers, NEW b \in Peers, Silent(a, b)' PROVE chan'[a][b] = <<>>
  <2>1. Silent(a, b)
    BY <1>1, <1>2, <1>16 DEF Silent
  <2>2. ~(a = Master /\ b \in Slaves)
    BY <1>2, <2>1, NotSilent
  <2> QED BY <1>5, <2>1, <2>2 DEF Handshake
<1> QED BY <1>7, <1>9, <1>11, <1>12, <1>13, <1>14, <1>15, <1>16 DEF Handshake

(* Another one that leaves, leaves after it.                                *)
LEMMA LeavesAgain ==
  ASSUME TypeOK, Handshake, NEW p \in Slaves, InitiateSessionTakeover(p)
  PROVE  ~(MaxTakeovers <= 1) /\ ~FirstTakeover'
<1>1. Master \in Peers /\ p \in Peers /\ p # Master /\ None \notin Peers /\ IsFiniteSet(Peers)
  BY Stages, FinitePeers
<1>2. controller[p] = None
  BY DEF InitiateSessionTakeover, isLocallyControlled
<1>3. Begun
  BY <1>1, <1>2 DEF Handshake, Way, Stays
<1> DEFINE gone == {q \in Peers : life[q] # "in"}
           two  == {q \in Peers : life'[q] # "in"}
<1>4. IsFiniteSet(gone) /\ Cardinality(gone) \in Nat
  BY <1>1, FS_Subset, FS_CardinalityType
<1>5. Cardinality(gone) >= 1
  <2>1. gone # {}
    BY <1>1, <1>3 DEF Begun
  <2> QED BY <1>4, <2>1, FS_EmptySet
<1>6. Cardinality(gone) < MaxTakeovers
  BY DEF InitiateSessionTakeover
<1>7. ~(MaxTakeovers <= 1)
  <2> HIDE DEF gone
  <2> QED BY <1>4, <1>5, <1>6, TakeoverBoundsAssumption
<1>8. {Master, p} \subseteq two
  <2>1. life' = [life EXCEPT ![p] = "waiting"]
    BY DEF InitiateSessionTakeover
  <2> QED BY <1>1, <1>3, <2>1 DEF TypeOK, Begun
<1>9. IsFiniteSet(two) /\ Cardinality(two) \in Nat
  BY <1>1, FS_Subset, FS_CardinalityType
<1> HIDE DEF two
<1>10. Cardinality({Master, p}) = 2
  <2>1. {Master, p} = {Master} \cup {p} /\ p \notin {Master}
    BY <1>1
  <2>2. IsFiniteSet({Master}) /\ Cardinality({Master}) = 1
    BY FS_Singleton
  <2>3. Cardinality({Master} \cup {p}) = 2
    BY <2>1, <2>2, FS_AddElement
  <2> QED BY <2>1, <2>3
<1>11. Cardinality({Master, p}) <= Cardinality(two)
  BY <1>8, <1>9, FS_Subset
<1>12. ~FirstTakeover' 
  BY <1>9, <1>10, <1>11 DEF FirstTakeover, two
<1> QED BY <1>7, <1>12

(* Nobody who has left comes back.                                          *)
LEMMA NobodyReturns ==
  ASSUME TypeOK, [Next]_vars
  PROVE  /\ \A p \in Peers : life'[p] = "in" => life[p] = "in"
         /\ FirstTakeover' => FirstTakeover
<1>1. \A p \in Peers : life'[p] = "in" => life[p] = "in"
  <2>1. ASSUME NEW p \in Peers, Edit(p) \/ InitiateSessionTakeover(p) \/ DeleteSession(p)
        PROVE  \A x \in Peers : life'[x] = "in" => life[x] = "in"
    BY <2>1 DEF TypeOK, Edit, protocol, InitiateSessionTakeover, DeleteSession
  <2>2. ASSUME NEW p \in Peers, NEW q \in Peers, Deliver(p, q)
        PROVE  \A x \in Peers : life'[x] = "in" => life[x] = "in"
    <3>1. \/ life' = life
          \/ life' = [life EXCEPT ![p] = "released"] \/ life' = [life EXCEPT ![p] = "gone"]
      BY <2>2 DEF Deliver, ImportChange, HandleRequest, HandleAck, BecomeMaster, SwitchMaster,
         HandleReconnectRequest, RestartAsSlave, Refuse, DropUnknown, RemoveBuddy, protocol
    <3> QED BY <3>1 DEF TypeOK
  <2>3. CASE UNCHANGED vars
    BY <2>3 DEF vars
  <2> QED BY <2>1, <2>2, <2>3 DEF Next
<1>2. IsFiniteSet({p \in Peers : life'[p] # "in"})
  BY FinitePeers, FS_Subset
<1>3. {p \in Peers : life[p] # "in"} \subseteq {p \in Peers : life'[p] # "in"}
  BY <1>1
<1>4. /\ Cardinality({p \in Peers : life[p] # "in"}) <= Cardinality({p \in Peers : life'[p] # "in"})
      /\ Cardinality({p \in Peers : life[p] # "in"}) \in Nat
      /\ Cardinality({p \in Peers : life'[p] # "in"}) \in Nat
  BY <1>2, <1>3, FS_Subset, FS_CardinalityType
<1>5. FirstTakeover' => FirstTakeover
  BY <1>4 DEF FirstTakeover
<1> QED BY <1>1, <1>5
----------------------------------------------------------------------------
(* Theorems. *)

(* Every step keeps the types.                                              *)
LEMMA NextTypes ==
  TypeOK /\ [Next]_vars => TypeOK'
<1> SUFFICES ASSUME TypeOK, [Next]_vars PROVE TypeOK'
  OBVIOUS
<1>1. ASSUME NEW p \in Peers, Edit(p) PROVE TypeOK'
  BY <1>1, EditTypes
<1>2. ASSUME NEW p \in Peers, InitiateSessionTakeover(p) \/ DeleteSession(p) PROVE TypeOK'
  BY <1>2, LeaveTypes
<1>3. ASSUME NEW p \in Peers, NEW q \in Peers, Deliver(p, q) PROVE TypeOK'
  BY <1>3, DeliverTypes
<1>4. CASE UNCHANGED vars
  BY <1>4 DEF vars, TypeOK
<1> QED BY <1>1, <1>2, <1>3, <1>4 DEF Next

(* When one master leaves at most, or has left so far, every step keeps the *)
(* handshake.                                                               *)
LEMMA NextHandshake ==
  ASSUME TypeOK, Handshake, [Next]_vars, MaxTakeovers <= 1 \/ FirstTakeover'
  PROVE  Handshake'
<1>1. ASSUME NEW p \in Peers, Edit(p) \/ InitiateSessionTakeover(p) \/ DeleteSession(p)
      PROVE  Handshake'
  <2>1. CASE Edit(p)
    BY <2>1, EditHandshake
  <2>2. CASE InitiateSessionTakeover(p)
    <3>1. p = Master
      BY <2>2, LeavesAgain, Stages
    <3> QED BY <2>2, <3>1, InitiateHandshake
  <2>3. CASE DeleteSession(p)
    BY <2>3, DeleteHandshake
  <2> QED BY <1>1, <2>1, <2>2, <2>3
<1>2. ASSUME NEW p \in Peers, NEW q \in Peers, Deliver(p, q) PROVE Handshake'
  BY <1>2, ImportHandshake, RequestHandshake, AckHandshake, BecomeHandshake, SwitchHandshake,
     ReconnectHandshake, RestartHandshake, DropHandshake, RemoveHandshake DEF Deliver
<1>3. CASE UNCHANGED vars
  <2>1. UNCHANGED protocol /\ collaborators' = collaborators /\ chan' = chan
    BY <1>3 DEF vars, protocol
  <2>2. collaborators'[Master] = Slaves /\ LeaderInv' /\ \A s \in Slaves : Member(s)'
    <3>1. Begun /\ Leads(NewMaster) /\ state[NewMaster] = "SENT_TAKEOVER_ACK" =>
              Master \notin collaborators[NewMaster]
      BY DEF Handshake, LeaderInv
    <3>2. LeaderInv'
      BY <2>1, <3>1, LeaderKept
    <3>3. \A s \in Slaves : Member(s)'
      BY <2>1, MembersKept
    <3> QED BY <2>1, <3>2, <3>3 DEF Handshake, MasterInv
  <2>3. \A p, q \in Peers : SameControl(chan[p][q], chan'[p][q])
    BY <2>1, SameControlKept
  <2>4. \A s \in Slaves : life[Master] = "waiting" =>
            /\ NoneAfter(chan'[s][Master], "takeoverAck", "change")
            /\ s \in acked[Master] => ~Has(chan'[s][Master], "change")
    BY <2>1 DEF Handshake, ToMaster
  <2>5. Begun => \A s \in Followers :
            /\ Has(chan'[s][NewMaster], "change") => Restarted
            /\ ~Follows(s) => chan'[NewMaster][s] = <<>>
    BY <2>1 DEF Handshake, ToLeader, FromLeader
  <2>6. \A p, q \in Peers : Silent(p, q) => chan'[p][q] = <<>>
    BY <2>1 DEF Handshake
  <2> QED BY <2>1, <2>2, <2>3, <2>4, <2>5, <2>6, ChangesOnly
<1> QED BY <1>1, <1>2, <1>3 DEF Next

(* The invariant of the takeover (_handleSessionTakeover and its callers) is *)
(* inductive: it holds at the start and every step keeps it.                *)
THEOREM IInvInductive ==
  (Init => IInv) /\ (IInv /\ [Next]_vars => IInv')
<1>1. Init => IInv
  BY StartTypes, StartHandshake DEF IInv
<1>2. ASSUME IInv, [Next]_vars PROVE IInv'
  <2>1. TypeOK /\ TypeOK'
    BY <1>2, NextTypes DEF IInv
  <2>2. ASSUME MaxTakeovers <= 1 \/ FirstTakeover' PROVE Handshake'
    <3>1. MaxTakeovers <= 1 \/ FirstTakeover
      BY <1>2, <2>1, <2>2, NobodyReturns
    <3>2. Handshake
      BY <1>2, <3>1 DEF IInv
    <3> QED BY <1>2, <2>1, <2>2, <3>2, NextHandshake
  <2> QED BY <2>1, <2>2 DEF IInv
<1> QED BY <1>1, <1>2

(* The invariant of the takeover always holds.                              *)
THEOREM AlwaysIInv == Spec => []IInv
BY IInvInductive, PTL DEF Spec

(* The state of every peer, and every packet under way, has its type; and a *)
(* peer that has acknowledged, and does not take over, knows who does: the  *)
(* null pointer that _switchMaster would use is never there.               *)
THEOREM AlwaysTypeOK == Spec => []TypeOK
<1>1. IInv => TypeOK
  BY DEF IInv
<1> QED BY <1>1, AlwaysIInv, PTL

(* All who are in a session are in that of the same master.                 *)
LEMMA HandshakeOneMaster ==
  ASSUME TypeOK, Handshake PROVE OneMaster
<1> SUFFICES ASSUME NEW p \in Peers, NEW q \in Peers, InSession(p), InSession(q)
             PROVE  MasterOf(p) = MasterOf(q)
  BY DEF OneMaster
<1> DEFINE head == IF Ended THEN NewMaster ELSE Master
<1>1. ASSUME NEW s \in Peers, InSession(s) PROVE MasterOf(s) = head
  <2>1. CASE s = Master
    <3>1. ~Ended
      BY <1>1, <2>1 DEF InSession, Ended
    <3> QED BY <2>1, <3>1 DEF MasterOf, isLocallyControlled, Handshake, MasterInv
  <2>2. CASE s \in Slaves
    <3>1. Way(s) /\ ~Answers(s)
      BY <1>1, <2>2 DEF Handshake, InSession, Answers
    <3>2. CASE Ended
      <4>1. Leads(s) \/ Follows(s)
        BY <3>1, <3>2 DEF Way
      <4>2. NewMaster # None
        BY <3>2, Stages
      <4> QED BY <3>2, <4>1, <4>2 DEF Leads, Follows, MasterOf, isLocallyControlled
    <3>3. CASE ~Ended
      <4>1. Stays(s) /\ Master # None
        BY <3>1, <3>3, Stages DEF Way
      <4> QED BY <3>3, <4>1 DEF Stays, MasterOf, isLocallyControlled
    <3> QED BY <3>2, <3>3
  <2> QED BY <1>1, <2>1, <2>2, Stages
<1> QED BY <1>1

(* As long as one master at most has left, or when only one may, there are  *)
(* never two masters: all peers in a session, and not between two, are in   *)
(* the session of the same one.                                             *)
THEOREM FirstOneMaster == Spec => [](MaxTakeovers <= 1 \/ FirstTakeover => OneMaster)
<1>1. IInv => (MaxTakeovers <= 1 \/ FirstTakeover => OneMaster)
  BY HandshakeOneMaster DEF IInv
<1> QED BY <1>1, AlwaysIInv, PTL

(* When one master leaves there are never two (_handleSessionTakeover).     *)
THEOREM AlwaysOneMaster ==
  ASSUME MaxTakeovers <= 1 PROVE Spec => []OneMaster
<1>1. IInv => OneMaster
  BY HandshakeOneMaster DEF IInv
<1> QED BY <1>1, AlwaysIInv, PTL

(* Only those who have left are refused a packet.                           *)
LEMMA NextNoneRefused ==
  ASSUME TypeOK, Handshake, NoneRefused, [Next]_vars PROVE NoneRefused'
<1>1. \A p \in Peers : life'[p] = "in" => life[p] = "in"
  BY NobodyReturns
<1>2. ASSUME NEW p \in Peers, NEW q \in Peers, Refuse(p, q)
      PROVE  refused' = refused \cup {q} /\ life[q] # "in"
  BY <1>2, Refused DEF Refuse, Begun
<1>3. refused' = refused \/ \E q \in Peers : refused' = refused \cup {q} /\ life[q] # "in"
  <2>1. ASSUME NEW p \in Peers, NEW q \in Peers, Deliver(p, q), ~Refuse(p, q)
        PROVE  refused' = refused
    BY <2>1 DEF Deliver, ImportChange, HandleRequest, HandleAck, BecomeMaster, SwitchMaster,
         HandleReconnectRequest, RestartAsSlave, DropUnknown, RemoveBuddy
  <2>2. ASSUME NEW p \in Peers, Edit(p) \/ InitiateSessionTakeover(p) \/ DeleteSession(p)
        PROVE  refused' = refused
    BY <2>2 DEF Edit, InitiateSessionTakeover, DeleteSession
  <2> QED BY <1>2, <2>1, <2>2 DEF Next, vars
<1>4. refused \subseteq Peers
  BY DEF TypeOK
<1> QED BY <1>1, <1>3, <1>4 DEF NoneRefused

(* When one master leaves, a peer that stays is never refused a packet: its *)
(* changes come before its acknowledgement or after the restart, and every  *)
(* packet of the handshake finds its receiver in the state for it (the      *)
(* comment in import, the checks of _handleSessionTakeover).                *)
THEOREM AlwaysNoneRefused ==
  ASSUME MaxTakeovers <= 1 PROVE Spec => []NoneRefused
<1>1. Init => NoneRefused
  BY DEF Init, NoneRefused
<1>2. IInv /\ NoneRefused /\ [Next]_vars => NoneRefused'
  BY NextNoneRefused DEF IInv
<1> QED BY <1>1, <1>2, AlwaysIInv, PTL DEF Spec

(* In the first takeover of a session a new master starts when the old one  *)
(* has told it that the old session is flushed (_checkRestartAsMaster),     *)
(* however many masters may leave later.                                    *)
THEOREM AlwaysRestartsFlushed == Spec => RestartsFlushed
<1> DEFINE Restart == \A p \in Peers :
             FirstTakeover /\ promoted[p] /\ state[p] = "SENT_TAKEOVER_ACK" /\ state'[p] = "NONE"
                => controller'[p] = None
<1>1. IInv /\ [Next]_vars => [Restart]_vars
  <2> SUFFICES ASSUME IInv, [Next]_vars, NEW x \in Peers,
                      FirstTakeover, state[x] = "SENT_TAKEOVER_ACK", state'[x] = "NONE"
               PROVE  controller'[x] = None
    OBVIOUS
  <2>1. TypeOK /\ Handshake
    BY DEF IInv
  <2>2. ASSUME NEW p \in Peers, NEW q \in Peers, Deliver(p, q) PROVE controller'[x] = None
    <3>1. CASE BecomeMaster(p, q)
      <4>1. p # x => state'[x] = state[x]
        BY <2>1, <3>1 DEF BecomeMaster, CheckRestartAsMaster, TypeOK
      <4> QED BY <2>1, <3>1, <4>1 DEF BecomeMaster, TypeOK
    <3>2. CASE HandleReconnectRequest(p, q)
      <4>1. p = x /\ Restarts(flushed[p], approved'[p])
        BY <2>1, <3>2 DEF HandleReconnectRequest, CheckRestartAsMaster, TypeOK
      <4>2. flushed[p] /\ p = x
        BY <4>1 DEF Restarts
      <4>3. p = NewMaster /\ Begun
        <5>1. chan[q][p] # <<>> /\ Head(chan[q][p]).type = "reconnectRequest"
          BY <3>2 DEF HandleReconnectRequest, HeadIs
        <5> QED BY <2>1, <5>1, WhatComes
      <4>4. Leads(p)
        <5>1. p \in Slaves /\ Way(p) /\ ~Stays(p) /\ ~Answers(p) /\ ~Follows(p)
          BY <2>1, <4>2, <4>3, Stages DEF Handshake, Stays, Answers, Follows
        <5> QED BY <2>1, <4>3, <5>1, Stages DEF Way
      <4> QED BY <3>2, <4>2, <4>4 DEF HandleReconnectRequest, Leads
    <3>3. CASE ~BecomeMaster(p, q) /\ ~HandleReconnectRequest(p, q)
      <4>1. state'[x] = state[x] \/ state[x] # "SENT_TAKEOVER_ACK" \/ state'[x] # "NONE"
        BY <2>1, <2>2, <3>3 DEF Deliver, ImportChange, HandleRequest, HandleAck, AckAllowed,
           SwitchMaster, RestartAsSlave, RestartAllowed, Refuse, DropUnknown, RemoveBuddy, protocol, TypeOK
      <4> QED BY <4>1
    <3> QED BY <3>1, <3>2, <3>3
  <2>3. ASSUME NEW p \in Peers, Edit(p) \/ InitiateSessionTakeover(p) \/ DeleteSession(p)
        PROVE  state'[x] = state[x] \/ state'[x] # "NONE"
    <3>1. state' = state \/ state' = [state EXCEPT ![p] = "SENT_TAKEOVER_REQUEST"]
      BY <2>3 DEF Edit, InitiateSessionTakeover, DeleteSession, protocol
    <3> QED BY <2>1, <3>1 DEF TypeOK
  <2>4. CASE UNCHANGED vars
    BY <2>4 DEF vars
  <2> QED BY <2>2, <2>3, <2>4 DEF Next
<1> QED BY <1>1, AlwaysIInv, PTL DEF Spec, RestartsFlushed
----------------------------------------------------------------------------
(* What the old session is about. *)

(* Changes in a queue are known to its sender when he knew the ones there   *)
(* were and knows the one sent.                                             *)
LEMMA KnownChanges ==
  ASSUME NEW c \in Seq(Packets), NEW ids, Known(c, ids)
  PROVE  /\ \A more : ids \subseteq more => Known(c, more)
         /\ \A m \in Packets : (m.type = "change" => m.id \in ids) => Known(Append(c, m), ids)
         /\ c # <<>> => Known(Tail(c), ids)
         /\ \A d \in Seq(Packets) : Known(d, ids) => Known(c \o d, ids)
<1>1. \A more : ids \subseteq more => Known(c, more)
  BY DEF Known
<1>2. ASSUME NEW m \in Packets, m.type = "change" => m.id \in ids PROVE Known(Append(c, m), ids)
  <2>1. /\ Len(Append(c, m)) = Len(c) + 1 /\ Len(c) \in Nat
        /\ \A j \in 1..Len(c) : Append(c, m)[j] = c[j]
        /\ Append(c, m)[Len(c) + 1] = m
    BY AppendProperties, LenProperties
  <2>2. \A i \in 1..Len(Append(c, m)) : i \in 1..Len(c) \/ i = Len(c) + 1
    BY <2>1
  <2> QED BY <1>2, <2>1, <2>2 DEF Known
<1>3. ASSUME c # <<>> PROVE Known(Tail(c), ids)
  <2>1. /\ Len(c) \in Nat /\ Len(Tail(c)) = Len(c) - 1
        /\ \A j \in 1..Len(Tail(c)) : Tail(c)[j] = c[j + 1]
    BY <1>3, HeadTailProperties, LenProperties, Zenon
  <2>2. \A i \in 1..Len(Tail(c)) : i + 1 \in 1..Len(c)
    BY <2>1
  <2> QED BY <2>1, <2>2 DEF Known
<1>4. ASSUME NEW d \in Seq(Packets), Known(d, ids) PROVE Known(c \o d, ids)
  <2> DEFINE e == c \o d
  <2>1. /\ Len(c) \in Nat /\ Len(d) \in Nat /\ Len(e) = Len(c) + Len(d)
        /\ \A i \in 1..(Len(c) + Len(d)) : e[i] = IF i <= Len(c) THEN c[i] ELSE d[i - Len(c)]
    BY ConcatProperties, LenProperties
  <2> HIDE DEF e
  <2>2. \A i \in 1..Len(e) : \/ i \in 1..Len(c) /\ e[i] = c[i]
                             \/ i - Len(c) \in 1..Len(d) /\ e[i] = d[i - Len(c)]
    BY <2>1
  <2>3. Known(e, ids)
    BY <1>4, <2>2 DEF Known
  <2> QED BY <2>3 DEF e
<1> QED BY <1>1, <1>2, <1>3, <1>4

OwnIn(c, ids) == \A p, q \in Peers : Known(c[p][q], ids[p])

LEMMA OwnQueues ==
  ASSUME NEW c \in Chans, NEW ids, OwnIn(c, ids), NEW p \in Peers
  PROVE  /\ \A targets : \A m \in Packets : (m.type = "change" => m.id \in ids[p]) =>
              OwnIn(SendAll(c, p, targets, m), ids)
         /\ \A targets : \A d \in Seq(Packets) : Known(d, ids[p]) =>
              OwnIn(SendEach(c, p, targets, d), ids)
<1>1. \A a, b \in Peers : c[a][b] \in Seq(Packets) /\ Known(c[a][b], ids[a])
  BY DEF OwnIn, Chans
<1>2. ASSUME NEW targets, NEW m \in Packets, m.type = "change" => m.id \in ids[p]
      PROVE  OwnIn(SendAll(c, p, targets, m), ids)
  <2> SUFFICES ASSUME NEW a \in Peers, NEW b \in Peers
               PROVE  Known(SendAll(c, p, targets, m)[a][b], ids[a])
    BY DEF OwnIn
  <2>1. SendAll(c, p, targets, m)[a][b] = IF a = p /\ b \in targets THEN Append(c[a][b], m) ELSE c[a][b]
    BY SentAll
  <2>2. a = p => Known(Append(c[a][b], m), ids[a])
    BY <1>1, <1>2, KnownChanges
  <2> QED BY <1>1, <2>1, <2>2
<1>3. ASSUME NEW targets, NEW d \in Seq(Packets), Known(d, ids[p])
      PROVE  OwnIn(SendEach(c, p, targets, d), ids)
  <2> SUFFICES ASSUME NEW a \in Peers, NEW b \in Peers
               PROVE  Known(SendEach(c, p, targets, d)[a][b], ids[a])
    BY DEF OwnIn
  <2>1. SendEach(c, p, targets, d)[a][b] = IF a = p /\ b \in targets THEN c[a][b] \o d ELSE c[a][b]
    BY SentEach
  <2>2. a = p => Known(c[a][b] \o d, ids[a])
    BY <1>1, <1>3, KnownChanges
  <2> QED BY <1>1, <2>1, <2>2
<1> QED BY <1>2, <1>3

LEMMA OwnReceived ==
  ASSUME TypeOK, NEW ids, OwnIn(chan, ids), NEW p \in Peers, NEW q \in Peers, chan[q][p] # <<>>
  PROVE  Received(p, q) \in Chans /\ OwnIn(Received(p, q), ids)
<1>1. /\ Received(p, q) \in Chans
      /\ \A a, b \in Peers :
            Received(p, q)[a][b] = IF a = q /\ b = p THEN Tail(chan[a][b]) ELSE chan[a][b]
  BY ChanTypes, ReceivedFrom
<1>2. Known(Tail(chan[q][p]), ids[q])
  BY ChanTypes, KnownChanges DEF OwnIn
<1> QED BY <1>1, <1>2 DEF OwnIn

(* No document loses a change.                                              *)
LEMMA DocGrows ==
  ASSUME TypeOK, [Next]_vars PROVE \A p \in Peers : doc[p] \subseteq doc'[p]
<1>1. doc' = doc \/ \E p \in Peers : \E id : doc' = [doc EXCEPT ![p] = @ \cup {id}]
  <2>1. ASSUME NEW p \in Peers, Edit(p) PROVE \E id : doc' = [doc EXCEPT ![p] = @ \cup {id}]
    BY <2>1 DEF Edit
  <2>2. ASSUME NEW p \in Peers, InitiateSessionTakeover(p) \/ DeleteSession(p) PROVE doc' = doc
    BY <2>2 DEF InitiateSessionTakeover, DeleteSession
  <2>3. ASSUME NEW p \in Peers, NEW q \in Peers, ImportChange(p, q)
        PROVE  \E id : doc' = [doc EXCEPT ![p] = @ \cup {id}]
    BY <2>3 DEF ImportChange
  <2>4. ASSUME NEW p \in Peers, NEW q \in Peers, Deliver(p, q), ~ImportChange(p, q) PROVE doc' = doc
    BY <2>4 DEF Deliver, HandleRequest, HandleAck, BecomeMaster, SwitchMaster,
         HandleReconnectRequest, RestartAsSlave, Refuse, DropUnknown, RemoveBuddy
  <2> QED BY <2>1, <2>2, <2>3, <2>4 DEF Next, vars
<1>2. ASSUME NEW p \in Peers, NEW id, doc' = [doc EXCEPT ![p] = @ \cup {id}]
      PROVE  \A q \in Peers : doc[q] \subseteq doc'[q]
  BY <1>2 DEF TypeOK
<1> QED BY <1>1, <1>2

(* A peer sends changes of its own document only, and holds on to such.     *)
LEMMA NextOwnChanges ==
  ASSUME TypeOK, OwnChanges, [Next]_vars PROVE OwnChanges'
<1>1. \A p \in Peers : doc[p] \subseteq doc'[p]
  BY DocGrows
<1>2. OwnIn(chan, doc') /\ chan \in Chans
  <2>1. \A p, q \in Peers : chan[p][q] \in Seq(Packets) /\ Known(chan[p][q], doc[p])
    BY ChanTypes DEF OwnChanges
  <2> QED BY <1>1, <2>1, ChanTypes, KnownChanges DEF OwnIn
<1>3. \A p \in Peers : Known(outgoing[p], doc'[p]) /\ outgoing[p] \in Seq(Packets)
  <2>1. \A p \in Peers : outgoing[p] \in Seq(Packets) /\ Known(outgoing[p], doc[p])
    BY ChanTypes DEF OwnChanges
  <2> QED BY <1>1, <2>1, KnownChanges
<1>4. \A ids : Known(<<>>, ids)
  BY EmptySeq DEF Known
<1>5. SUFFICES OwnIn(chan', doc') /\ \A p \in Peers : Known(outgoing'[p], doc'[p])
  BY DEF OwnChanges, OwnIn
<1> DEFINE Goal == OwnIn(chan', doc') /\ \A p \in Peers : Known(outgoing'[p], doc'[p])
<1>6. ASSUME NEW p \in Peers, Edit(p) PROVE Goal
  <2> DEFINE id == <<p, Cardinality({x \in doc[p] : x[1] = p}) + 1>>
             m  == ChangePacket(id, doc[p])
  <2>1. id \in Changes /\ m \in ChangePackets /\ m \in Packets /\ m.id = id
    <3>1. id \in Changes
      BY <1>6, NextChange DEF Edit
    <3> QED BY <3>1, SomePackets DEF ChangePacket, ChangePackets, TypeOK
  <2>2. /\ doc' = [doc EXCEPT ![p] = @ \cup {id}]
        /\ \/ outgoing' = [outgoing EXCEPT ![p] = Append(@, m)] /\ chan' = chan
           \/ chan' = SendAll(chan, p, collaborators[p], m) /\ outgoing' = outgoing
    BY <1>6 DEF Edit
  <2> HIDE DEF id, m
  <2>3. id \in doc'[p]
    BY <2>2 DEF TypeOK
  <2>4. OwnIn(chan', doc')
    <3>1. OwnIn(SendAll(chan, p, collaborators[p], m), doc')
      BY <1>2, <2>1, <2>3, OwnQueues
    <3> QED BY <1>2, <2>2, <3>1
  <2>5. Known(Append(outgoing[p], m), doc'[p])
    BY <1>3, <2>1, <2>3, KnownChanges
  <2>6. \A a \in Peers : outgoing'[a] = outgoing[a] \/ (a = p /\ outgoing'[a] = Append(outgoing[p], m))
    BY <2>2 DEF TypeOK
  <2> QED BY <1>3, <2>4, <2>5, <2>6
<1>7. ASSUME NEW p \in Peers, InitiateSessionTakeover(p) PROVE Goal
  <2>1. PICK n \in collaborators[p] :
          chan' = SendAll(SendAll(chan, p, {n}, RequestPacket(TRUE, collaborators[p] \ {n})),
                          p, collaborators[p] \ {n}, RequestPacket(FALSE, {n}))
    BY <1>7 DEF InitiateSessionTakeover
  <2> DEFINE x == RequestPacket(TRUE, collaborators[p] \ {n})
             y == RequestPacket(FALSE, {n})
             c == SendAll(chan, p, {n}, x)
  <2>2. x \in Packets /\ y \in Packets /\ x.type # "change" /\ y.type # "change"
    <3>1. collaborators[p] \subseteq Peers /\ n \in Peers
      BY DEF TypeOK
    <3> QED BY <3>1, SomePackets DEF RequestPacket
  <2> HIDE DEF x, y
  <2>3. c \in Chans /\ OwnIn(c, doc')
    BY <1>2, <2>2, SentAll, OwnQueues
  <2>4. chan' = SendAll(c, p, collaborators[p] \ {n}, y)
    BY <2>1 DEF x, y
  <2> HIDE DEF c
  <2>5. OwnIn(chan', doc')
    BY <2>2, <2>3, <2>4, OwnQueues
  <2>6. \A a \in Peers : outgoing'[a] = outgoing[a] \/ outgoing'[a] = <<>>
    BY <1>7 DEF InitiateSessionTakeover, TypeOK
  <2> QED BY <1>3, <1>4, <2>5, <2>6
<1>8. ASSUME NEW p \in Peers, DeleteSession(p) PROVE Goal
  <2>1. Packet("left") \in Packets /\ Packet("left").type # "change"
    BY SomePackets DEF Packet
  <2>2. chan' = SendAll(chan, p, Peers \ {p}, Packet("left")) /\ outgoing' = outgoing
    BY <1>8 DEF DeleteSession
  <2> QED BY <1>2, <1>3, <2>1, <2>2, OwnQueues
<1>9. ASSUME NEW p \in Peers, NEW q \in Peers, Deliver(p, q) PROVE Goal
  <2> DEFINE r == Received(p, q)
             h == Head(chan[q][p])
  <2>1. chan[q][p] # <<>>
    BY <1>9 DEF Deliver, ImportChange, HandleRequest, HandleAck, BecomeMaster, SwitchMaster,
         HandleReconnectRequest, RestartAsSlave, Refuse, DropUnknown, RemoveBuddy, HeadIs
  <2>2. r \in Chans /\ OwnIn(r, doc')
    BY <1>2, <2>1, OwnReceived
  <2>3. ASSUME NEW type, Packet(type) \in Packets, type # "change", NEW targets
        PROVE  OwnIn(SendAll(r, p, targets, Packet(type)), doc')
    <3>1. Packet(type).type # "change"
      BY <2>3 DEF Packet
    <3> HIDE DEF r
    <3> QED BY <2>2, <2>3, <3>1, OwnQueues
  <2>4. CASE ImportChange(p, q)
    <3> DEFINE m == ChangePacket(h.id, doc[p])
    <3>1. /\ h.type = "change" /\ doc' = [doc EXCEPT ![p] = @ \cup {h.id}]
          /\ chan' = SendAll(r, p, ForwardTo(p, q), m) /\ outgoing' = outgoing
      BY <2>4 DEF ImportChange, HeadIs
    <3>2. m \in Packets /\ m.id = h.id
      <4>1. h.id \in Changes
        BY <2>1, <3>1, ChanTypes, PacketContents
      <4> QED BY <4>1, SomePackets DEF ChangePacket, ChangePackets, TypeOK
    <3>3. h.id \in doc'[p]
      BY <3>1 DEF TypeOK
    <3> HIDE DEF r, m
    <3> QED BY <1>3, <2>2, <3>1, <3>2, <3>3, OwnQueues
  <2>5. CASE HandleRequest(p, q)
    <3>1. chan' = SendAll(r, p, {q}, Packet("takeoverAck")) /\ outgoing' = outgoing
      BY <2>5 DEF HandleRequest, Ack
    <3> QED BY <1>3, <2>3, <3>1, SomePackets
  <2>6. CASE HandleAck(p, q)
    <3>1. /\ chan' = r \/ chan' = SendAll(r, p, collaborators[p], Packet("flushed"))
          /\ outgoing' = outgoing
      BY <2>6 DEF HandleAck
    <3> QED BY <1>3, <2>2, <2>3, <3>1, SomePackets
  <2>7. CASE SwitchMaster(p, q)
    <3>1. chan' = SendAll(r, p, {proposed[p]}, Packet("reconnectRequest")) /\ outgoing' = outgoing
      BY <2>7 DEF SwitchMaster
    <3> QED BY <1>3, <2>3, <3>1, SomePackets
  <2>8. ASSUME NEW cs, NEW told, NEW missing, CheckRestartAsMaster(p, q, cs, told, missing) PROVE Goal
    <3>1. \/ chan' = r /\ outgoing' = outgoing
          \/ chan' = SendEach(r, p, cs, Greeting(p)) /\ outgoing' = [outgoing EXCEPT ![p] = <<>>]
      BY <2>8 DEF CheckRestartAsMaster, Greeting
    <3>2. Greeting(p) \in Seq(Packets) /\ Known(Greeting(p), doc'[p])
      <4> DEFINE w == <<Packet("reconnectAck")>>
      <4>1. w \in Seq(Packets) /\ Len(w) = 1 /\ w[1].type # "change"
        BY SomePackets DEF Packet
      <4>2. Known(w, doc'[p])
        BY <4>1 DEF Known
      <4> HIDE DEF w
      <4>3. Known(w \o outgoing[p], doc'[p])
        BY <1>3, <4>1, <4>2, KnownChanges
      <4> QED BY <4>3, GreetingIs DEF Greeting, w
    <3> HIDE DEF r
    <3>3. OwnIn(chan', doc')
      BY <2>2, <3>1, <3>2, OwnQueues
    <3>4. \A a \in Peers : outgoing'[a] = outgoing[a] \/ outgoing'[a] = <<>>
      BY <3>1 DEF TypeOK
    <3> QED BY <1>3, <1>4, <3>3, <3>4
  <2>9. CASE BecomeMaster(p, q)
    <3>1. CheckRestartAsMaster(p, q, collaborators'[p], TRUE, approved[p])
      BY <2>9 DEF BecomeMaster
    <3> QED BY <2>8, <3>1
  <2>10. CASE HandleReconnectRequest(p, q)
    <3>1. CheckRestartAsMaster(p, q, collaborators'[p], flushed[p], approved'[p])
      BY <2>10 DEF HandleReconnectRequest
    <3> QED BY <2>8, <3>1
  <2>11. CASE RestartAsSlave(p, q)
    <3>1. /\ chan' = SendEach(r, p, collaborators[p], outgoing[p])
          /\ outgoing' = [outgoing EXCEPT ![p] = <<>>]
      BY <2>11 DEF RestartAsSlave
    <3> HIDE DEF r
    <3>2. OwnIn(chan', doc')
      BY <1>3, <2>2, <3>1, OwnQueues
    <3>3. \A a \in Peers : outgoing'[a] = outgoing[a] \/ outgoing'[a] = <<>>
      BY <3>1 DEF TypeOK
    <3> QED BY <1>3, <1>4, <3>2, <3>3
  <2>12. CASE Refuse(p, q) \/ DropUnknown(p, q) \/ RemoveBuddy(p, q)
    BY <1>3, <2>2, <2>12 DEF Refuse, DropUnknown, RemoveBuddy
  <2> QED BY <1>9, <2>4, <2>5, <2>6, <2>7, <2>9, <2>10, <2>11, <2>12 DEF Deliver
<1>10. CASE UNCHANGED vars
  BY <1>2, <1>3, <1>10 DEF vars
<1> QED BY <1>6, <1>7, <1>8, <1>9, <1>10 DEF Next

(* What is under way before the flush stays so until it is received.        *)
LEMMA ComingSent ==
  ASSUME NEW c \in Seq(Packets), NEW m \in Packets
  PROVE  /\ Coming(c) \subseteq Coming(Append(c, m))
         /\ m.type = "change" /\ ~Has(c, "flushed") => m.id \in Coming(Append(c, m))
<1> DEFINE d == Append(c, m)
           n == Len(c)
<1>1. /\ Len(d) = n + 1 /\ n \in Nat
      /\ \A j \in 1..n : d[j] = c[j]
      /\ d[n + 1] = m
  BY AppendProperties, LenProperties
<1> HIDE DEF d
<1>2. (\A i \in 1..n : i \in 1..Len(d) /\ \A j \in 1..(i - 1) : j \in 1..n) /\ n + 1 \in 1..Len(d)
      /\ \A j \in 1..((n + 1) - 1) : j \in 1..n
  BY <1>1
<1> HIDE DEF n
<1>3. Coming(c) \subseteq Coming(d)
  <2> SUFFICES ASSUME NEW id \in Coming(c) PROVE id \in Coming(d)
    OBVIOUS
  <2>1. PICK i \in 1..n : /\ c[i].type = "change" /\ c[i].id = id
                          /\ \A j \in 1..(i - 1) : c[j].type # "flushed"
    BY DEF Coming, n
  <2>2. id \in Changes /\ i \in 1..Len(d) /\ d[i] = c[i] /\ \A j \in 1..(i - 1) : d[j] = c[j]
    BY <1>1, <1>2 DEF Coming
  <2> QED BY <2>1, <2>2 DEF Coming
<1>4. ASSUME m.type = "change", ~Has(c, "flushed") PROVE m.id \in Coming(d)
  <2>1. m.id \in Changes
    BY <1>4, PacketContents
  <2>2. \A j \in 1..n : d[j].type # "flushed"
    BY <1>1, <1>4 DEF Has, n
  <2> QED BY <1>1, <1>2, <1>4, <2>1, <2>2 DEF Coming
<1> QED BY <1>3, <1>4 DEF d

LEMMA ComingTaken ==
  ASSUME NEW c \in Seq(Packets), c # <<>>
  PROVE  /\ Head(c).type = "flushed" => Coming(c) = {}
         /\ Head(c).type # "flushed" =>
              \A id \in Coming(c) : id \in Coming(Tail(c)) \/ (Head(c).type = "change" /\ Head(c).id = id)
<1> DEFINE d == Tail(c)
           n == Len(c)
<1>1. n \in Nat /\ n >= 1
  BY EmptySeq, LenProperties
<1>2. /\ d \in Seq(Packets) /\ Len(d) = n - 1
      /\ \A i \in 1..Len(d) : d[i] = c[i + 1]
  BY HeadTailProperties, Zenon
<1>0. Head(c) = c[1]
  OBVIOUS
<1> HIDE DEF d, n
<1>3. ASSUME NEW id \in Coming(c)
      PROVE  /\ Head(c).type # "flushed"
             /\ id \in Coming(d) \/ (Head(c).type = "change" /\ Head(c).id = id)
  <2>1. PICK i \in 1..n : /\ c[i].type = "change" /\ c[i].id = id
                          /\ \A j \in 1..(i - 1) : c[j].type # "flushed"
    BY DEF Coming, n
  <2>2. CASE i = 1
    BY <1>0, <2>1, <2>2
  <2>3. CASE i # 1
    <3>1. i - 1 \in 1..Len(d) /\ (i - 1) + 1 = i /\ 1 \in 1..(i - 1)
      BY <1>1, <1>2, <2>3
    <3>2. \A j \in 1..((i - 1) - 1) : j \in 1..Len(d) /\ j + 1 \in 1..(i - 1)
      BY <1>1, <1>2, <2>3
    <3>3. d[i - 1] = c[i] /\ \A j \in 1..((i - 1) - 1) : d[j].type # "flushed"
      BY <1>2, <2>1, <3>1, <3>2
    <3>4. id \in Changes
      BY DEF Coming
    <3> QED BY <1>0, <2>1, <3>1, <3>3, <3>4 DEF Coming
  <2> QED BY <2>2, <2>3
<1> QED BY <1>3 DEF d

(* The queue of the old master to a slave: a step sends one packet, or the  *)
(* slave receives one; a change it then has, unless it leads already.       *)
MasterQueue(s) ==
  LET c == chan[Master][s]  d == chan'[Master][s] IN
  \/ d = c
  \/ \E m \in Packets : d = Append(c, m)
  \/ c # <<>> /\ d = Tail(c) /\ (Head(c).type = "change" => Head(c).id \in doc'[s] \/ Leads(s))

LEMMA NextMasterQueue ==
  ASSUME TypeOK, Handshake, [Next]_vars, NEW s \in Slaves PROVE MasterQueue(s)
<1>1. chan \in Chans /\ Master \in Peers /\ s \in Peers /\ s # Master
  BY ChanTypes, Stages
<1>2. ASSUME NEW p \in Peers, NEW targets, NEW m \in Packets, chan' = SendAll(chan, p, targets, m)
      PROVE  MasterQueue(s)
  <2>1. chan'[Master][s] = IF Master = p /\ s \in targets THEN Append(chan[Master][s], m) ELSE chan[Master][s]
    BY <1>1, <1>2, SentAll
  <2> QED BY <2>1 DEF MasterQueue
<1>3. ASSUME chan'[Master][s] = chan[Master][s] PROVE MasterQueue(s)
  BY <1>3 DEF MasterQueue
<1>4. ASSUME NEW p \in Peers, Edit(p) PROVE MasterQueue(s)
  <2> DEFINE id == <<p, Cardinality({x \in doc[p] : x[1] = p}) + 1>>
             m  == ChangePacket(id, doc[p])
  <2>1. m \in Packets
    <3>1. id \in Changes
      BY <1>4, NextChange DEF Edit
    <3> QED BY <3>1, SomePackets DEF ChangePacket, ChangePackets, TypeOK
  <2>2. chan' = chan \/ chan' = SendAll(chan, p, collaborators[p], m)
    BY <1>4 DEF Edit
  <2> HIDE DEF m
  <2> QED BY <1>2, <1>3, <2>1, <2>2
<1>5. ASSUME NEW p \in Peers, InitiateSessionTakeover(p) PROVE MasterQueue(s)
  <2>1. PICK n \in collaborators[p] :
          chan' = SendAll(SendAll(chan, p, {n}, RequestPacket(TRUE, collaborators[p] \ {n})),
                          p, collaborators[p] \ {n}, RequestPacket(FALSE, {n}))
    BY <1>5 DEF InitiateSessionTakeover
  <2> DEFINE x == RequestPacket(TRUE, collaborators[p] \ {n})
             y == RequestPacket(FALSE, {n})
             c == SendAll(chan, p, {n}, x)
  <2>2. x \in Packets /\ y \in Packets
    <3>1. collaborators[p] \subseteq Peers /\ n \in Peers
      BY DEF TypeOK
    <3> QED BY <3>1, SomePackets
  <2>3. chan' = SendAll(c, p, collaborators[p] \ {n}, y)
    BY <2>1
  <2> HIDE DEF x, y
  <2>4. c \in Chans /\ c[Master][s] = IF Master = p /\ s = n THEN Append(chan[Master][s], x) ELSE chan[Master][s]
    BY <1>1, <2>2, SentAll
  <2> HIDE DEF c
  <2>5. chan'[Master][s] = IF Master = p /\ s \in collaborators[p] \ {n} THEN Append(c[Master][s], y) ELSE c[Master][s]
    BY <1>1, <2>2, <2>3, <2>4, SentAll
  <2> QED BY <2>2, <2>4, <2>5 DEF MasterQueue
<1>6. ASSUME NEW p \in Peers, DeleteSession(p) PROVE MasterQueue(s)
  BY <1>2, <1>6, SomePackets DEF DeleteSession
<1>7. ASSUME NEW p \in Peers, NEW q \in Peers, Deliver(p, q) PROVE MasterQueue(s)
  <2> DEFINE r == Received(p, q)
             h == Head(chan[q][p])
  <2>1. chan[q][p] # <<>>
    BY <1>7 DEF Deliver, ImportChange, HandleRequest, HandleAck, BecomeMaster, SwitchMaster,
         HandleReconnectRequest, RestartAsSlave, Refuse, DropUnknown, RemoveBuddy, HeadIs
  <2>2. r \in Chans /\ r[Master][s] = IF Master = q /\ s = p THEN Tail(chan[Master][s]) ELSE chan[Master][s]
    BY <1>1, <2>1, ReceivedFrom
  <2>3. ASSUME NEW targets, NEW m \in Packets, chan' = SendAll(r, p, targets, m)
        PROVE  chan'[Master][s] = IF Master = p /\ s \in targets THEN Append(r[Master][s], m) ELSE r[Master][s]
    <3> HIDE DEF r
    <3> QED BY <1>1, <2>2, <2>3, SentAll
  <2>4. CASE p = Master
    <3>1. r[Master][s] = chan[Master][s]
      BY <1>1, <2>2, <2>4
    <3>2. h.type \in {"change", "takeoverAck"}
      <4>1. Master \notin Slaves /\ Master \notin Followers /\ (Begun => NewMaster # Master)
        BY Stages
      <4> QED BY <2>1, <2>4, <4>1, WhatComes
    <3>3. ASSUME NEW targets, NEW m \in Packets, chan' = SendAll(r, p, targets, m) PROVE MasterQueue(s)
      BY <2>3, <3>1, <3>3 DEF MasterQueue
    <3>4. ~HandleRequest(p, q) /\ ~BecomeMaster(p, q) /\ ~SwitchMaster(p, q) /\ ~RemoveBuddy(p, q)
          /\ ~HandleReconnectRequest(p, q) /\ ~RestartAsSlave(p, q)
      BY <3>2 DEF HandleRequest, BecomeMaster, SwitchMaster, RemoveBuddy, HandleReconnectRequest,
         RestartAsSlave, HeadIs
    <3>5. CASE ImportChange(p, q)
      <4> DEFINE m == ChangePacket(h.id, doc[p])
      <4>1. h.type = "change" /\ chan' = SendAll(r, p, ForwardTo(p, q), m)
        BY <3>5 DEF ImportChange, HeadIs
      <4>2. m \in Packets
        <5>1. h.id \in Changes
          BY <2>1, <4>1, ChanTypes, PacketContents
        <5> QED BY <5>1, SomePackets DEF ChangePacket, ChangePackets, TypeOK
      <4> HIDE DEF r, m
      <4> QED BY <3>3, <4>1, <4>2
    <3>6. CASE HandleAck(p, q)
      <4>1. chan' = r \/ chan' = SendAll(r, p, collaborators[p], Packet("flushed"))
        BY <3>6 DEF HandleAck
      <4> QED BY <1>3, <3>1, <3>3, <4>1, SomePackets
    <3>7. CASE Refuse(p, q) \/ DropUnknown(p, q)
      BY <1>3, <3>1, <3>7 DEF Refuse, DropUnknown
    <3> QED BY <1>7, <3>4, <3>5, <3>6, <3>7 DEF Deliver
  <2>5. CASE p # Master
    <3>1. chan'[Master][s] = r[Master][s]
      <4>1. \/ chan' = r
            \/ \E targets : \E m \in Packets : chan' = SendAll(r, p, targets, m)
            \/ \E targets : \E d \in Seq(Packets) : chan' = SendEach(r, p, targets, d)
        <5>1. ASSUME ImportChange(p, q) PROVE \E targets : \E m \in Packets : chan' = SendAll(r, p, targets, m)
          <6>1. h.type = "change" /\ chan' = SendAll(r, p, ForwardTo(p, q), ChangePacket(h.id, doc[p]))
            BY <5>1 DEF ImportChange, HeadIs
          <6>2. h.id \in Changes
            BY <2>1, <6>1, ChanTypes, PacketContents
          <6>3. ChangePacket(h.id, doc[p]) \in Packets
            BY <6>2, SomePackets DEF ChangePacket, ChangePackets, TypeOK
          <6> QED BY <6>1, <6>3
        <5>2. HandleRequest(p, q) => \E targets : \E m \in Packets : chan' = SendAll(r, p, targets, m)
          BY SomePackets DEF HandleRequest, Ack
        <5>3. HandleAck(p, q) => chan' = r \/ \E targets : \E m \in Packets : chan' = SendAll(r, p, targets, m)
          BY SomePackets DEF HandleAck
        <5>4. SwitchMaster(p, q) => \E targets : \E m \in Packets : chan' = SendAll(r, p, targets, m)
          BY SomePackets DEF SwitchMaster
        <5>5. ASSUME NEW cs, NEW told, NEW missing, CheckRestartAsMaster(p, q, cs, told, missing)
              PROVE  chan' = r \/ \E targets : \E d \in Seq(Packets) : chan' = SendEach(r, p, targets, d)
          BY <5>5, GreetingIs DEF CheckRestartAsMaster, Greeting
        <5>6. BecomeMaster(p, q) \/ HandleReconnectRequest(p, q) =>
                chan' = r \/ \E targets : \E d \in Seq(Packets) : chan' = SendEach(r, p, targets, d)
          BY <5>5 DEF BecomeMaster, HandleReconnectRequest
        <5>7. RestartAsSlave(p, q) => \E targets : \E d \in Seq(Packets) : chan' = SendEach(r, p, targets, d)
          BY ChanTypes DEF RestartAsSlave
        <5>8. Refuse(p, q) \/ DropUnknown(p, q) \/ RemoveBuddy(p, q) => chan' = r
          BY DEF Refuse, DropUnknown, RemoveBuddy
        <5> QED BY <1>7, <5>1, <5>2, <5>3, <5>4, <5>6, <5>7, <5>8 DEF Deliver
      <4>2. \A targets : \A d \in Seq(Packets) : SendEach(r, p, targets, d)[Master][s] = r[Master][s]
        <5> HIDE DEF r
        <5> QED BY <1>1, <2>2, <2>5, SentEach
      <4> HIDE DEF r
      <4> QED BY <2>3, <2>5, <4>1, <4>2 DEF r
    <3>2. CASE q = Master /\ p = s
      <4>1. ASSUME h.type = "change" PROVE h.id \in doc'[s] \/ Leads(s)
        <5>1. CASE ImportChange(p, q)
          BY <3>2, <5>1, <1>1 DEF ImportChange, TypeOK
        <5>2. CASE Refuse(p, q)
          <6>1. ~MayImport(p, q)
            BY <4>1, <5>2 DEF Refuse, Allowed
          <6>2. controller[s] = None /\ state[s] # "NONE"
            BY <3>2, <6>1 DEF MayImport, isLocallyControlled
          <6>3. ~Stays(s) /\ ~Answers(s)
            BY <1>1, <6>2, Stages DEF Stays, Answers
          <6>4. ~Follows(s)
            BY <6>2, Stages DEF Follows, Handshake, MasterInv
          <6>5. Begun => Leads(s)
            BY <6>3, <6>4, Stages DEF Handshake, Way
          <6>6. Begun
            BY <6>3 DEF Handshake, Way
          <6> QED BY <6>5, <6>6
        <5>3. ~DropUnknown(p, q)
          BY <3>2 DEF DropUnknown, Handshake, Way
        <5> QED BY <1>7, <4>1, <5>1, <5>2, <5>3 DEF Deliver, HandleRequest, HandleAck, BecomeMaster,
               SwitchMaster, HandleReconnectRequest, RestartAsSlave, RemoveBuddy, HeadIs
      <4> QED BY <2>1, <2>2, <3>1, <3>2, <4>1 DEF MasterQueue
    <3>3. CASE ~(q = Master /\ p = s)
      BY <1>3, <2>2, <3>1, <3>3
    <3> QED BY <3>2, <3>3
  <2> QED BY <2>4, <2>5
<1>8. CASE UNCHANGED vars
  BY <1>3, <1>8 DEF vars
<1> QED BY <1>4, <1>5, <1>6, <1>7, <1>8 DEF Next

(* A packet of the master to a slave is the last one of its queue.          *)
LEMMA MasterSends ==
  ASSUME NEW c \in Chans, NEW targets, NEW m \in Packets, NEW s \in Slaves, s \in targets
  PROVE  SendAll(c, Master, targets, m)[Master][s] = Append(c[Master][s], m)
<1>1. Master \in Peers /\ s \in Peers
  BY FinitePeers
<1>2. \A a, b \in Peers :
         SendAll(c, Master, targets, m)[a][b] =
           IF a = Master /\ b \in targets THEN Append(c[a][b], m) ELSE c[a][b]
  BY <1>1, SentAll
<1> QED BY <1>1, <1>2

(* Until the old master ends nobody is told that the session is flushed,    *)
(* and whatever it learns it sends to every slave that does not have it.    *)
LEMMA MasterLearns ==
  ASSUME TypeOK, Handshake, OwnChanges, [Next]_vars, ~Ended, NEW s \in Slaves,
         NEW x \in doc'[Master], x \notin doc[Master]
  PROVE  x \in doc'[s] \/ x \in Coming(chan'[Master][s])
<1>1. /\ chan \in Chans /\ Master \in Peers /\ s \in Peers /\ s # Master
      /\ chan[Master][s] \in Seq(Packets)
  BY ChanTypes, Stages
<1>2. ~Has(chan[Master][s], "flushed")
  BY DEF Handshake, FromMaster, Once
<1>3. controller[Master] = None /\ collaborators[Master] = Slaves
  BY DEF Handshake, MasterInv
<1>4. doc' # doc
  OBVIOUS
<1>5. ASSUME NEW p \in Peers, Edit(p)
      PROVE  x \in Coming(chan'[Master][s])
  <2> DEFINE id == <<p, Cardinality({y \in doc[p] : y[1] = p}) + 1>>
             m  == ChangePacket(id, doc[p])
  <2>1. m \in Packets /\ m.id = id /\ m.type = "change"
    <3>1. id \in Changes
      BY <1>5, NextChange DEF Edit
    <3> QED BY <3>1, SomePackets DEF ChangePacket, ChangePackets, TypeOK
  <2>2. doc' = [doc EXCEPT ![p] = @ \cup {id}]
    BY <1>5 DEF Edit
  <2> HIDE DEF id, m
  <2>3. p = Master /\ x = id
    BY <1>1, <2>2 DEF TypeOK
  <2>4. ~HoldsOn(p)
    BY <1>3, <2>3 DEF HoldsOn, isLocallyControlled
  <2>5. chan' = SendAll(chan, p, collaborators[p], m)
    BY <1>5, <2>4 DEF Edit, id, m
  <2>6. chan'[Master][s] = Append(chan[Master][s], m)
    BY <1>1, <1>3, <2>1, <2>3, <2>5, MasterSends
  <2> QED BY <1>1, <1>2, <2>1, <2>3, <2>6, ComingSent
<1>6. ASSUME NEW p \in Peers, NEW q \in Peers, ImportChange(p, q)
      PROVE  x \in doc'[s] \/ x \in Coming(chan'[Master][s])
  <2> DEFINE r == Received(p, q)
             h == Head(chan[q][p])
             m == ChangePacket(h.id, doc[p])
  <2>1. /\ chan[q][p] # <<>> /\ h.type = "change"
        /\ doc' = [doc EXCEPT ![p] = @ \cup {h.id}]
        /\ chan' = SendAll(r, p, ForwardTo(p, q), m)
    BY <1>6 DEF ImportChange, HeadIs
  <2>2. m \in Packets /\ m.id = h.id /\ m.type = "change"
    <3>1. h.id \in Changes
      BY <2>1, ChanTypes, PacketContents
    <3> QED BY <3>1, SomePackets DEF ChangePacket, ChangePackets, TypeOK
  <2>3. p = Master /\ x = h.id
    <3> HIDE DEF h
    <3> QED BY <1>1, <2>1 DEF TypeOK
  <2>4. r \in Chans /\ r[Master][s] = chan[Master][s]
    BY <1>1, <2>1, <2>3, ReceivedFrom
  <2>5. ForwardTo(p, q) = Slaves \ {q}
    BY <1>3, <2>3 DEF ForwardTo, isLocallyControlled
  <2>6. CASE s = q
    <3>1. Known(chan[q][p], doc[q])
      BY DEF OwnChanges
    <3>2. 1 \in 1..Len(chan[q][p]) /\ h = chan[q][p][1]
      <4>1. chan[q][p] \in Seq(Packets)
        BY ChanTypes
      <4> QED BY <2>1, <4>1, EmptySeq, LenProperties
    <3>3. h.id \in doc[q]
      BY <2>1, <3>1, <3>2 DEF Known
    <3> QED BY <2>3, <2>6, <3>3, DocGrows
  <2>7. CASE s # q
    <3> HIDE DEF r, m, h
    <3>1. chan'[Master][s] = Append(chan[Master][s], m)
      <4>1. chan' = SendAll(r, Master, Slaves \ {q}, m) /\ s \in Slaves \ {q}
        BY <2>1, <2>3, <2>5, <2>7
      <4>2. SendAll(r, Master, Slaves \ {q}, m)[Master][s] = Append(r[Master][s], m)
        BY <2>2, <2>4, <4>1, MasterSends
      <4> QED BY <2>4, <4>1, <4>2
    <3> QED BY <1>1, <1>2, <2>2, <2>3, <3>1, ComingSent
  <2> QED BY <2>6, <2>7
<1>7. \/ \E p \in Peers : Edit(p)
      \/ \E p, q \in Peers : ImportChange(p, q)
  <2>1. ASSUME NEW p \in Peers, InitiateSessionTakeover(p) \/ DeleteSession(p) PROVE doc' = doc
    BY <2>1 DEF InitiateSessionTakeover, DeleteSession
  <2>2. ASSUME NEW p \in Peers, NEW q \in Peers, Deliver(p, q), ~ImportChange(p, q) PROVE doc' = doc
    BY <2>2 DEF Deliver, HandleRequest, HandleAck, BecomeMaster, SwitchMaster,
         HandleReconnectRequest, RestartAsSlave, Refuse, DropUnknown, RemoveBuddy
  <2> QED BY <1>4, <2>1, <2>2 DEF Next, vars
<1> QED BY <1>5, <1>6, <1>7

(* The session of the old master is flushed once, by its last acknowledgement, *)
(* and then every slave is told so.                                         *)
Flushes ==
  /\ ~Ended /\ Ended' /\ old' = doc[Master] /\ doc' = doc
  /\ \A s \in Slaves : chan'[Master][s] = Append(chan[Master][s], Packet("flushed"))

LEMMA FlushedOnce ==
  ASSUME TypeOK, Handshake, [Next]_vars
  PROVE  /\ (old' = old /\ (Ended' => Ended)) \/ Flushes
         /\ Ended => Ended'
<1>1. chan \in Chans /\ Master \in Peers /\ Slaves \subseteq Peers /\ Master \notin Slaves
  BY ChanTypes, Stages
<1>2. life \in [Peers -> {"in", "waiting", "released", "gone"}]
  BY DEF TypeOK
<1>3. /\ state[Master] = "SENT_TAKEOVER_REQUEST" <=> life[Master] = "waiting"
      /\ controller[Master] = None /\ collaborators[Master] = Slaves
      /\ \A s \in Slaves : life[s] = "in" /\ state[s] # "SENT_TAKEOVER_REQUEST"
  <2>1. \A s \in Slaves : life[s] = "in" /\ (Stays(s) \/ Answers(s) \/ Leads(s) \/ Follows(s))
    <3>1. Begun => life[Master] = "waiting" \/ Ended
      BY Stages
    <3> QED BY <3>1 DEF Handshake, Way
  <2>2. \A s \in Slaves : state[s] # "SENT_TAKEOVER_REQUEST"
    BY <2>1 DEF Stays, Answers, Leads, Follows
  <2>3. state[Master] = IF life[Master] = "waiting" THEN "SENT_TAKEOVER_REQUEST" ELSE "NONE"
    BY DEF Handshake, MasterInv
  <2> QED BY <2>1, <2>2, <2>3 DEF Handshake, MasterInv
<1> DEFINE Goal == ((old' = old /\ (Ended' => Ended)) \/ Flushes) /\ (Ended => Ended')
<1>4. ASSUME NEW p \in Peers, Edit(p) \/ InitiateSessionTakeover(p) PROVE Goal
  BY <1>1, <1>2, <1>4 DEF Edit, InitiateSessionTakeover, protocol, Ended
<1>5. ASSUME NEW p \in Peers, DeleteSession(p) PROVE Goal
  BY <1>1, <1>2, <1>5 DEF DeleteSession, Ended
<1>6. ASSUME NEW p \in Peers, NEW q \in Peers, HandleAck(p, q) PROVE Goal
  <2>1. chan[q][p] # <<>> /\ state[p] = "SENT_TAKEOVER_REQUEST" /\ doc' = doc
    BY <1>6 DEF HandleAck, HeadIs, AckAllowed
  <2>2. p = Master /\ life[Master] = "waiting" /\ ~Ended
    <3>1. p = Master \/ p \in Slaves
      BY Stages
    <3> QED BY <1>3, <2>1, <3>1 DEF Ended
  <2>3. Received(p, q) \in Chans /\ \A s \in Slaves : Received(p, q)[Master][s] = chan[Master][s]
    BY <1>1, <2>1, <2>2, ReceivedFrom
  <2>4. CASE life' = life /\ old' = old
    BY <2>2, <2>4 DEF Ended
  <2>5. CASE /\ old' = doc[p] /\ life' = [life EXCEPT ![p] = "released"]
             /\ chan' = SendAll(Received(p, q), p, collaborators[p], Packet("flushed"))
    <3> DEFINE r == Received(p, q)
    <3> HIDE DEF r
    <3>1. \A s \in Slaves : chan'[Master][s] = Append(chan[Master][s], Packet("flushed"))
      <4>1. chan' = SendAll(r, Master, Slaves, Packet("flushed")) /\ r \in Chans
        BY <1>3, <2>2, <2>3, <2>5 DEF r
      <4>2. \A s \in Slaves : r[Master][s] = chan[Master][s]
        BY <2>3 DEF r
      <4>3. \A s \in Slaves :
               SendAll(r, Master, Slaves, Packet("flushed"))[Master][s] = Append(r[Master][s], Packet("flushed"))
        BY <4>1, MasterSends, SomePackets
      <4> QED BY <4>1, <4>2, <4>3
    <3> QED BY <1>1, <1>2, <2>1, <2>2, <2>5, <3>1 DEF Flushes, Ended
  <2> QED BY <1>6, <2>4, <2>5 DEF HandleAck
<1>7. ASSUME NEW p \in Peers, NEW q \in Peers, Deliver(p, q), ~HandleAck(p, q) PROVE Goal
  <2>1. old' = old
    BY <1>7 DEF Deliver, ImportChange, HandleRequest, BecomeMaster, SwitchMaster,
         HandleReconnectRequest, RestartAsSlave, Refuse, DropUnknown, RemoveBuddy
  <2>2. life' = life \/ (p # Master /\ life' = [life EXCEPT ![p] = "gone"])
    <3>1. ASSUME RemoveBuddy(p, q) PROVE p # Master \/ life' = life
      <4>1. q # None
        BY FinitePeers
      <4> QED BY <1>3, <3>1, <4>1 DEF RemoveBuddy
    <3> QED BY <1>7, <3>1 DEF Deliver, ImportChange, HandleRequest, BecomeMaster, SwitchMaster,
         HandleReconnectRequest, RestartAsSlave, Refuse, DropUnknown, RemoveBuddy, protocol
  <2> QED BY <1>1, <1>2, <2>1, <2>2 DEF Ended
<1>8. CASE UNCHANGED vars
  BY <1>8 DEF vars, Ended
<1> QED BY <1>4, <1>5, <1>6, <1>7, <1>8 DEF Next

(* A slave keeps what is under way to it until it has it; it turns away     *)
(* from the old master only when nothing is.                                *)
LEMMA ComingKept ==
  ASSUME TypeOK, TypeOK', Handshake, Handshake', [Next]_vars, NEW s \in Slaves,
         Stays(s) \/ Answers(s), NEW x \in Coming(chan[Master][s])
  PROVE  /\ x \in doc'[s] \/ x \in Coming(chan'[Master][s])
         /\ Answers(s) /\ Ended => x \in doc'[s] \/ Answers(s)'
<1> DEFINE c == chan[Master][s]
           d == chan'[Master][s]
<1>1. c \in Seq(Packets) /\ Master \in Peers /\ s \in Peers /\ ~Leads(s)
  BY ChanTypes, Stages
<1>2. MasterQueue(s)
  BY NextMasterQueue
<1>3. /\ Has(c, "flushed") <=> Ended /\ Answers(s)
      /\ Has(d, "flushed") <=> Ended' /\ Answers(s)'
  <2>1. FromMaster(s) /\ FromMaster(s)'
    BY DEF Handshake
  <2> QED BY <2>1 DEF FromMaster, Once
<1>4. \/ d = c
      \/ \E m \in Packets : d = Append(c, m)
      \/ c # <<>> /\ d = Tail(c) /\ (Head(c).type = "change" => Head(c).id \in doc'[s])
  BY <1>1, <1>2 DEF MasterQueue
<1> HIDE DEF c, d
<1>5. x \in Coming(c)
  BY DEF c
<1>6. CASE d = c
  BY <1>3, <1>5, <1>6 DEF d
<1>7. ASSUME NEW m \in Packets, d = Append(c, m) PROVE x \in Coming(d) /\ (Has(c, "flushed") => Has(d, "flushed"))
  BY <1>1, <1>5, <1>7, ComingSent, Sent DEF c
<1>8. CASE c # <<>> /\ d = Tail(c) /\ (Head(c).type = "change" => Head(c).id \in doc'[s])
  <2>1. Head(c).type # "flushed"
    BY <1>1, <1>5, <1>8, ComingTaken DEF c
  <2>2. x \in Coming(d) \/ x \in doc'[s]
    BY <1>1, <1>5, <1>8, <2>1, ComingTaken DEF c
  <2>3. Has(c, "flushed") => Has(d, "flushed")
    BY <1>1, <1>8, <2>1, Taken DEF c
  <2> QED BY <1>3, <2>2, <2>3 DEF d
<1> QED BY <1>3, <1>4, <1>6, <1>7, <1>8 DEF d

(* What is under way from the old master stays accounted for.               *)
LEMMA NextFlushing ==
  ASSUME TypeOK, TypeOK', Handshake, Handshake', OwnChanges, Flushing, [Next]_vars PROVE Flushing'
<1>1. /\ (old' = old /\ (Ended' => Ended)) \/ Flushes
      /\ Ended => Ended'
  BY FlushedOnce
<1>2. \A s \in Slaves : doc[s] \subseteq doc'[s]
  BY DocGrows, Stages
<1>3. \A s \in Slaves : ~Ended => Stays(s) \/ Answers(s)
  BY Stages DEF Handshake, Way
<1>4. \A s \in Slaves, x \in doc[Master] :
         ~Ended => x \in doc'[s] \/ x \in Coming(chan'[Master][s])
  <2> SUFFICES ASSUME NEW s \in Slaves, NEW x \in doc[Master], ~Ended
               PROVE  x \in doc'[s] \/ x \in Coming(chan'[Master][s])
    OBVIOUS
  <2>1. x \in doc[s] \/ x \in Coming(chan[Master][s])
    BY DEF Flushing
  <2> QED BY <1>2, <1>3, <2>1, ComingKept
<1>5. ASSUME ~Ended' PROVE old' = {} /\ \A s \in Slaves : doc'[Master] \subseteq doc'[s] \cup Coming(chan'[Master][s])
  <2>1. ~Ended
    BY <1>1, <1>5
  <2>2. ~Flushes
    BY <1>5 DEF Flushes
  <2>3. old' = {}
    BY <1>1, <2>1, <2>2 DEF Flushing
  <2>4. \A s \in Slaves, x \in doc'[Master] :
           x \notin doc[Master] => x \in doc'[s] \/ x \in Coming(chan'[Master][s])
    BY <2>1, MasterLearns
  <2> QED BY <1>4, <2>1, <2>3, <2>4
<1>6. ASSUME NEW s \in Slaves, NEW x \in old'
      PROVE  x \in doc'[s] \/ (Answers(s)' /\ x \in Coming(chan'[Master][s]))
  <2>1. CASE Flushes
    <3>1. Answers(s)'
      <4>1. Has(chan'[Master][s], "flushed")
        <5>1. chan[Master][s] \in Seq(Packets)
          BY ChanTypes, Stages
        <5> DEFINE m == Packet("flushed")
        <5>2. m.type = "flushed" /\ m \in Packets /\ chan'[Master][s] = Append(chan[Master][s], m)
          BY <2>1, SomePackets DEF Packet, Flushes
        <5> HIDE DEF m
        <5>3. Once(chan[Master][s], "flushed", Ended /\ Answers(s)) /\ ~Ended
          BY <2>1 DEF Handshake, FromMaster, Flushes
        <5>4. Once(Append(chan[Master][s], m), "flushed", TRUE)
          BY <5>1, <5>2, <5>3, SentOnce
        <5> QED BY <5>2, <5>4 DEF Once
      <4> QED BY <4>1 DEF Handshake, FromMaster, Once
    <3>2. x \in doc[Master] /\ ~Ended
      BY <2>1 DEF Flushes
    <3> QED BY <1>4, <3>1, <3>2
  <2>2. CASE old' = old
    <3>1. x \in doc[s] \/ (Answers(s) /\ x \in Coming(chan[Master][s]))
      BY <2>2 DEF Flushing
    <3>2. Ended
      BY <2>2 DEF Flushing
    <3>3. CASE x \in doc[s]
      BY <1>2, <3>3
    <3>4. CASE Answers(s) /\ x \in Coming(chan[Master][s])
      BY <3>2, <3>4, ComingKept
    <3> QED BY <3>1, <3>3, <3>4
  <2> QED BY <1>1, <2>1, <2>2
<1> QED BY <1>5, <1>6 DEF Flushing

(* The invariant behind the flush always holds.                             *)
THEOREM AlwaysFlushInv == Spec => []FlushInv
<1>1. Init => FlushInv
  <2> SUFFICES ASSUME Init PROVE FlushInv
    OBVIOUS
  <2>1. \A ids : Known(<<>>, ids)
    BY EmptySeq DEF Known
  <2>2. OwnChanges
    BY <2>1 DEF OwnChanges, Init
  <2>3. Master \in Peers /\ Slaves \subseteq Peers
    BY FinitePeers
  <2>4. Flushing
    BY <2>3 DEF Flushing, Init, Ended
  <2> QED BY <2>2, <2>4 DEF FlushInv
<1>2. IInv /\ IInv' /\ FlushInv /\ [Next]_vars => FlushInv'
  <2> SUFFICES ASSUME IInv, IInv', FlushInv, [Next]_vars PROVE FlushInv'
    OBVIOUS
  <2>1. TypeOK /\ TypeOK' /\ OwnChanges /\ OwnChanges'
    BY NextOwnChanges DEF IInv, FlushInv
  <2>2. ASSUME MaxTakeovers <= 1 \/ FirstTakeover' PROVE Flushing'
    <3>1. MaxTakeovers <= 1 \/ FirstTakeover
      BY <2>1, <2>2, NobodyReturns
    <3>2. Handshake /\ Handshake' /\ Flushing
      BY <2>2, <3>1 DEF IInv, FlushInv
    <3> QED BY <2>1, <3>2, NextFlushing
  <2> QED BY <2>1, <2>2 DEF FlushInv
<1> QED BY <1>1, <1>2, AlwaysIInv, PTL DEF Spec

(* In the first takeover a peer that has turned to the new master, or has   *)
(* become it, has every change of the old session ("all session data is     *)
(* flushed", _shutdownAsMaster), also when somebody edits meanwhile.         *)
LEMMA HandshakeFlushed ==
  ASSUME TypeOK, Handshake, Flushing PROVE OldSessionFlushed
<1> SUFFICES ASSUME NEW p \in Peers, Here(p), Turned(p) PROVE old \subseteq doc[p]
  BY DEF OldSessionFlushed
<1>1. CASE p = Master
  <2>1. ~Ended
    BY <1>1 DEF Here, Ended
  <2> QED BY <2>1 DEF Flushing
<1>2. CASE p \in Slaves
  <2>1. ~Answers(p)
    BY DEF Answers, Turned
  <2> QED BY <1>2, <2>1 DEF Flushing
<1> QED BY <1>1, <1>2 DEF Peers

THEOREM AlwaysOldSessionFlushed ==
  ASSUME MaxTakeovers <= 1 PROVE Spec => []OldSessionFlushed
<1>1. IInv /\ FlushInv => OldSessionFlushed
  BY HandshakeFlushed DEF IInv, FlushInv
<1> QED BY <1>1, AlwaysIInv, AlwaysFlushInv, PTL
============================================================================
