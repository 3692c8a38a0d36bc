---------------------- MODULE TakeoverLossless_proofs ----------------------
(***************************************************************************)
(* A takeover loses nothing when nobody edits between the two sessions:    *)
(* proofs of TakeoverIsLossless and TakeoverIsAccounted of SessionTakeover *)
(* for any finite number of slaves.                                        *)
(*                                                                         *)
(* Sharing, the invariant, says what the slaves share with the old master  *)
(* and what the followers share with the new one, and what may still be    *)
(* under way; it rests on Handshake and Flushing.  Edits and imports are   *)
(* taken one by one; every other step leaves the documents alone and keeps *)
(* all changes in the queues, and only the stages of the slaves move.      *)
(***************************************************************************)
EXTENDS SessionTakeover_proofs
----------------------------------------------------------------------------
(* Queues. *)

(* What is in a queue after a packet was sent, ...                          *)
LEMMA CarriedSent ==
  ASSUME NEW c \in Seq(Packets), NEW m \in Packets
  PROVE  /\ Carried(c) \subseteq Carried(Append(c, m))
         /\ m.type = "change" => m.id \in Carried(Append(c, m))
         /\ \A ids : Aware(c, ids) /\ (m.type = "change" => ids \subseteq m.seen) => Aware(Append(c, m), ids)
<1> DEFINE d == Append(c, m)
           n == Len(c)
<1>1. /\ Len(d) = n + 1 /\ n \in Nat
      /\ \A j \in 1..n : d[j] = c[j]
      /\ d[n + 1] = m
  BY AppendProperties, LenProperties
<1> HIDE DEF d
<1>2. (\A i \in 1..n : i \in 1..Len(d)) /\ n + 1 \in 1..Len(d) /\ \A i \in 1..Len(d) : i \in 1..n \/ i = n + 1
  BY <1>1
<1>3. m.type = "change" => m.id \in Changes
  BY PacketContents
<1> HIDE DEF n
<1>4. Carried(c) \subseteq Carried(d)
  BY <1>1, <1>2 DEF Carried, n
<1>5. m.type = "change" => m.id \in Carried(d)
  BY <1>1, <1>2, <1>3 DEF Carried
<1>6. \A ids : Aware(c, ids) /\ (m.type = "change" => ids \subseteq m.seen) => Aware(d, ids)
  BY <1>1, <1>2 DEF Aware, n
<1> QED BY <1>4, <1>5, <1>6 DEF d

(* ... and after one was received.                                          *)
LEMMA CarriedTaken ==
  ASSUME NEW c \in Seq(Packets), c # <<>>
  PROVE  /\ \A id \in Carried(c) : id \in Carried(Tail(c)) \/ (Head(c).type = "change" /\ id = Head(c).id)
         /\ \A ids : Aware(c, ids) => Aware(Tail(c), ids) /\ (Head(c).type = "change" => ids \subseteq Head(c).seen)
         /\ \A ids : Known(c, ids) => Known(Tail(c), ids) /\ (Head(c).type = "change" => Head(c).id \in ids)
<1> DEFINE d == Tail(c)
           n == Len(c)
<1>1. n \in Nat /\ n >= 1
  BY EmptySeq, LenProperties
<1>2. Len(d) = n - 1 /\ \A i \in 1..Len(d) : d[i] = c[i + 1]
  BY HeadTailProperties, Zenon
<1>3. Head(c) = c[1]
  OBVIOUS
<1> HIDE DEF d
<1>4. /\ \A i \in 1..n : i = 1 \/ i - 1 \in 1..Len(d)
      /\ \A i \in 1..Len(d) : i + 1 \in 1..n
      /\ \A i \in 1..n : (i - 1) + 1 = i
      /\ 1 \in 1..n
  BY <1>1, <1>2
<1> HIDE DEF n
<1>5. ASSUME NEW id \in Carried(c) PROVE id \in Carried(d) \/ (Head(c).type = "change" /\ id = Head(c).id)
  <2>1. PICK i \in 1..n : c[i].type = "change" /\ c[i].id = id
    BY DEF Carried, n
  <2>2. id \in Changes
    BY DEF Carried
  <2>3. i = 1 \/ (i - 1 \in 1..Len(d) /\ d[i - 1] = c[i])
    BY <1>2, <1>4
  <2> QED BY <1>3, <2>1, <2>2, <2>3 DEF Carried
<1>6. ASSUME NEW ids, Aware(c, ids) PROVE Aware(d, ids) /\ (Head(c).type = "change" => ids \subseteq Head(c).seen)
  BY <1>2, <1>3, <1>4, <1>6 DEF Aware, n
<1>7. ASSUME NEW ids, Known(c, ids) PROVE Known(d, ids) /\ (Head(c).type = "change" => Head(c).id \in ids)
  BY <1>2, <1>3, <1>4, <1>7 DEF Known, n
<1> QED BY <1>5, <1>6, <1>7 DEF d

(* A queue without changes.                                                 *)
LEMMA NothingCarried ==
  ASSUME NEW c, ~Has(c, "change")
  PROVE  /\ Carried(c) = {}
         /\ \A ids : Aware(c, ids) /\ Known(c, ids)
         /\ \A t : NoneAfter(c, "change", t)
BY DEF Carried, Aware, Known, NoneAfter, Has

(* Other packets come and go: all changes stay in the queue, and no change  *)
(* overtakes the end of a session or the start of the next.                 *)
Keeps(c, d) ==
  /\ Carried(c) \subseteq Carried(d)
  /\ Has(d, "change") => Has(c, "change")
  /\ \A ids : (Known(c, ids) => Known(d, ids)) /\ (Aware(c, ids) => Aware(d, ids))
  /\ NoneAfter(c, "flushed", "change") => NoneAfter(d, "flushed", "change")
  /\ Restarted /\ NoneAfter(c, "change", "reconnectAck") => NoneAfter(d, "change", "reconnectAck")

LEMMA KeepsItself ==
  ASSUME NEW c PROVE Keeps(c, c)
BY DEF Keeps

LEMMA KeepsTogether ==
  ASSUME NEW c, NEW d, NEW e, Keeps(c, d), Keeps(d, e) PROVE Keeps(c, e)
BY DEF Keeps

LEMMA KeepsSent ==
  ASSUME NEW c \in Seq(Packets), NEW m \in Packets, m.type # "change", Restarted => m.type # "reconnectAck"
  PROVE  Keeps(c, Append(c, m))
BY CarriedSent, KnownChanges, Sent DEF Keeps

LEMMA KeepsTaken ==
  ASSUME NEW c \in Seq(Packets), c # <<>>, Head(c).type # "change" PROVE Keeps(c, Tail(c))
<1>1. Carried(c) \subseteq Carried(Tail(c))
  BY CarriedTaken
<1> QED BY <1>1, CarriedTaken, Taken DEF Keeps

KeepsAll(c, d) == \A a, b \in Peers : Keeps(c[a][b], d[a][b])

LEMMA KeepsSentAll ==
  ASSUME NEW c \in Chans, NEW p \in Peers, NEW targets, NEW m \in Packets, m.type # "change",
         Restarted => m.type # "reconnectAck"
  PROVE  SendAll(c, p, targets, m) \in Chans /\ KeepsAll(c, SendAll(c, p, targets, m))
<1> DEFINE d == SendAll(c, p, targets, m)
<1>1. d \in Chans /\ \A a, b \in Peers : d[a][b] = IF a = p /\ b \in targets THEN Append(c[a][b], m) ELSE c[a][b]
  BY SentAll
<1>2. \A a, b \in Peers : c[a][b] \in Seq(Packets)
  BY DEF Chans
<1> HIDE DEF d
<1>3. ASSUME NEW a \in Peers, NEW b \in Peers PROVE Keeps(c[a][b], d[a][b])
  <2>1. Keeps(c[a][b], Append(c[a][b], m))
    BY <1>2, KeepsSent
  <2> QED BY <1>1, <2>1, KeepsItself
<1> QED BY <1>1, <1>3 DEF KeepsAll, d

LEMMA KeepsReceived ==
  ASSUME TypeOK, NEW p \in Peers, NEW q \in Peers, chan[q][p] # <<>>, Head(chan[q][p]).type # "change"
  PROVE  Received(p, q) \in Chans /\ KeepsAll(chan, Received(p, q))
<1>1. Received(p, q) \in Chans
      /\ \A a, b \in Peers :
            Received(p, q)[a][b] = IF a = q /\ b = p THEN Tail(chan[a][b]) ELSE chan[a][b]
  BY ChanTypes, ReceivedFrom
<1>2. Keeps(chan[q][p], Tail(chan[q][p]))
  BY ChanTypes, KeepsTaken
<1> QED BY <1>1, <1>2, KeepsItself DEF KeepsAll

LEMMA KeepsAllTogether ==
  ASSUME NEW c, NEW d, NEW e, KeepsAll(c, d), KeepsAll(d, e) PROVE KeepsAll(c, e)
BY KeepsTogether DEF KeepsAll

(* A leader that has held nothing back only says that the session goes on,  *)
(* and a follower then sends nothing.                                       *)
LEMMA KeepsGreeted ==
  ASSUME NEW c \in Chans, NEW p \in Peers, NEW targets, ~Restarted
  PROVE  KeepsAll(c, SendEach(c, p, targets, <<Packet("reconnectAck")>>))
<1> DEFINE m == Packet("reconnectAck")
<1>1. m \in Packets /\ m.type = "reconnectAck"
  BY SomePackets DEF Packet
<1> HIDE DEF m
<1> DEFINE w == <<m>>
           d == SendEach(c, p, targets, w)
<1>2. w \in Seq(Packets)
  BY <1>1
<1> HIDE DEF w
<1>3. \A a, b \in Peers : d[a][b] = IF a = p /\ b \in targets THEN c[a][b] \o w ELSE c[a][b]
  BY <1>2, SentEach
<1> HIDE DEF d
<1>4. ASSUME NEW a \in Peers, NEW b \in Peers PROVE Keeps(c[a][b], d[a][b])
  <2>1. c[a][b] \in Seq(Packets)
    BY DEF Chans
  <2>2. Append(c[a][b], m) = c[a][b] \o w
    BY <1>1, <2>1, AppendIsConcat DEF w
  <2>3. Keeps(c[a][b], Append(c[a][b], m))
    BY <1>1, <2>1, KeepsSent
  <2> QED BY <1>3, <2>2, <2>3, KeepsItself
<1> QED BY <1>4 DEF KeepsAll, d, w, m

LEMMA KeepsSilent ==
  ASSUME NEW c \in Chans, NEW p \in Peers, NEW targets
  PROVE  KeepsAll(c, SendEach(c, p, targets, <<>>))
<1> DEFINE w == <<>>
           d == SendEach(c, p, targets, w)
<1>0. w \in Seq(Packets)
  OBVIOUS
<1> HIDE DEF w
<1>1. \A a, b \in Peers : d[a][b] = IF a = p /\ b \in targets THEN c[a][b] \o w ELSE c[a][b]
  BY <1>0, SentEach
<1> HIDE DEF d
<1>2. ASSUME NEW a \in Peers, NEW b \in Peers PROVE d[a][b] = c[a][b]
  <2>1. c[a][b] \in Seq(Packets)
    BY DEF Chans
  <2> QED BY <1>1, <2>1, ConcatEmptySeq DEF w
<1> QED BY <1>2, KeepsItself DEF KeepsAll, d, w
----------------------------------------------------------------------------
(* Steps that are neither edits nor imports. *)

(* No change is refused, and none comes to a peer that has gone.            *)
LEMMA NoChangeWasted ==
  ASSUME TypeOK, Handshake, Sharing, NEW p \in Peers, NEW q \in Peers, Refuse(p, q) \/ DropUnknown(p, q)
  PROVE  chan[q][p] # <<>> /\ Head(chan[q][p]).type # "change"
<1>1. chan[q][p] # <<>>
  BY DEF Refuse, DropUnknown
<1> DEFINE m == Head(chan[q][p])
<1> SUFFICES ASSUME m.type = "change" PROVE FALSE
  BY <1>1
<1>2. \/ q = Master /\ p \in Slaves
      \/ q \in Slaves /\ p = Master
      \/ Begun /\ q \in Followers /\ p = NewMaster /\ Restarted
      \/ Begun /\ q = NewMaster /\ p \in Followers
  BY <1>1, WhatComes
<1>3. CASE p \in Slaves
  <2>1. life[p] = "in" /\ Way(p)
    BY <1>3 DEF Handshake, Way
  <2>2. ~MayImport(p, q)
    BY <2>1 DEF Refuse, DropUnknown, Allowed
  <2>3. controller[p] = None /\ state[p] # "NONE"
    BY <2>2 DEF MayImport, isLocallyControlled
  <2>4. ~Stays(p) /\ ~Answers(p)
    BY <2>3, Stages DEF Stays, Answers
  <2>5. Begun /\ ~Follows(p)
    BY <2>1, <2>3, <2>4, Stages DEF Follows, Way
  <2>6. Leads(p) /\ Ended /\ ~Restarted
    BY <1>3, <2>1, <2>3, <2>4, <2>5, Stages DEF Way, Leads, Restarted
  <2>7. q = Master /\ p = NewMaster
    BY <1>2, <1>3, <2>6, Stages DEF Leads
  <2>8. ~Has(chan[Master][p], "change")
    BY <1>3, <2>4, <2>6 DEF Sharing, OldSharing
  <2> QED BY <1>1, <2>7, <2>8, ChanTypes, Taken
<1>4. CASE p = Master /\ q \in Slaves
  <2>1. ~Ended
    <3>1. Has(chan[q][p], "change")
      BY <1>1, ChanTypes, Taken
    <3> QED BY <1>4, <3>1 DEF Sharing, OldSharing
  <2>2. ~MayImport(p, q)
    BY <1>4, <2>1 DEF Refuse, DropUnknown, Allowed, Ended
  <2>3. life[Master] = "waiting" => q \notin acked[Master]
    BY <1>1, <1>4, WhatComes
  <2> QED BY <1>4, <2>1, <2>2, <2>3, Stages DEF Handshake, MasterInv, MayImport
<1> QED BY <1>2, <1>3, <1>4, Stages

(* A leader that has not started yet has not led a session.                 *)
LEMMA NotYetRestarted ==
  ASSUME TypeOK, Handshake, NEW p \in Peers, NEW q \in Peers,
         BecomeMaster(p, q) \/ HandleReconnectRequest(p, q)
  PROVE  p = NewMaster /\ p \in Slaves /\ ~Restarted
<1>1. state[p] = "SENT_TAKEOVER_ACK"
  BY DEF BecomeMaster, FlushedAllowed, HandleReconnectRequest, ReconnectAllowed
<1>2. CASE BecomeMaster(p, q)
  <2>1. chan[q][p] # <<>> /\ Head(chan[q][p]).type = "flushed" /\ promoted[p]
    BY <1>2 DEF BecomeMaster, HeadIs
  <2>2. p \in Slaves /\ Answers(p)
    BY <2>1, WhatComes, Stages
  <2> QED BY <1>1, <2>1, <2>2 DEF Answers, Named, Restarted
<1>3. CASE HandleReconnectRequest(p, q)
  <2>1. chan[q][p] # <<>> /\ Head(chan[q][p]).type = "reconnectRequest"
    BY <1>3 DEF HandleReconnectRequest, HeadIs
  <2>2. Begun /\ p = NewMaster
    BY <2>1, WhatComes
  <2> QED BY <1>1, <2>2, Stages DEF Restarted
<1> QED BY <1>2, <1>3

Other == \A p, q \in Peers : ~Edit(p) /\ ~ImportChange(p, q)

(* All other steps leave the documents and the changes under way alone.     *)
LEMMA OtherSteps ==
  ASSUME TypeOK, Handshake, Handshake', Sharing, [Next]_vars, Other
  PROVE  doc' = doc /\ (\A p \in Peers : outgoing'[p] = <<>>) /\ KeepsAll(chan, chan')
<1> DEFINE Goal == doc' = doc /\ (\A p \in Peers : outgoing'[p] = <<>>) /\ KeepsAll(chan, chan')
<1>1. chan \in Chans /\ KeepsAll(chan, chan) /\ \A p \in Peers : outgoing[p] = <<>>
  BY ChanTypes, KeepsItself DEF KeepsAll, Sharing
<1>2. ASSUME NEW p \in Peers, InitiateSessionTakeover(p) PROVE Goal
  <2>1. PICK n \in collaborators[p] :
          chan' = SendAll(SendAll(chan, p, {n}, RequestPacket(TRUE, collaborators[p] \ {n})),
                          p, collaborators[p] \ {n}, RequestPacket(FALSE, {n}))
    BY <1>2 DEF InitiateSessionTakeover
  <2> DEFINE x == RequestPacket(TRUE, collaborators[p] \ {n})
             y == RequestPacket(FALSE, {n})
             c == SendAll(chan, p, {n}, x)
  <2>2. /\ x \in Packets /\ x.type = "takeoverRequest"
        /\ y \in Packets /\ y.type = "takeoverRequest"
    <3>1. collaborators[p] \subseteq Peers /\ n \in Peers
      BY DEF TypeOK
    <3> QED BY <3>1, SomePackets DEF RequestPacket
  <2>3. chan' = SendAll(c, p, collaborators[p] \ {n}, y)
    BY <2>1
  <2> HIDE DEF x, y
  <2>4. c \in Chans /\ KeepsAll(chan, c)
    BY <1>1, <2>2, KeepsSentAll
  <2> HIDE DEF c
  <2>5. KeepsAll(c, chan')
    BY <2>2, <2>3, <2>4, KeepsSentAll
  <2>6. doc' = doc /\ \A a \in Peers : outgoing'[a] = outgoing[a] \/ outgoing'[a] = <<>>
    BY <1>2 DEF InitiateSessionTakeover, TypeOK
  <2> QED BY <1>1, <2>4, <2>5, <2>6, KeepsAllTogether
<1>3. ASSUME NEW p \in Peers, DeleteSession(p) PROVE Goal
  <2>1. /\ chan' = SendAll(chan, p, Peers \ {p}, Packet("left"))
        /\ doc' = doc /\ outgoing' = outgoing
    BY <1>3 DEF DeleteSession
  <2>2. Packet("left") \in Packets /\ Packet("left").type = "left"
    BY SomePackets DEF Packet
  <2> QED BY <1>1, <2>1, <2>2, KeepsSentAll
<1>4. ASSUME NEW p \in Peers, NEW q \in Peers, Deliver(p, q) PROVE Goal
  <2> DEFINE r == Received(p, q)
             h == Head(chan[q][p])
  <2>0. ~ImportChange(p, q)
    BY DEF Other
  <2>1. chan[q][p] # <<>> /\ h.type # "change"
    <3>1. CASE Refuse(p, q) \/ DropUnknown(p, q)
      BY <3>1, NoChangeWasted
    <3>2. CASE ~Refuse(p, q) /\ ~DropUnknown(p, q)
      BY <1>4, <2>0, <3>2 DEF Deliver, HandleRequest, HandleAck, BecomeMaster, SwitchMaster,
         HandleReconnectRequest, RestartAsSlave, RemoveBuddy, HeadIs
    <3> QED BY <3>1, <3>2
  <2>2. r \in Chans /\ KeepsAll(chan, r)
    BY <2>1, KeepsReceived
  <2>3. doc' = doc
    BY <1>4, <2>0 DEF Deliver, HandleRequest, HandleAck, BecomeMaster, SwitchMaster,
       HandleReconnectRequest, RestartAsSlave, Refuse, DropUnknown, RemoveBuddy
  <2>4. ASSUME NEW type, Packet(type) \in Packets, type \notin {"change", "reconnectAck"}, NEW targets
        PROVE  KeepsAll(chan, SendAll(r, p, targets, Packet(type)))
    <3>1. Packet(type).type \notin {"change", "reconnectAck"}
      BY <2>4 DEF Packet
    <3> HIDE DEF r
    <3>2. KeepsAll(r, SendAll(r, p, targets, Packet(type)))
      BY <2>2, <2>4, <3>1, KeepsSentAll
    <3> QED BY <2>2, <3>2, KeepsAllTogether
  <2>5. CASE HandleRequest(p, q)
    <3>1. chan' = SendAll(r, p, {q}, Packet("takeoverAck")) /\ outgoing' = outgoing
      BY <2>5 DEF HandleRequest, Ack
    <3> QED BY <1>1, <2>3, <2>4, <3>1, SomePackets
  <2>6. CASE HandleAck(p, q)
    <3>1. /\ chan' = r \/ chan' = SendAll(r, p, collaborators[p], Packet("flushed"))
          /\ outgoing' = outgoing
      BY <2>6 DEF HandleAck
    <3> QED BY <1>1, <2>2, <2>3, <2>4, <3>1, SomePackets
  <2>7. CASE SwitchMaster(p, q)
    <3>1. chan' = SendAll(r, p, {proposed[p]}, Packet("reconnectRequest")) /\ outgoing' = outgoing
      BY <2>7 DEF SwitchMaster
    <3> QED BY <1>1, <2>3, <2>4, <3>1, SomePackets
  <2>8. ASSUME ~Restarted, NEW cs, NEW told, NEW missing, CheckRestartAsMaster(p, q, cs, told, missing)
        PROVE  KeepsAll(chan, chan') /\ \A a \in Peers : outgoing'[a] = <<>>
    <3>1. <<Packet("reconnectAck")>> \o outgoing[p] = <<Packet("reconnectAck")>>
      <4>1. <<Packet("reconnectAck")>> \in Seq(Packets)
        BY SomePackets
      <4> QED BY <1>1, <4>1, ConcatEmptySeq
    <3>2. \/ chan' = r /\ outgoing' = outgoing
          \/ chan' = SendEach(r, p, cs, <<Packet("reconnectAck")>>) /\ outgoing' = [outgoing EXCEPT ![p] = <<>>]
      BY <2>8, <3>1 DEF CheckRestartAsMaster
    <3> HIDE DEF r
    <3>3. KeepsAll(r, chan') \/ chan' = r
      BY <2>2, <2>8, <3>2, KeepsGreeted
    <3>4. \A a \in Peers : outgoing'[a] = outgoing[a] \/ outgoing'[a] = <<>>
      BY <3>2 DEF TypeOK
    <3> QED BY <1>1, <2>2, <3>3, <3>4, KeepsAllTogether
  <2>9. CASE BecomeMaster(p, q)
    <3>1. CheckRestartAsMaster(p, q, collaborators'[p], TRUE, approved[p])
      BY <2>9 DEF BecomeMaster
    <3>2. ~Restarted
      BY <2>9, NotYetRestarted
    <3> QED BY <2>3, <2>8, <3>1, <3>2
  <2>10. CASE HandleReconnectRequest(p, q)
    <3>1. CheckRestartAsMaster(p, q, collaborators'[p], flushed[p], approved'[p])
      BY <2>10 DEF HandleReconnectRequest
    <3>2. ~Restarted
      BY <2>10, NotYetRestarted
    <3> QED BY <2>3, <2>8, <3>1, <3>2
  <2>11. CASE RestartAsSlave(p, q)
    <3>1. /\ chan' = SendEach(r, p, collaborators[p], <<>>)
          /\ outgoing' = [outgoing EXCEPT ![p] = <<>>]
      BY <1>1, <2>11 DEF RestartAsSlave
    <3> HIDE DEF r
    <3>2. KeepsAll(r, chan')
      BY <2>2, <3>1, KeepsSilent
    <3>3. \A a \in Peers : outgoing'[a] = outgoing[a] \/ outgoing'[a] = <<>>
      BY <3>1 DEF TypeOK
    <3> QED BY <1>1, <2>2, <2>3, <3>2, <3>3, KeepsAllTogether
  <2>12. CASE Refuse(p, q) \/ DropUnknown(p, q) \/ RemoveBuddy(p, q)
    <3>1. chan' = r /\ outgoing' = outgoing
      BY <2>12 DEF Refuse, DropUnknown, RemoveBuddy
    <3> QED BY <1>1, <2>2, <2>3, <3>1
  <2> QED BY <1>4, <2>0, <2>5, <2>6, <2>7, <2>9, <2>10, <2>11, <2>12 DEF Deliver
<1>5. CASE UNCHANGED vars
  BY <1>1, <1>5 DEF vars
<1>6. \A p \in Peers : ~Edit(p)
  BY DEF Other
<1> QED BY <1>2, <1>3, <1>4, <1>5, <1>6 DEF Next

(* Nobody turns back: a slave that has been told that the session is        *)
(* flushed remembers it, and one that is in the new session stays there.    *)
LEMMA NoWayBack ==
  ASSUME TypeOK, Handshake, Handshake', [Next]_vars
  PROVE  /\ Begun => NewMaster' = NewMaster /\ Begun'
         /\ \A s \in Slaves : (flushed[s] => flushed'[s]) /\ (Back(s) => Back(s)')
<1>1. /\ Master \in Peers /\ Slaves \subseteq Peers /\ Master \notin Slaves
      /\ \A s \in Slaves : life[s] = "in" /\ life'[s] = "in"
  BY Stages DEF Handshake, Way
<1> DEFINE Goal == /\ Begun => NewMaster' = NewMaster
                   /\ \A s \in Slaves : (flushed[s] => flushed'[s]) /\ (Ended /\ state[s] = "NONE" => state'[s] = "NONE")
<1>2. ASSUME NEW p \in Peers, InitiateSessionTakeover(p) PROVE Goal
  <2>1. p = Master /\ ~Begun
    <3>1. life[p] = "in" /\ life'[p] = "waiting"
      BY <1>2 DEF InitiateSessionTakeover, TypeOK
    <3> QED BY <1>1, <3>1, Stages DEF Begun
  <2>2. Begun <=> ~(life[Master] = "in")
    BY DEF Begun
  <2> QED BY <1>1, <1>2, <2>1, Stages DEF InitiateSessionTakeover, TypeOK
<1>3. ASSUME NEW p \in Peers, Edit(p) \/ DeleteSession(p) PROVE Goal
  BY <1>3 DEF Edit, DeleteSession, protocol, NewMaster
<1>4. ASSUME NEW p \in Peers, NEW q \in Peers, HandleRequest(p, q) PROVE Goal
  <2>1. chan[q][p] # <<>> /\ Head(chan[q][p]).type = "takeoverRequest"
    BY <1>4 DEF HandleRequest, HeadIs
  <2>2. Stays(p) /\ p \in Slaves
    BY <2>1, WhatComes, Stages
  <2>3. ~Ended
    BY <2>2, Stages DEF Handshake, Way
  <2>4. /\ flushed' = flushed
        /\ \A x \in Peers : x # p => proposed'[x] = proposed[x]
    BY <1>4 DEF HandleRequest, TypeOK
  <2> QED BY <1>1, <2>2, <2>3, <2>4 DEF NewMaster
<1>5. ASSUME NEW p \in Peers, NEW q \in Peers, Deliver(p, q), ~HandleRequest(p, q) PROVE Goal
  <2>1. proposed' = proposed /\ (flushed' = flushed \/ flushed' = [flushed EXCEPT ![p] = TRUE])
    BY <1>5 DEF Deliver, ImportChange, HandleAck, BecomeMaster, SwitchMaster,
       HandleReconnectRequest, RestartAsSlave, Refuse, DropUnknown, RemoveBuddy, protocol
  <2>2. \/ state' = state \/ state' = [state EXCEPT ![p] = "NONE"]
        \/ state[p] # "NONE" /\ \E x : state' = [state EXCEPT ![p] = x]
    BY <1>5 DEF Deliver, ImportChange, HandleAck, BecomeMaster, SwitchMaster, FlushedAllowed, CheckRestartAsMaster,
       HandleReconnectRequest, RestartAsSlave, Refuse, DropUnknown, RemoveBuddy, protocol
  <2>3. \A s \in Slaves : flushed[s] => flushed'[s]
    BY <1>1, <2>1 DEF TypeOK
  <2>4. \A s \in Slaves : state[s] = "NONE" => state'[s] = "NONE"
    BY <1>1, <2>2 DEF TypeOK
  <2> QED BY <2>1, <2>3, <2>4 DEF NewMaster
<1>6. ASSUME UNCHANGED vars PROVE Goal
  <2>1. UNCHANGED <<proposed, state, flushed>>
    BY <1>6 DEF vars
  <2> QED BY <2>1 DEF NewMaster
<1> HIDE DEF Goal
<1>7. Goal
  BY <1>2, <1>3, <1>4, <1>5, <1>6 DEF Next
<1> USE DEF Goal
<1>8. Ended => Ended'
  BY FlushedOnce
<1>9. Begun => Begun'
  BY <1>1, NobodyReturns DEF Begun
<1> QED BY <1>7, <1>8, <1>9 DEF Back

(* The old master is a collaborator of every slave until it has ended, and  *)
(* of none that has turned away from it.                                    *)
LEMMA MembersMove ==
  ASSUME TypeOK, Handshake, Handshake', [Next]_vars, Other, NEW s \in Slaves
  PROVE  /\ ~Ended /\ Master \in collaborators[s] => Master \in collaborators'[s]
         /\ Ended /\ Master \notin collaborators[s] => Master \notin collaborators'[s]
         /\ Ended /\ Answers(s) /\ ~Answers(s)' => Master \notin collaborators'[s]
<1>1. /\ Master \in Peers /\ s \in Peers /\ Master # s /\ Master \notin Slaves
      /\ Followers \subseteq Slaves
  BY Stages
<1> DEFINE Moves == /\ ~Ended /\ Master \in collaborators[s] => Master \in collaborators'[s]
                    /\ Ended /\ Master \notin collaborators[s] => Master \notin collaborators'[s]
                    /\ Ended /\ flushed'[s] # flushed[s] => Master \notin collaborators'[s]
<1>2. ASSUME NEW p \in Peers, InitiateSessionTakeover(p) PROVE Moves
  <2>1. collaborators' = collaborators /\ life[p] = "in"
    BY <1>2 DEF InitiateSessionTakeover
  <2>2. CASE p = Master
    BY <2>1, <2>2 DEF Ended
  <2>3. CASE p # Master
    <3>1. life'[p] = "waiting" /\ p \in Slaves
      BY <1>2, <2>3, Stages DEF InitiateSessionTakeover, TypeOK
    <3> QED BY <3>1 DEF Handshake, Way
  <2> QED BY <2>2, <2>3
<1>3. ASSUME UNCHANGED <<collaborators, flushed>> PROVE Moves
  BY <1>3
<1>4. ASSUME NEW p \in Peers, NEW q \in Peers, BecomeMaster(p, q) \/ SwitchMaster(p, q) PROVE Moves
  <2>1. chan[q][p] # <<>> /\ Head(chan[q][p]).type = "flushed"
    BY <1>4 DEF BecomeMaster, SwitchMaster, HeadIs
  <2>2. Ended /\ q = Master /\ p \in Slaves /\ Answers(p) /\ Begun
    BY <2>1, WhatComes, Stages
  <2>3. SwitchMaster(p, q) => proposed[p] = NewMaster /\ NewMaster \in Slaves
    BY <2>2, Stages DEF SwitchMaster, Answers, Named
  <2>4. \E cs : /\ Master \notin cs
                /\ collaborators' = [collaborators EXCEPT ![p] = cs] /\ flushed' = [flushed EXCEPT ![p] = TRUE]
    <3>1. BecomeMaster(p, q) => collaborators' = [collaborators EXCEPT ![p] = collaborators[p] \ {Master}]
      BY <2>2 DEF BecomeMaster
    <3>2. SwitchMaster(p, q) => collaborators' = [collaborators EXCEPT ![p] = {NewMaster}]
      BY <2>3 DEF SwitchMaster
    <3>3. flushed' = [flushed EXCEPT ![p] = TRUE]
      BY <1>4 DEF BecomeMaster, SwitchMaster
    <3>4. SwitchMaster(p, q) => Master \notin {NewMaster}
      BY <1>1, <2>3
    <3> QED BY <1>4, <3>1, <3>2, <3>3, <3>4
  <2> QED BY <1>1, <2>2, <2>4 DEF TypeOK
<1>5. ASSUME NEW p \in Peers, NEW q \in Peers, HandleReconnectRequest(p, q) PROVE Moves
  <2>1. chan[q][p] # <<>> /\ Head(chan[q][p]).type = "reconnectRequest"
    BY <1>5 DEF HandleReconnectRequest, HeadIs
  <2>2. q \in Followers
    BY <2>1, WhatComes
  <2>3. collaborators' = [collaborators EXCEPT ![p] = @ \cup {q}] /\ flushed' = flushed
    BY <1>5 DEF HandleReconnectRequest
  <2> QED BY <1>1, <2>2, <2>3 DEF TypeOK
<1>6. ASSUME NEW p \in Peers, NEW q \in Peers, RemoveBuddy(p, q) PROVE Moves
  <2>1. chan[q][p] # <<>> /\ Head(chan[q][p]).type = "left"
    BY <1>6 DEF RemoveBuddy, HeadIs
  <2>2. Ended
    BY <2>1, WhatComes DEF Ended
  <2>3. (collaborators' = collaborators \/ collaborators' = [collaborators EXCEPT ![p] = @ \ {q}]) /\ flushed' = flushed
    BY <1>6 DEF RemoveBuddy
  <2>4. collaborators'[s] \subseteq collaborators[s]
    <3>1. collaborators \in [Peers -> SUBSET Peers]
      BY DEF TypeOK
    <3>2. ASSUME collaborators' = [collaborators EXCEPT ![p] = @ \ {q}] PROVE collaborators'[s] \subseteq collaborators[s]
      BY <1>1, <3>1, <3>2
    <3> QED BY <2>3, <3>2
  <2> QED BY <2>2, <2>3, <2>4
<1>7. ASSUME NEW p \in Peers, NEW q \in Peers, Deliver(p, q) PROVE Moves
  <2>1. HandleRequest(p, q) \/ HandleAck(p, q) \/ RestartAsSlave(p, q) \/ Refuse(p, q) \/ DropUnknown(p, q)
          => UNCHANGED <<collaborators, flushed>>
    BY DEF HandleRequest, HandleAck, RestartAsSlave, Refuse, DropUnknown, protocol
  <2>2. ~ImportChange(p, q)
    BY DEF Other
  <2> HIDE DEF Moves
  <2> QED BY <1>3, <1>4, <1>5, <1>6, <1>7, <2>1, <2>2 DEF Deliver
<1>8. ASSUME NEW p \in Peers, DeleteSession(p) PROVE Moves
  BY <1>8 DEF DeleteSession
<1>9. UNCHANGED vars => UNCHANGED <<collaborators, flushed>>
  BY DEF vars
<1>10. \A p \in Peers : ~Edit(p)
  BY DEF Other
<1>11. Moves
  <2> HIDE DEF Moves
  <2> QED BY <1>2, <1>3, <1>7, <1>8, <1>9, <1>10 DEF Next
<1>12. ASSUME Ended, Answers(s), ~Answers(s)' PROVE flushed'[s] # flushed[s]
  <2>1. Ended'
    BY <1>12, FlushedOnce
  <2>2. Leads(s)' \/ Follows(s)'
    BY <1>12, <2>1 DEF Handshake, Way
  <2> QED BY <1>12, <2>2 DEF Answers, Leads, Follows
<1> QED BY <1>11, <1>12

(* When the old session ends, its master has every change made in it: the   *)
(* slaves have acknowledged, and sent nothing after that.                   *)
LEMMA AllSaid ==
  ASSUME TypeOK, Handshake, [Next]_vars, ~Ended, Ended'
  PROVE  \A s \in Slaves : ~Has(chan[s][Master], "change")
<1>1. Master \in Peers /\ Master \notin Slaves /\ None \notin Peers
  BY Stages
<1>2. life \in [Peers -> {"in", "waiting", "released", "gone"}] /\ controller[Master] = None
      /\ collaborators[Master] = Slaves
  BY DEF TypeOK, Handshake, MasterInv
<1>3. \E p, q \in Peers : HandleAck(p, q)
  <2> DEFINE Same == Ended' => Ended
  <2>1. ASSUME NEW p \in Peers, Edit(p) \/ InitiateSessionTakeover(p) \/ DeleteSession(p) PROVE Same
    BY <1>1, <1>2, <2>1 DEF Edit, InitiateSessionTakeover, DeleteSession, protocol, Ended
  <2>2. ASSUME NEW p \in Peers, NEW q \in Peers, Deliver(p, q), ~HandleAck(p, q) PROVE Same
    <3>1. life' = life \/ (controller[p] = q /\ life' = [life EXCEPT ![p] = "gone"])
      BY <2>2 DEF Deliver, ImportChange, HandleRequest, BecomeMaster, SwitchMaster,
         HandleReconnectRequest, RestartAsSlave, Refuse, DropUnknown, RemoveBuddy, protocol
    <3> QED BY <1>1, <1>2, <3>1 DEF Ended
  <2>3. ASSUME UNCHANGED vars PROVE Same
    BY <2>3 DEF vars, Ended
  <2>4. ~Same
    OBVIOUS
  <2> HIDE DEF Same
  <2> QED BY <2>1, <2>2, <2>3, <2>4 DEF Next
<1>4. PICK p \in Peers, q \in Peers : HandleAck(p, q)
  BY <1>3
<1>5. chan[q][p] # <<>> /\ Head(chan[q][p]).type = "takeoverAck"
  BY <1>4 DEF HandleAck, HeadIs
<1>6. p = Master /\ q \in Slaves /\ life[Master] = "waiting"
  BY <1>5, WhatComes
<1> DEFINE acks == acked[Master] \cup {q}
<1>7. AllAcked(Master, acks)
  <2>1. AllAcked(p, acked[p] \cup {q}) \/ life' = life
    BY <1>4 DEF HandleAck
  <2> QED BY <1>6, <2>1 DEF Ended
<1>8. acks = Slaves
  <2>1. acks \in SUBSET Slaves /\ acks # {}
    BY <1>6, Stages DEF Handshake, MasterInv
  <2> HIDE DEF acks
  <2> QED BY <1>2, <1>7, <2>1, AllSlavesAcked
<1>9. ASSUME NEW s \in Slaves PROVE ~Has(chan[s][Master], "change")
  <2>1. ToMaster(s)
    BY DEF Handshake
  <2>2. CASE s \in acked[Master]
    BY <1>6, <2>1, <2>2 DEF ToMaster
  <2>3. CASE s = q
    <3>1. NoneAfter(chan[q][p], "takeoverAck", "change")
      BY <1>6, <2>1, <2>3 DEF ToMaster
    <3>2. ~Has(Tail(chan[q][p]), "change")
      BY <1>5, <3>1, ChanTypes, Taken
    <3>3. ~Has(chan[q][p], "change")
      BY <1>5, <3>2, ChanTypes, Taken
    <3> QED BY <1>6, <2>3, <3>3
  <2> QED BY <1>8, <2>2, <2>3
<1> QED BY <1>9

(* When the old session ends everybody is still to be told.                 *)
LEMMA FlushedAnswers ==
  ASSUME TypeOK, Handshake, Handshake', Flushes, NEW s \in Slaves PROVE Answers(s)'
<1> DEFINE m == Packet("flushed")
<1>1. chan[Master][s] \in Seq(Packets)
  BY ChanTypes, Stages
<1>2. m.type = "flushed" /\ m \in Packets /\ chan'[Master][s] = Append(chan[Master][s], m)
  BY SomePackets DEF Packet, Flushes
<1> HIDE DEF m
<1>3. Once(chan[Master][s], "flushed", Ended /\ Answers(s)) /\ ~Ended
  BY DEF Handshake, FromMaster, Flushes
<1>4. Once(Append(chan[Master][s], m), "flushed", TRUE)
  BY <1>1, <1>2, <1>3, SentOnce
<1>5. Has(chan'[Master][s], "flushed")
  BY <1>2, <1>4 DEF Once
<1> QED BY <1>5 DEF Handshake, FromMaster, Once

(* A slave that is told turns away, and nothing is behind what it was told. *)
LEMMA TurnsAway ==
  ASSUME TypeOK, Handshake, Handshake', [Next]_vars, NEW s \in Slaves,
         Ended, Answers(s), ~Answers(s)', NoneAfter(chan[Master][s], "flushed", "change")
  PROVE  ~Has(chan'[Master][s], "change")
<1> DEFINE c == chan[Master][s]
           d == chan'[Master][s]
<1>1. c \in Seq(Packets)
  BY ChanTypes, Stages
<1>2. Has(c, "flushed") /\ ~Has(d, "flushed")
  <2>1. FromMaster(s) /\ FromMaster(s)'
    BY DEF Handshake
  <2> QED BY <2>1 DEF FromMaster, Once
<1>3. MasterQueue(s)
  BY NextMasterQueue
<1>4. \/ d = c
      \/ \E m \in Packets : d = Append(c, m)
      \/ c # <<>> /\ d = Tail(c)
  BY <1>3 DEF MasterQueue
<1> HIDE DEF c, d
<1>5. \A m \in Packets : Has(Append(c, m), "flushed")
  BY <1>1, <1>2, Sent
<1>6. c # <<>> /\ d = Tail(c)
  BY <1>2, <1>4, <1>5
<1>7. Head(c).type = "flushed"
  BY <1>1, <1>2, <1>6, Taken
<1>8. NoneAfter(c, "flushed", "change")
  BY DEF c
<1>9. ~Has(d, "change")
  BY <1>1, <1>6, <1>7, <1>8, Taken
<1> QED BY <1>9 DEF d

(* What the old session is about, in all these steps.                       *)
LEMMA OtherOldSharing ==
  ASSUME TypeOK, Handshake, Handshake', OwnChanges, Sharing, [Next]_vars, Other PROVE OldSharing'
<1>1. doc' = doc /\ KeepsAll(chan, chan')
  BY OtherSteps
<1>2. (old' = old /\ (Ended' => Ended)) \/ Flushes
  BY FlushedOnce
<1>3. Ended => Ended'
  BY FlushedOnce
<1> SUFFICES ASSUME NEW s \in Slaves
             PROVE  /\ ~Ended' => Shared(s, Master)' /\ Master \in collaborators'[s]
                    /\ Ended' =>
                         /\ ~Has(chan'[s][Master], "change")
                         /\ Known(chan'[Master][s], old')
                         /\ ~Answers(s)' => ~Has(chan'[Master][s], "change") /\ Master \notin collaborators'[s]
                         /\ ~Back(s)' => doc'[s] \subseteq old'
                    /\ NoneAfter(chan'[Master][s], "flushed", "change")
  BY DEF OldSharing
<1>4. s \in Peers /\ Master \in Peers
  BY Stages
<1>5. Keeps(chan[s][Master], chan'[s][Master]) /\ Keeps(chan[Master][s], chan'[Master][s])
  BY <1>1, <1>4 DEF KeepsAll
<1>6. /\ ~Ended => Shared(s, Master) /\ Master \in collaborators[s]
      /\ Ended =>
           /\ ~Has(chan[s][Master], "change")
           /\ Known(chan[Master][s], old)
           /\ ~Answers(s) => ~Has(chan[Master][s], "change") /\ Master \notin collaborators[s]
           /\ ~Back(s) => doc[s] \subseteq old
      /\ NoneAfter(chan[Master][s], "flushed", "change")
  BY DEF Sharing, OldSharing
<1>7. NoneAfter(chan'[Master][s], "flushed", "change")
  BY <1>5, <1>6 DEF Keeps
<1>8. /\ ~Ended /\ Master \in collaborators[s] => Master \in collaborators'[s]
      /\ Ended /\ Master \notin collaborators[s] => Master \notin collaborators'[s]
      /\ Ended /\ Answers(s) /\ ~Answers(s)' => Master \notin collaborators'[s]
  BY MembersMove
<1>9. ASSUME ~Ended' PROVE Shared(s, Master)' /\ Master \in collaborators'[s]
  BY <1>1, <1>3, <1>5, <1>6, <1>8, <1>9 DEF Shared, Keeps
<1> DEFINE Goal == /\ ~Has(chan'[s][Master], "change")
                   /\ Known(chan'[Master][s], old')
                   /\ ~Answers(s)' => ~Has(chan'[Master][s], "change") /\ Master \notin collaborators'[s]
                   /\ ~Back(s)' => doc'[s] \subseteq old'
<1>10. ASSUME Ended', ~Ended PROVE Goal
  <2>1. Flushes
    BY <1>2, <1>10
  <2>2. old' = doc[Master]
    BY <2>1 DEF Flushes
  <2>3. ~Has(chan[s][Master], "change")
    BY <1>10, AllSaid
  <2>4. ~Has(chan'[s][Master], "change")
    BY <1>5, <2>3 DEF Keeps
  <2>5. Known(chan[Master][s], doc[Master])
    BY <1>4 DEF OwnChanges
  <2>6. Known(chan'[Master][s], old')
    BY <1>5, <2>2, <2>5 DEF Keeps
  <2>7. Answers(s)'
    BY <2>1, FlushedAnswers
  <2>8. doc[s] \subseteq doc[Master]
    BY <1>6, <1>10, <2>3, NothingCarried DEF Shared
  <2> QED BY <1>1, <2>2, <2>4, <2>6, <2>7, <2>8
<1>11. ASSUME Ended PROVE Goal
  <2>1. old' = old
    BY <1>2, <1>11 DEF Flushes
  <2>2. ~Has(chan'[s][Master], "change") /\ Known(chan'[Master][s], old')
    BY <1>5, <1>6, <1>11, <2>1 DEF Keeps
  <2>3. ASSUME ~Answers(s)' PROVE ~Has(chan'[Master][s], "change") /\ Master \notin collaborators'[s]
    <3>1. CASE Answers(s)
      BY <1>6, <1>8, <1>11, <2>3, <3>1, TurnsAway
    <3>2. CASE ~Answers(s)
      BY <1>5, <1>6, <1>8, <1>11, <3>2 DEF Keeps
    <3> QED BY <3>1, <3>2
  <2>4. ~Back(s)' => ~Back(s)
    BY NoWayBack
  <2> QED BY <1>1, <1>6, <1>11, <2>1, <2>2, <2>3, <2>4
<1> HIDE DEF Goal
<1>12. Ended' => Goal
  BY <1>10, <1>11
<1> QED BY <1>7, <1>9, <1>12 DEF Goal

(* The new session has not ended when it has begun.                         *)
LEMMA StaysRestarted ==
  ASSUME TypeOK, Handshake, Handshake', [Next]_vars, Restarted
  PROVE  Restarted' /\ NewMaster' = NewMaster /\ Followers' = Followers /\ old' = old
<1>1. Begun /\ Ended /\ NewMaster \in Slaves
  BY Stages
<1>2. NewMaster' = NewMaster /\ Begun' /\ (flushed[NewMaster] => flushed'[NewMaster])
      /\ (Back(NewMaster) => Back(NewMaster)')
  BY <1>1, NoWayBack
<1>3. flushed'[NewMaster] /\ state'[NewMaster] = "NONE"
  BY <1>1, <1>2 DEF Restarted, Leads, Back
<1>4. Ended' /\ old' = old
  BY <1>1, FlushedOnce DEF Flushes
<1>5. Way(NewMaster)'
  BY <1>1, <1>2 DEF Handshake
<1>6. Leads(NewMaster)'
  BY <1>2, <1>3, <1>4, <1>5 DEF Way, Answers, Follows
<1> QED BY <1>2, <1>3, <1>4, <1>6 DEF Restarted, Followers

(* Before the new session begins, its peers have said nothing in it.        *)
LEMMA NothingSaid ==
  ASSUME TypeOK, Handshake, Sharing, ~Restarted, NEW n \in Slaves, Begun => n = NewMaster,
         NEW s \in Slaves, s # n
  PROVE  ~Has(chan[n][s], "change") /\ ~Has(chan[s][n], "change")
<1>1. CASE Begun
  <2>1. n = NewMaster /\ s \in Followers
    BY <1>1 DEF Followers
  <2>2. Has(chan[n][s], "change") => Restarted
    BY <1>1, <2>1 DEF Sharing, NewSharing
  <2>3. Has(chan[s][n], "change") => Restarted
    BY <1>1, <2>1 DEF Handshake, ToLeader
  <2> QED BY <2>2, <2>3
<1>2. CASE ~Begun
  <2>1. NewMaster = None /\ n \in Peers /\ s \in Peers /\ n # Master /\ s # Master /\ n # None /\ s # None
    BY <1>2, Stages DEF Handshake, MasterInv
  <2>2. Silent(n, s) /\ Silent(s, n)
    BY <2>1 DEF Silent
  <2>3. chan[n][s] = <<>> /\ chan[s][n] = <<>>
    BY <2>1, <2>2 DEF Handshake
  <2> QED BY <2>3, NothingQueued
<1> QED BY <1>1, <1>2

(* When the new session begins, the leader and the followers have the same  *)
(* changes: those of the old one.                                           *)
LEMMA AllStartAlike ==
  ASSUME TypeOK, TypeOK', Handshake, Handshake', Flushing', Sharing, [Next]_vars, Other,
         ~Restarted, Restarted'
  PROVE  /\ Begun /\ Ended /\ old' = old
         /\ \A s \in Slaves : doc'[s] = old
<1>1. /\ Slaves \subseteq Peers /\ Master \in Peers
      /\ \A s \in Slaves : Answers(s) => ~Leads(s) /\ ~Follows(s)
  BY Stages
<1>2. doc' = doc
  BY OtherSteps
<1>3. Begun' /\ Leads(NewMaster)' /\ NewMaster' \in Slaves
  BY DEF Restarted, Handshake, MasterInv
<1>4. flushed'[NewMaster'] /\ controller'[NewMaster'] = None
  BY <1>3 DEF Leads
<1>5. Ended'
  <2>1. life'[Master] \in {"in", "waiting", "released", "gone"} /\ life'[Master] # "in"
    BY <1>1, <1>3 DEF TypeOK, Begun
  <2>2. life'[Master] = "waiting" => ~flushed'[NewMaster']
    BY <1>3 DEF Handshake, Way, Answers, Stays
  <2> QED BY <1>4, <2>1, <2>2 DEF Ended
<1>6. \A s \in Slaves : ~Answers(s)'
  <2>1. ASSUME NEW s \in Slaves PROVE ~flushed'[s] => FALSE
    <3>1. CASE s = NewMaster'
      BY <1>4, <3>1
    <3>2. CASE s # NewMaster'
      <4>1. s \in Followers'
        BY <3>2 DEF Followers
      <4>2. approved'[NewMaster'] = {} /\ \A x \in Followers' \ approved'[NewMaster'] : Follows(x)'
        BY <1>3 DEF Handshake, LeaderInv
      <4>3. Follows(s)'
        BY <4>1, <4>2
      <4> QED BY <4>3 DEF Follows
    <3> QED BY <3>1, <3>2
  <2> QED BY <2>1 DEF Answers
<1>7. Ended
  <2>1. ASSUME Flushes PROVE FALSE
    BY <1>3, <1>6, <2>1, FlushedAnswers
  <2> QED BY <1>5, <2>1, FlushedOnce
<1>8. Begun /\ old' = old
  BY <1>7, Stages, FlushedOnce DEF Flushes
<1>9. ASSUME NEW s \in Slaves PROVE doc'[s] = old
  <2>1. ~Back(s)
    <3>1. state[s] = "NONE" => ~Answers(s)
      BY DEF Answers
    <3>2. Leads(s) /\ state[s] = "NONE" => Restarted
      BY <1>8 DEF Leads, Restarted
    <3> QED BY <1>7, <3>1, <3>2 DEF Back, Handshake, Way
  <2>2. doc[s] \subseteq old
    BY <1>7, <2>1 DEF Sharing, OldSharing
  <2>3. old' \subseteq doc'[s]
    BY <1>6 DEF Flushing
  <2> QED BY <1>2, <1>8, <2>2, <2>3
<1> QED BY <1>7, <1>8, <1>9

(* What the new session is about, in all these steps.                       *)
LEMMA OtherNewSharing ==
  ASSUME TypeOK, TypeOK', Handshake, Handshake', Flushing', Sharing, [Next]_vars, Other PROVE NewSharing'
<1>1. doc' = doc /\ KeepsAll(chan, chan')
  BY OtherSteps
<1> DEFINE n == NewMaster'
<1> SUFFICES ASSUME Begun', NEW s \in Followers'
             PROVE  /\ Restarted' => Shared(s, NewMaster)' /\ Shared(NewMaster, s)'
                    /\ Has(chan'[n][s], "change") => Restarted'
                    /\ NoneAfter(chan'[n][s], "change", "reconnectAck")
                    /\ Aware(chan'[n][s], old') /\ Aware(chan'[s][n], old')
  BY DEF NewSharing
<1>2. n \in Slaves /\ s \in Slaves /\ s # n /\ Slaves \subseteq Peers
  BY Stages DEF Handshake, MasterInv, Followers
<1>3. Keeps(chan[n][s], chan'[n][s]) /\ Keeps(chan[s][n], chan'[s][n])
  BY <1>1, <1>2 DEF KeepsAll
<1>4. CASE Restarted
  <2>1. Restarted' /\ n = NewMaster /\ Followers' = Followers /\ old' = old /\ Begun
    BY <1>4, StaysRestarted, Stages
  <2>2. /\ Shared(s, n) /\ Shared(n, s)
        /\ NoneAfter(chan[n][s], "change", "reconnectAck")
        /\ Aware(chan[n][s], old) /\ Aware(chan[s][n], old)
    BY <1>4, <2>1 DEF Sharing, NewSharing
  <2>3. Shared(s, NewMaster)' /\ Shared(NewMaster, s)'
    BY <1>1, <1>3, <2>1, <2>2 DEF Shared, Keeps
  <2> HIDE DEF n
  <2> QED BY <1>3, <1>4, <2>1, <2>2, <2>3 DEF Keeps
<1>5. CASE ~Restarted
  <2>1. Begun => n = NewMaster
    BY NoWayBack
  <2> HIDE DEF n
  <2>2. ~Has(chan[n][s], "change") /\ ~Has(chan[s][n], "change")
    BY <1>2, <1>5, <2>1, NothingSaid
  <2>3. ~Has(chan'[n][s], "change") /\ ~Has(chan'[s][n], "change")
    BY <1>3, <2>2 DEF Keeps
  <2>4. /\ NoneAfter(chan'[n][s], "change", "reconnectAck")
        /\ Aware(chan'[n][s], old') /\ Aware(chan'[s][n], old')
    BY <2>3, NothingCarried
  <2>5. ASSUME Restarted' PROVE Shared(s, NewMaster)' /\ Shared(NewMaster, s)'
    <3>1. doc'[s] = old /\ doc'[NewMaster'] = old
      BY <1>2, <1>5, <2>5, AllStartAlike DEF n
    <3> QED BY <3>1 DEF Shared
  <2> QED BY <2>3, <2>4, <2>5
<1> QED BY <1>4, <1>5

(* The stack of a slave is emptied when it comes back into a session.       *)
LEMMA StackMoves ==
  ASSUME TypeOK, Handshake, [Next]_vars, Other, NEW p \in Peers, stack'[p] # stack[p]
  PROVE  p \in Slaves /\ Ended /\ state[p] # "NONE" /\ state'[p] = "NONE"
<1> DEFINE Goal == p \in Slaves /\ Ended /\ state[p] # "NONE" /\ state'[p] = "NONE"
<1>1. ASSUME NEW a \in Peers, NEW b \in Peers, HandleReconnectRequest(a, b) PROVE Goal
  <2>1. chan[b][a] # <<>> /\ Head(chan[b][a]).type = "reconnectRequest" /\ state[a] = "SENT_TAKEOVER_ACK"
    BY <1>1 DEF HandleReconnectRequest, HeadIs, ReconnectAllowed
  <2>2. a \in Slaves /\ b \in Slaves /\ Follows(b)
    BY <2>1, WhatComes, Stages
  <2>3. stack' = stack \/ (stack' = [stack EXCEPT ![a] = {}] /\ state' = [state EXCEPT ![a] = "NONE"])
    BY <1>1 DEF HandleReconnectRequest, CheckRestartAsMaster
  <2>4. p = a /\ state'[p] = "NONE"
    BY <2>3 DEF TypeOK
  <2> QED BY <2>1, <2>2, <2>4, Stages
<1>2. ASSUME NEW a \in Peers, NEW b \in Peers, BecomeMaster(a, b) PROVE Goal
  <2>1. chan[b][a] # <<>> /\ Head(chan[b][a]).type = "flushed" /\ state[a] = "SENT_TAKEOVER_ACK"
    BY <1>2 DEF BecomeMaster, HeadIs, FlushedAllowed
  <2>2. a \in Slaves /\ Ended
    BY <2>1, WhatComes, Stages
  <2>3. stack' = stack \/ (stack' = [stack EXCEPT ![a] = {}] /\ state' = [state EXCEPT ![a] = "NONE"])
    BY <1>2 DEF BecomeMaster, CheckRestartAsMaster
  <2>4. p = a /\ state'[p] = "NONE"
    BY <2>3 DEF TypeOK
  <2> QED BY <2>1, <2>2, <2>4
<1>3. ASSUME NEW a \in Peers, NEW b \in Peers, RestartAsSlave(a, b) PROVE Goal
  <2>1. chan[b][a] # <<>> /\ Head(chan[b][a]).type = "reconnectAck" /\ state[a] = "SENT_SESSION_RECONNECT_REQUEST"
    BY <1>3 DEF RestartAsSlave, HeadIs, RestartAllowed
  <2>2. a \in Slaves /\ Ended
    BY <2>1, WhatComes, Stages
  <2>3. stack' = [stack EXCEPT ![a] = {}] /\ state' = [state EXCEPT ![a] = "NONE"]
    BY <1>3 DEF RestartAsSlave
  <2>4. p = a /\ state'[p] = "NONE"
    BY <2>3 DEF TypeOK
  <2> QED BY <2>1, <2>2, <2>4
<1>4. ASSUME NEW a \in Peers, NEW b \in Peers, Deliver(a, b) PROVE Goal
  <2>1. ~ImportChange(a, b)
    BY DEF Other
  <2>2. HandleReconnectRequest(a, b) \/ BecomeMaster(a, b) \/ RestartAsSlave(a, b)
    BY <1>4, <2>1 DEF Deliver, HandleRequest, HandleAck, SwitchMaster, Refuse, DropUnknown, RemoveBuddy
  <2> QED BY <1>1, <1>2, <1>3, <2>2
<1>5. \A a \in Peers : ~Edit(a) /\ ~InitiateSessionTakeover(a) /\ ~DeleteSession(a)
  BY DEF Other, InitiateSessionTakeover, DeleteSession
<1>6. ~UNCHANGED vars
  BY DEF vars
<1> HIDE DEF Goal
<1>7. Goal
  BY <1>4, <1>5, <1>6 DEF Next
<1> QED BY <1>7 DEF Goal

(* What is on the stacks, in all these steps.                               *)
LEMMA OtherStacks ==
  ASSUME TypeOK, TypeOK', Handshake, Handshake', Sharing, [Next]_vars, Other PROVE Stacks'
<1> SUFFICES ASSUME NEW p \in Peers PROVE doc'[p] \subseteq stack'[p] \cup (IF Back(p)' THEN old' ELSE {})
  BY DEF Stacks
<1>1. doc' = doc /\ doc[p] \subseteq stack[p] \cup (IF Back(p) THEN old ELSE {})
  BY OtherSteps DEF Sharing, Stacks
<1>2. Ended => old' = old
  BY FlushedOnce DEF Flushes
<1>3. CASE stack'[p] = stack[p]
  <2>1. Back(p) => Back(p)' /\ old' = old
    BY <1>2, NoWayBack DEF Back
  <2> QED BY <1>1, <1>3, <2>1
<1>4. CASE stack'[p] # stack[p]
  <2>1. p \in Slaves /\ Ended /\ state[p] # "NONE" /\ state'[p] = "NONE"
    BY <1>4, StackMoves
  <2>2. doc[p] \subseteq old
    BY <2>1 DEF Sharing, OldSharing, Back
  <2>3. Back(p)'
    BY <2>1, FlushedOnce DEF Back
  <2> QED BY <1>1, <1>2, <2>1, <2>2, <2>3
<1> QED BY <1>3, <1>4
----------------------------------------------------------------------------
(* Edits and imports. *)

(* A change sent comes after nothing that it must not come after.           *)
LEMMA ChangeSent ==
  ASSUME NEW c \in Seq(Packets), NEW m \in Packets, m.type = "change"
  PROVE  /\ NoneAfter(c, "change", "reconnectAck") => NoneAfter(Append(c, m), "change", "reconnectAck")
         /\ NoneAfter(c, "flushed", "change") /\ ~Has(c, "flushed") =>
              NoneAfter(Append(c, m), "flushed", "change")
BY Sent

(* Edits and imports leave all stages alone.                                *)
LEMMA StagesKept ==
  ASSUME UNCHANGED protocol
  PROVE  /\ NewMaster' = NewMaster /\ Followers' = Followers
         /\ (Begun' <=> Begun) /\ (Ended' <=> Ended) /\ (Restarted' <=> Restarted)
         /\ \A s : (Answers(s)' <=> Answers(s)) /\ (Back(s)' <=> Back(s))
<1>1. UNCHANGED <<life, state, controller, proposed, promoted, approved, acked, flushed>>
  BY DEF protocol
<1> QED BY <1>1 DEF NewMaster, Followers, Begun, Ended, Restarted, Leads, Answers, Back, Named

(* The new session has everybody in it once it has begun.                   *)
LEMMA AllFollow ==
  ASSUME TypeOK, Handshake, Restarted
  PROVE  /\ \A s \in Followers : Follows(s) /\ NewMaster \in collaborators[s]
         /\ collaborators[NewMaster] \ {Master} = Followers
         /\ controller[NewMaster] = None /\ Back(NewMaster)
<1>1. Begun /\ Ended /\ Leads(NewMaster) /\ state[NewMaster] = "NONE" /\ NewMaster \in Slaves
  BY Stages DEF Restarted
<1>2. approved[NewMaster] = {}
  BY <1>1 DEF Handshake, LeaderInv
<1>3. /\ \A s \in Followers : Follows(s)
      /\ collaborators[NewMaster] \ {Master} = Followers
  BY <1>1, <1>2 DEF Handshake, LeaderInv
<1>4. \A s \in Followers : NewMaster \in collaborators[s]
  BY <1>3, Stages DEF Handshake, Member
<1> QED BY <1>1, <1>3, <1>4 DEF Leads, Back

(* Whoever sends a change, when nobody edits between two sessions, has all  *)
(* of the old session; the old master is still there, or the sender is back *)
(* in the new session.                                                      *)
LEMMA EditsInSession ==
  ASSUME TypeOK, Handshake, Flushing, Sharing, NEW p \in Peers, Edit(p), ~rash'
  PROVE  /\ ~rash /\ ~HoldsOn(p) /\ old \subseteq doc[p]
         /\ p = Master => ~Ended
         /\ Ended => p \in Slaves /\ Back(p) /\ Restarted /\ Master \notin collaborators[p]
<1>1. /\ Master \in Peers /\ Peers = Slaves \cup {Master} /\ Master \notin Slaves
      /\ Ended => Begun
  BY Stages
<1>2. /\ ~rash /\ life[p] \notin {"gone", "released"} /\ state[p] \in {"NONE", "SENT_TAKEOVER_REQUEST"}
  BY DEF Edit
<1>3. CASE p = Master
  BY <1>2, <1>3 DEF Handshake, MasterInv, HoldsOn, isLocallyControlled, Ended, Flushing
<1>4. CASE p \in Slaves
  <2>1. Way(p)
    BY <1>4 DEF Handshake
  <2>2. state[p] = "NONE" /\ ~Answers(p)
    <3>1. Begun => life[Master] = "waiting" \/ Ended
      BY Stages
    <3>2. Stays(p) \/ Answers(p) \/ Leads(p) \/ Follows(p)
      BY <2>1, <3>1 DEF Way
    <3> QED BY <1>2, <3>2 DEF Stays, Answers, Leads, Follows
  <2>3. old \subseteq doc[p]
    BY <1>4, <2>2 DEF Flushing
  <2>4. ASSUME Ended PROVE Back(p) /\ Restarted /\ Master \notin collaborators[p]
    <3>1. Leads(p) \/ Follows(p)
      BY <2>1, <2>2, <2>4 DEF Way
    <3>2. Restarted
      BY <1>1, <2>1, <2>2, <2>4, <3>1 DEF Way, Leads, Restarted
    <3>3. Master \notin collaborators[p]
      BY <1>4, <2>2, <2>4 DEF Sharing, OldSharing
    <3> QED BY <1>4, <2>2, <2>4, <3>2, <3>3 DEF Back
  <2> QED BY <1>1, <1>2, <1>4, <2>2, <2>3, <2>4 DEF HoldsOn
<1> QED BY <1>1, <1>3, <1>4

LEMMA EditSharing ==
  ASSUME TypeOK, Handshake, Flushing, Sharing, NEW p \in Peers, Edit(p), ~rash' PROVE Sharing'
<1> DEFINE id == <<p, Cardinality({x \in doc[p] : x[1] = p}) + 1>>
           m  == ChangePacket(id, doc[p])
<1>1. /\ ~rash /\ ~HoldsOn(p) /\ old \subseteq doc[p]
      /\ p = Master => ~Ended
      /\ Ended => p \in Slaves /\ Back(p) /\ Restarted /\ Master \notin collaborators[p]
  BY EditsInSession
<1>2. m \in Packets /\ m.type = "change" /\ m.seen = doc[p] /\ m.id = id
  <2>1. id \in Changes
    BY NextChange DEF Edit
  <2> HIDE DEF id
  <2> QED BY <2>1, SomePackets DEF ChangePacket, ChangePackets, TypeOK
<1>3. /\ doc'   = [doc EXCEPT ![p] = @ \cup {id}]
      /\ stack' = [stack EXCEPT ![p] = @ \cup {id}]
      /\ chan'  = SendAll(chan, p, collaborators[p], m) /\ outgoing' = outgoing
      /\ UNCHANGED protocol /\ collaborators' = collaborators /\ old' = old
  BY <1>1 DEF Edit
<1> HIDE DEF m, id
<1>4. \A a, b \in Peers : chan'[a][b] = IF a = p /\ b \in collaborators[p] THEN Append(chan[a][b], m) ELSE chan[a][b]
  BY <1>2, <1>3, ChanTypes, SentAll
<1>5. \A a, b \in Peers : chan[a][b] \in Seq(Packets)
  BY ChanTypes
<1>6. /\ \A x \in Peers : doc'[x] = IF x = p THEN doc[x] \cup {id} ELSE doc[x]
      /\ \A x \in Peers : stack'[x] = IF x = p THEN stack[x] \cup {id} ELSE stack[x]
  BY <1>3 DEF TypeOK
<1>7. /\ NewMaster' = NewMaster /\ Followers' = Followers
      /\ (Begun' <=> Begun) /\ (Ended' <=> Ended) /\ (Restarted' <=> Restarted)
      /\ \A s : (Answers(s)' <=> Answers(s)) /\ (Back(s)' <=> Back(s))
  BY <1>3, StagesKept
<1>8. /\ Master \in Peers /\ Slaves \subseteq Peers /\ Master \notin Slaves
      /\ Followers \subseteq Slaves /\ NewMaster \notin Followers /\ (Begun => NewMaster \in Slaves)
      /\ Peers = Slaves \cup {Master}
  BY Stages
<1>9. ASSUME NEW a \in Peers, NEW b \in Peers, a # p \/ b \in collaborators[p], Shared(a, b)
      PROVE  doc'[a] \subseteq doc'[b] \cup Carried(chan'[a][b])
  <2>1. Carried(chan[a][b]) \subseteq Carried(chan'[a][b]) /\ (a = p => id \in Carried(chan'[a][b]))
    BY <1>2, <1>4, <1>5, <1>9, CarriedSent
  <2> QED BY <1>6, <1>9, <2>1 DEF Shared
<1>10. OldSharing'
  <2> SUFFICES ASSUME NEW s \in Slaves
               PROVE  /\ ~Ended => Shared(s, Master)' /\ Master \in collaborators[s]
                      /\ Ended =>
                           /\ ~Has(chan'[s][Master], "change")
                           /\ Known(chan'[Master][s], old)
                           /\ ~Answers(s) => ~Has(chan'[Master][s], "change") /\ Master \notin collaborators[s]
                           /\ ~Back(s) => doc'[s] \subseteq old
                      /\ NoneAfter(chan'[Master][s], "flushed", "change")
    BY <1>3, <1>7 DEF OldSharing
  <2>1. /\ ~Ended => Shared(s, Master) /\ Master \in collaborators[s]
        /\ Ended =>
             /\ ~Has(chan[s][Master], "change")
             /\ Known(chan[Master][s], old)
             /\ ~Answers(s) => ~Has(chan[Master][s], "change") /\ Master \notin collaborators[s]
             /\ ~Back(s) => doc[s] \subseteq old
        /\ NoneAfter(chan[Master][s], "flushed", "change")
    BY DEF Sharing, OldSharing
  <2>2. CASE Ended
    <3>1. chan'[s][Master] = chan[s][Master] /\ chan'[Master][s] = chan[Master][s]
      BY <1>1, <1>4, <1>8, <2>2
    <3>2. ~Back(s) => doc'[s] = doc[s]
      BY <1>1, <1>6, <1>8, <2>2
    <3> QED BY <2>1, <2>2, <3>1, <3>2
  <2>3. CASE ~Ended
    <3>1. Shared(s, Master)'
      BY <1>8, <1>9, <2>1, <2>3 DEF Shared
    <3>2. ~Has(chan[Master][s], "flushed")
      BY <2>3 DEF Handshake, FromMaster, Once
    <3>3. chan[Master][s] \in Seq(Packets)
      BY <1>5, <1>8
    <3>4. NoneAfter(Append(chan[Master][s], m), "flushed", "change")
      BY <1>2, <2>1, <3>2, <3>3, ChangeSent
    <3>5. NoneAfter(chan'[Master][s], "flushed", "change")
      BY <1>4, <1>8, <2>1, <3>4
    <3> QED BY <2>1, <2>3, <3>1, <3>5
  <2> QED BY <2>2, <2>3
<1>11. NewSharing'
  <2> SUFFICES ASSUME Begun, NEW s \in Followers
               PROVE  /\ Restarted => Shared(s, NewMaster)' /\ Shared(NewMaster, s)'
                      /\ Has(chan'[NewMaster][s], "change") => Restarted
                      /\ NoneAfter(chan'[NewMaster][s], "change", "reconnectAck")
                      /\ Aware(chan'[NewMaster][s], old) /\ Aware(chan'[s][NewMaster], old)
    BY <1>3, <1>7 DEF NewSharing
  <2>1. /\ Restarted => Shared(s, NewMaster) /\ Shared(NewMaster, s)
        /\ Has(chan[NewMaster][s], "change") => Restarted
        /\ NoneAfter(chan[NewMaster][s], "change", "reconnectAck")
        /\ Aware(chan[NewMaster][s], old) /\ Aware(chan[s][NewMaster], old)
    BY DEF Sharing, NewSharing
  <2>2. s \in Peers /\ NewMaster \in Peers
    BY <1>8
  <2>3. ASSUME Restarted PROVE Shared(s, NewMaster)' /\ Shared(NewMaster, s)'
    <3>1. NewMaster \in collaborators[s] /\ s \in collaborators[NewMaster]
      BY <2>3, AllFollow
    <3>2. doc'[s] \subseteq doc'[NewMaster] \cup Carried(chan'[s][NewMaster])
      BY <1>9, <2>1, <2>2, <2>3, <3>1
    <3>3. doc'[NewMaster] \subseteq doc'[s] \cup Carried(chan'[NewMaster][s])
      BY <1>9, <2>1, <2>2, <2>3, <3>1
    <3> QED BY <1>7, <3>2, <3>3 DEF Shared
  <2>4. ASSUME p = NewMaster, s \in collaborators[p] PROVE Restarted
    <3>1. Follows(s)
      BY <1>1, <2>4, SendsTo
    <3>2. Ended
      BY <1>8, <3>1, Stages
    <3> QED BY <1>1, <3>2
  <2>5. Has(chan'[NewMaster][s], "change") => Restarted
    BY <1>4, <2>1, <2>2, <2>4
  <2>6. NoneAfter(chan'[NewMaster][s], "change", "reconnectAck")
    <3>1. chan[NewMaster][s] \in Seq(Packets)
      BY <1>5, <2>2
    <3>2. NoneAfter(Append(chan[NewMaster][s], m), "change", "reconnectAck")
      BY <1>2, <2>1, <3>1, ChangeSent
    <3> QED BY <1>4, <2>1, <2>2, <3>2
  <2>7. ASSUME NEW a \in Peers, NEW b \in Peers, Aware(chan[a][b], old) PROVE Aware(chan'[a][b], old)
    <3>1. Aware(Append(chan[a][b], m), old)
      BY <1>1, <1>2, <1>5, <2>7, CarriedSent
    <3> QED BY <1>4, <2>7, <3>1
  <2> QED BY <2>1, <2>2, <2>3, <2>5, <2>6, <2>7
<1>12. Stacks'
  <2> SUFFICES ASSUME NEW x \in Peers PROVE doc'[x] \subseteq stack'[x] \cup (IF Back(x)' THEN old' ELSE {})
    BY DEF Stacks
  <2>1. doc[x] \subseteq stack[x] \cup (IF Back(x) THEN old ELSE {})
    BY DEF Sharing, Stacks
  <2> QED BY <1>3, <1>6, <1>7, <2>1
<1> QED BY <1>3, <1>10, <1>11, <1>12 DEF Sharing

(* What an import does to the queues, pair by pair.                         *)
Forwarded(p, q) == ChangePacket(Head(chan[q][p]).id, doc[p])

Imports(p, q) ==
  /\ p # q /\ chan[q][p] # <<>> /\ Head(chan[q][p]).type = "change"
  /\ Head(chan[q][p]).id \in doc[q]
  /\ \A x \in Peers : doc'[x] = IF x = p THEN doc[x] \cup {Head(chan[q][p]).id} ELSE doc[x]
  /\ \A x \in Peers : stack'[x] = IF x = p THEN stack[x] \cup {Head(chan[q][p]).id} ELSE stack[x]
  /\ \A x \in Peers : collaborators'[x] = IF x = p THEN collaborators[x] \cup {q} ELSE collaborators[x]
  /\ Forwarded(p, q) \in Packets /\ Forwarded(p, q).type = "change"
  /\ Forwarded(p, q).id = Head(chan[q][p]).id /\ Forwarded(p, q).seen = doc[p]
  /\ \A a, b \in Peers :
       chan'[a][b] = IF a = q /\ b = p THEN Tail(chan[a][b])
                     ELSE IF a = p /\ b \in ForwardTo(p, q) THEN Append(chan[a][b], Forwarded(p, q))
                     ELSE chan[a][b]
  /\ UNCHANGED protocol /\ outgoing' = outgoing /\ old' = old

LEMMA Imported ==
  ASSUME TypeOK, Handshake, OwnChanges, NEW p \in Peers, NEW q \in Peers, ImportChange(p, q)
  PROVE  Imports(p, q)
<1> DEFINE h == Head(chan[q][p])
           r == Received(p, q)
           f == Forwarded(p, q)
<1>1. chan[q][p] # <<>> /\ h.type = "change"
  BY DEF ImportChange, HeadIs
<1>2. p # q
  BY <1>1, WhatComes, Stages
<1>3. h.id \in Changes
  BY <1>1, ChanTypes, PacketContents
<1>4. h.id \in doc[q]
  BY <1>1, ChanTypes, CarriedTaken DEF OwnChanges
<1>5. f \in Packets /\ f.type = "change" /\ f.id = h.id /\ f.seen = doc[p]
  BY <1>3, SomePackets DEF ChangePacket, ChangePackets, TypeOK, Forwarded
<1>6. /\ doc'   = [doc EXCEPT ![p] = @ \cup {h.id}]
      /\ stack' = [stack EXCEPT ![p] = @ \cup {h.id}]
      /\ collaborators' = [collaborators EXCEPT ![p] = @ \cup {q}]
      /\ chan'  = SendAll(r, p, ForwardTo(p, q), f)
      /\ UNCHANGED protocol /\ outgoing' = outgoing /\ old' = old
  BY DEF ImportChange, Forwarded
<1>7. /\ r \in Chans
      /\ \A a, b \in Peers : r[a][b] = IF a = q /\ b = p THEN Tail(chan[a][b]) ELSE chan[a][b]
  BY <1>1, ChanTypes, ReceivedFrom
<1> HIDE DEF r, f
<1>8. \A a, b \in Peers :
        chan'[a][b] = IF a = p /\ b \in ForwardTo(p, q) THEN Append(r[a][b], f) ELSE r[a][b]
  BY <1>5, <1>6, <1>7, SentAll
<1>9. \A a, b \in Peers :
        chan'[a][b] = IF a = q /\ b = p THEN Tail(chan[a][b])
                      ELSE IF a = p /\ b \in ForwardTo(p, q) THEN Append(chan[a][b], f)
                      ELSE chan[a][b]
  BY <1>2, <1>7, <1>8
<1>10. /\ \A x \in Peers : doc'[x] = IF x = p THEN doc[x] \cup {h.id} ELSE doc[x]
       /\ \A x \in Peers : stack'[x] = IF x = p THEN stack[x] \cup {h.id} ELSE stack[x]
       /\ \A x \in Peers : collaborators'[x] = IF x = p THEN collaborators[x] \cup {q} ELSE collaborators[x]
  <2> HIDE DEF h
  <2> QED BY <1>6 DEF TypeOK
<1> QED BY <1>1, <1>2, <1>4, <1>5, <1>6, <1>9, <1>10 DEF Imports, h, f

(* A slave gets a change of the old master: it forwards it to nobody, and    *)
(* the new session has not begun.                                           *)
LEMMA ImportFromMaster ==
  ASSUME TypeOK, Handshake, OwnChanges, Sharing, NEW p \in Slaves, ImportChange(p, Master)
  PROVE  OldSharing' /\ NewSharing'
<1>1. /\ Master \in Peers /\ Slaves \subseteq Peers /\ Master \notin Slaves /\ None \notin Peers
      /\ Followers \subseteq Slaves /\ NewMaster \notin Followers /\ (Begun => NewMaster \in Slaves)
      /\ (Restarted => Ended) /\ p \in Peers
  BY Stages
<1>0. Imports(p, Master)
  BY <1>1, Imported
<1> DEFINE h == Head(chan[Master][p])
<1>2. /\ chan[Master][p] # <<>> /\ h.type = "change" /\ h.id \in doc[Master]
      /\ \A x \in Peers : doc'[x] = IF x = p THEN doc[x] \cup {h.id} ELSE doc[x]
      /\ \A x \in Peers : collaborators'[x] = IF x = p THEN collaborators[x] \cup {Master} ELSE collaborators[x]
      /\ UNCHANGED protocol /\ old' = old
  BY <1>0 DEF Imports
<1> DEFINE c == chan[Master][p]
<1>3. /\ Has(c, "change") /\ c \in Seq(Packets)
      /\ \A ids : Known(c, ids) => Known(Tail(c), ids) /\ h.id \in ids
      /\ \A t, u : NoneAfter(c, t, u) => NoneAfter(Tail(c), t, u)
      /\ Has(Tail(c), "change") => Has(c, "change")
  <2>1. c \in Seq(Packets) /\ c # <<>> /\ h = Head(c) /\ h.type = "change"
    BY <1>1, <1>2, ChanTypes
  <2> HIDE DEF c, h
  <2>2. \A ids : Known(c, ids) => Known(Tail(c), ids) /\ h.id \in ids
    BY <2>1, CarriedTaken
  <2>3. Has(c, "change") /\ \A t, u : NoneAfter(c, t, u) => NoneAfter(Tail(c), t, u)
    BY <2>1, Taken
  <2> QED BY <2>1, <2>2, <2>3
<1>4. Ended => Answers(p)
  BY <1>3 DEF Sharing, OldSharing
<1>5. ForwardTo(p, Master) = {}
  <2>1. controller[p] = Master
    <3>1. ~Ended => Stays(p) \/ Answers(p)
      BY Stages DEF Handshake, Way
    <3> QED BY <1>4, <3>1 DEF Stays, Answers
  <2> QED BY <1>1, <2>1 DEF ForwardTo, isLocallyControlled
<1>6. \A a, b \in Peers : chan'[a][b] = IF a = Master /\ b = p THEN Tail(chan[a][b]) ELSE chan[a][b]
  BY <1>0, <1>1, <1>5 DEF Imports
<1>7. /\ NewMaster' = NewMaster /\ Followers' = Followers
      /\ (Begun' <=> Begun) /\ (Ended' <=> Ended) /\ (Restarted' <=> Restarted)
      /\ \A s : (Answers(s)' <=> Answers(s)) /\ (Back(s)' <=> Back(s))
  BY <1>2, StagesKept
<1>8. ~Restarted
  <2>1. ASSUME Restarted PROVE FALSE
    <3>1. p \in Followers => Follows(p)
      BY <2>1, AllFollow
    <3>2. p = NewMaster => Leads(p)
      BY <2>1 DEF Restarted
    <3> QED BY <1>1, <1>4, <2>1, <3>1, <3>2, Stages DEF Followers
  <2> QED BY <2>1
<1>9. OldSharing'
  <2> SUFFICES ASSUME NEW s \in Slaves
               PROVE  /\ ~Ended => doc'[s] \subseteq doc'[Master] \cup Carried(chan'[s][Master])
                                   /\ Master \in collaborators'[s]
                      /\ Ended =>
                           /\ ~Has(chan'[s][Master], "change")
                           /\ Known(chan'[Master][s], old)
                           /\ ~Answers(s) => ~Has(chan'[Master][s], "change") /\ Master \notin collaborators'[s]
                           /\ ~Back(s) => doc'[s] \subseteq old
                      /\ NoneAfter(chan'[Master][s], "flushed", "change")
    BY <1>2, <1>7 DEF OldSharing, Shared
  <2>1. /\ ~Ended => Shared(s, Master) /\ Master \in collaborators[s]
        /\ Ended =>
             /\ ~Has(chan[s][Master], "change")
             /\ Known(chan[Master][s], old)
             /\ ~Answers(s) => ~Has(chan[Master][s], "change") /\ Master \notin collaborators[s]
             /\ ~Back(s) => doc[s] \subseteq old
        /\ NoneAfter(chan[Master][s], "flushed", "change")
    BY DEF Sharing, OldSharing
  <2> HIDE DEF h
  <2>2. chan'[s][Master] = chan[s][Master] /\ doc'[Master] = doc[Master]
    BY <1>1, <1>2, <1>6
  <2>3. CASE s = p
    <3>1. /\ chan'[Master][s] = Tail(c) /\ doc'[s] = doc[s] \cup {h.id}
          /\ collaborators'[s] = collaborators[s] \cup {Master}
      BY <1>1, <1>2, <1>6, <2>3
    <3> HIDE DEF c
    <3>2. NoneAfter(c, "flushed", "change") /\ (Ended => Known(c, old))
      BY <2>1, <2>3 DEF c
    <3> QED BY <1>2, <1>3, <1>4, <2>1, <2>2, <2>3, <3>1, <3>2 DEF Shared
  <2>4. CASE s # p
    <3>1. /\ chan'[Master][s] = chan[Master][s] /\ doc'[s] = doc[s]
          /\ collaborators'[s] = collaborators[s]
      BY <1>1, <1>2, <1>6, <2>4
    <3> QED BY <2>1, <2>2, <3>1 DEF Shared
  <2> QED BY <2>3, <2>4
<1>10. NewSharing'
  <2> SUFFICES ASSUME Begun, NEW s \in Followers
               PROVE  /\ Has(chan'[NewMaster][s], "change") => Restarted
                      /\ NoneAfter(chan'[NewMaster][s], "change", "reconnectAck")
                      /\ Aware(chan'[NewMaster][s], old) /\ Aware(chan'[s][NewMaster], old)
    BY <1>2, <1>7, <1>8 DEF NewSharing
  <2>1. chan'[NewMaster][s] = chan[NewMaster][s] /\ chan'[s][NewMaster] = chan[s][NewMaster]
    BY <1>1, <1>6
  <2> QED BY <2>1 DEF Sharing, NewSharing
<1> QED BY <1>9, <1>10

(* The old master gets a change of a slave, in the old session, and          *)
(* forwards it to the others.                                               *)
LEMMA ImportToMaster ==
  ASSUME TypeOK, Handshake, OwnChanges, Flushing, Sharing, NEW q \in Slaves, ImportChange(Master, q)
  PROVE  OldSharing' /\ NewSharing'
<1>1. /\ Master \in Peers /\ Slaves \subseteq Peers /\ Master \notin Slaves
      /\ Followers \subseteq Slaves /\ NewMaster \notin Followers /\ (Begun => NewMaster \in Slaves)
      /\ (Restarted => Ended) /\ q \in Peers
  BY Stages
<1>0. Imports(Master, q)
  BY <1>1, Imported
<1> DEFINE h == Head(chan[q][Master])
           f == Forwarded(Master, q)
           c == chan[q][Master]
<1>2. /\ c # <<>> /\ h.type = "change"
      /\ \A x \in Peers : doc'[x] = IF x = Master THEN doc[x] \cup {h.id} ELSE doc[x]
      /\ \A x \in Peers : collaborators'[x] = IF x = Master THEN collaborators[x] \cup {q} ELSE collaborators[x]
      /\ UNCHANGED protocol /\ old' = old
      /\ f \in Packets /\ f.type = "change"
  BY <1>0 DEF Imports
<1>3. \A a, b \in Peers :
        chan'[a][b] = IF a = q /\ b = Master THEN Tail(chan[a][b])
                      ELSE IF a = Master /\ b \in ForwardTo(Master, q) THEN Append(chan[a][b], f)
                      ELSE chan[a][b]
  BY <1>0 DEF Imports
<1>4. /\ c \in Seq(Packets) /\ Has(c, "change")
      /\ \A id \in Carried(c) : id \in Carried(Tail(c)) \/ id = h.id
  <2>1. c \in Seq(Packets)
    BY <1>1, ChanTypes
  <2> QED BY <1>2, <2>1, CarriedTaken, Taken
<1>5. ~Ended /\ ~Restarted
  BY <1>1, <1>4 DEF Sharing, OldSharing
<1>6. /\ NewMaster' = NewMaster /\ Followers' = Followers
      /\ (Begun' <=> Begun) /\ (Ended' <=> Ended) /\ (Restarted' <=> Restarted)
  BY <1>2, StagesKept
<1> HIDE DEF h, f
<1>7. OldSharing'
  <2> SUFFICES ASSUME NEW s \in Slaves
               PROVE  /\ doc'[s] \subseteq doc'[Master] \cup Carried(chan'[s][Master])
                      /\ Master \in collaborators'[s]
                      /\ NoneAfter(chan'[Master][s], "flushed", "change")
    BY <1>5, <1>6 DEF OldSharing, Shared
  <2>1. /\ doc[s] \subseteq doc[Master] \cup Carried(chan[s][Master]) /\ Master \in collaborators[s]
        /\ NoneAfter(chan[Master][s], "flushed", "change")
    BY <1>5 DEF Sharing, OldSharing, Shared
  <2>2. s \in Peers /\ s # Master
    BY <1>1
  <2>3. /\ doc'[s] = doc[s] /\ collaborators'[s] = collaborators[s]
        /\ doc'[Master] = doc[Master] \cup {h.id}
    BY <1>1, <1>2, <2>2
  <2>4. Carried(chan[s][Master]) \subseteq Carried(chan'[s][Master]) \cup {h.id}
    <3>1. CASE s = q
      BY <1>1, <1>3, <1>4, <3>1
    <3>2. CASE s # q
      BY <1>1, <1>3, <2>2, <3>2
    <3> QED BY <3>1, <3>2
  <2>5. NoneAfter(chan'[Master][s], "flushed", "change")
    <3>1. chan[Master][s] \in Seq(Packets) /\ ~Has(chan[Master][s], "flushed")
      BY <1>1, <1>5, <2>2, ChanTypes DEF Handshake, FromMaster, Once
    <3>2. NoneAfter(Append(chan[Master][s], f), "flushed", "change")
      BY <1>2, <2>1, <3>1, ChangeSent
    <3> QED BY <1>1, <1>3, <2>1, <2>2, <3>2
  <2> QED BY <2>1, <2>3, <2>4, <2>5
<1>8. NewSharing'
  <2> SUFFICES ASSUME Begun, NEW s \in Followers
               PROVE  /\ Has(chan'[NewMaster][s], "change") => Restarted
                      /\ NoneAfter(chan'[NewMaster][s], "change", "reconnectAck")
                      /\ Aware(chan'[NewMaster][s], old) /\ Aware(chan'[s][NewMaster], old)
    BY <1>2, <1>5, <1>6 DEF NewSharing
  <2>1. chan'[NewMaster][s] = chan[NewMaster][s] /\ chan'[s][NewMaster] = chan[s][NewMaster]
    <3>1. NewMaster \in Peers /\ s \in Peers /\ NewMaster # Master /\ s # Master
      BY <1>1
    <3> QED BY <1>3, <3>1
  <2> QED BY <2>1 DEF Sharing, NewSharing
<1> QED BY <1>7, <1>8

(* What the two in the new session keep of the old one: they have nothing   *)
(* to do with the old master any more.                                      *)
LEMMA ImportAfterwards ==
  ASSUME TypeOK, Handshake, Sharing, NEW p \in Slaves, NEW q \in Slaves, Imports(p, q),
         Ended, Back(p), Master \notin ForwardTo(p, q)
  PROVE  OldSharing'
<1>1. Master \in Peers /\ Slaves \subseteq Peers /\ Master \notin Slaves
  BY Stages
<1>2. (Ended' <=> Ended) /\ \A s : (Answers(s)' <=> Answers(s)) /\ (Back(s)' <=> Back(s))
  BY StagesKept DEF Imports
<1> SUFFICES ASSUME NEW s \in Slaves
             PROVE  /\ ~Has(chan'[s][Master], "change")
                    /\ Known(chan'[Master][s], old)
                    /\ ~Answers(s) => ~Has(chan'[Master][s], "change") /\ Master \notin collaborators'[s]
                    /\ ~Back(s) => doc'[s] \subseteq old
                    /\ NoneAfter(chan'[Master][s], "flushed", "change")
  BY <1>2 DEF OldSharing, Imports
<1>3. /\ ~Has(chan[s][Master], "change")
      /\ Known(chan[Master][s], old)
      /\ ~Answers(s) => ~Has(chan[Master][s], "change") /\ Master \notin collaborators[s]
      /\ ~Back(s) => doc[s] \subseteq old
      /\ NoneAfter(chan[Master][s], "flushed", "change")
  BY DEF Sharing, OldSharing
<1>4. chan'[s][Master] = chan[s][Master] /\ chan'[Master][s] = chan[Master][s]
  BY <1>1 DEF Imports
<1>5. ~Answers(s) => Master \notin collaborators'[s]
  BY <1>1, <1>3 DEF Imports
<1>6. ~Back(s) => doc'[s] = doc[s]
  BY <1>1 DEF Imports
<1> QED BY <1>3, <1>4, <1>5, <1>6

(* The leader gets a change of a follower, and forwards it to the others.   *)
LEMMA ImportToLeader ==
  ASSUME TypeOK, Handshake, OwnChanges, Flushing, Sharing, Restarted,
         NEW q \in Followers, ImportChange(NewMaster, q)
  PROVE  OldSharing' /\ NewSharing'
<1> DEFINE n == NewMaster
           h == Head(chan[q][n])
           f == Forwarded(n, q)
           c == chan[q][n]
<1>1. /\ Master \in Peers /\ Slaves \subseteq Peers /\ Master \notin Slaves
      /\ Followers \subseteq Slaves /\ n \notin Followers /\ n \in Slaves
      /\ Begun /\ Ended /\ q \in Peers /\ n \in Peers
  BY Stages
<1>2. Back(n) /\ controller[n] = None /\ collaborators[n] \ {Master} = Followers
  BY AllFollow
<1>3. ~Answers(n) /\ Master \notin collaborators[n] /\ old \subseteq doc[n]
  <2>1. ~Answers(n)
    BY <1>2 DEF Back, Answers
  <2> QED BY <1>1, <2>1 DEF Sharing, OldSharing, Flushing
<1>4. ForwardTo(n, q) = Followers \ {q}
  BY <1>2, <1>3 DEF ForwardTo, isLocallyControlled
<1>5. Imports(n, q)
  BY <1>1, Imported
<1>6. /\ NewMaster' = NewMaster /\ Followers' = Followers
      /\ (Begun' <=> Begun) /\ (Restarted' <=> Restarted)
  BY <1>5, StagesKept DEF Imports
<1>7. OldSharing'
  BY <1>1, <1>2, <1>4, <1>5, ImportAfterwards
<1>8. /\ c # <<>> /\ h.type = "change" /\ h.id \in doc[q]
      /\ \A x \in Peers : doc'[x] = IF x = n THEN doc[x] \cup {h.id} ELSE doc[x]
      /\ f \in Packets /\ f.type = "change" /\ f.id = h.id /\ f.seen = doc[n] /\ old' = old
      /\ \A a, b \in Peers :
           chan'[a][b] = IF a = q /\ b = n THEN Tail(chan[a][b])
                         ELSE IF a = n /\ b \in Followers \ {q} THEN Append(chan[a][b], f)
                         ELSE chan[a][b]
  BY <1>4, <1>5 DEF Imports
<1>9. /\ c \in Seq(Packets)
      /\ \A id \in Carried(c) : id \in Carried(Tail(c)) \/ id = h.id
      /\ \A ids : Aware(c, ids) => Aware(Tail(c), ids)
  <2>1. c \in Seq(Packets)
    BY <1>1, ChanTypes
  <2> QED BY <1>8, <2>1, CarriedTaken
<1> HIDE DEF h, f, n
<1>10. NewSharing'
  <2> SUFFICES ASSUME NEW s \in Followers
               PROVE  /\ doc'[s] \subseteq doc'[n] \cup Carried(chan'[s][n])
                      /\ doc'[n] \subseteq doc'[s] \cup Carried(chan'[n][s])
                      /\ NoneAfter(chan'[n][s], "change", "reconnectAck")
                      /\ Aware(chan'[n][s], old) /\ Aware(chan'[s][n], old)
    BY <1>6, <1>8 DEF NewSharing, Shared, n
  <2>1. /\ doc[s] \subseteq doc[n] \cup Carried(chan[s][n])
        /\ doc[n] \subseteq doc[s] \cup Carried(chan[n][s])
        /\ NoneAfter(chan[n][s], "change", "reconnectAck")
        /\ Aware(chan[n][s], old) /\ Aware(chan[s][n], old)
    BY <1>1 DEF Sharing, NewSharing, Shared, n
  <2>2. s \in Peers /\ s # n /\ s # Master
    BY <1>1 DEF n
  <2>3. doc'[s] = doc[s] /\ doc'[n] = doc[n] \cup {h.id}
    BY <1>1, <1>8, <2>2
  <2>4. CASE s = q
    <3>1. chan'[s][n] = Tail(c) /\ chan'[n][s] = chan[n][s]
      BY <1>1, <1>8, <2>2, <2>4
    <3> QED BY <1>8, <1>9, <2>1, <2>3, <2>4, <3>1
  <2>5. CASE s # q
    <3>1. chan'[s][n] = chan[s][n] /\ chan'[n][s] = Append(chan[n][s], f)
      BY <1>1, <1>8, <2>2, <2>5
    <3>2. chan[n][s] \in Seq(Packets)
      BY <1>1, <2>2, ChanTypes
    <3>3. /\ Carried(chan[n][s]) \cup {h.id} \subseteq Carried(chan'[n][s])
          /\ Aware(chan'[n][s], old)
      BY <1>3, <1>8, <2>1, <3>1, <3>2, CarriedSent
    <3>4. NoneAfter(chan'[n][s], "change", "reconnectAck")
      BY <1>8, <2>1, <3>1, <3>2, ChangeSent
    <3> QED BY <2>1, <2>3, <3>1, <3>3, <3>4
  <2> QED BY <2>4, <2>5
<1> QED BY <1>7, <1>10

(* A follower gets a change of the leader, when it is back in a session.    *)
LEMMA ImportFromLeader ==
  ASSUME TypeOK, Handshake, OwnChanges, Sharing, Begun,
         NEW p \in Followers, ImportChange(p, NewMaster)
  PROVE  OldSharing' /\ NewSharing'
<1> DEFINE n == NewMaster
           h == Head(chan[n][p])
           c == chan[n][p]
<1>1. /\ Master \in Peers /\ Slaves \subseteq Peers /\ Master \notin Slaves
      /\ Followers \subseteq Slaves /\ n \notin Followers /\ n \in Slaves
      /\ None \notin Peers /\ p \in Peers /\ n \in Peers
  BY Stages
<1>2. Imports(p, n)
  BY <1>1, Imported
<1>3. /\ c # <<>> /\ h.type = "change" /\ h.id \in doc[n]
      /\ \A x \in Peers : doc'[x] = IF x = p THEN doc[x] \cup {h.id} ELSE doc[x]
      /\ UNCHANGED protocol /\ old' = old
  BY <1>2 DEF Imports
<1>4. c \in Seq(Packets)
  BY <1>1, ChanTypes
<1>5. /\ Has(c, "change")
      /\ \A id \in Carried(c) : id \in Carried(Tail(c)) \/ id = h.id
      /\ \A ids : Aware(c, ids) => Aware(Tail(c), ids)
      /\ NoneAfter(c, "change", "reconnectAck") =>
           NoneAfter(Tail(c), "change", "reconnectAck") /\ ~Has(c, "reconnectAck")
  <2> HIDE DEF c
  <2>1. h = Head(c)
    BY DEF c
  <2> HIDE DEF h
  <2>2. Has(c, "change") /\ \A id \in Carried(c) : id \in Carried(Tail(c)) \/ id = h.id
    BY <1>3, <1>4, <2>1, CarriedTaken, Taken
  <2>3. \A ids : Aware(c, ids) => Aware(Tail(c), ids)
    BY <1>3, <1>4, CarriedTaken
  <2>4. NoneAfter(c, "change", "reconnectAck") =>
          NoneAfter(Tail(c), "change", "reconnectAck") /\ ~Has(Tail(c), "reconnectAck")
    BY <1>3, <1>4, <2>1, Taken
  <2>5. Has(c, "reconnectAck") => Has(Tail(c), "reconnectAck")
    BY <1>3, <1>4, <2>1, Taken
  <2> QED BY <2>2, <2>3, <2>4, <2>5
<1>6. Restarted /\ NoneAfter(c, "change", "reconnectAck")
  BY <1>5 DEF Sharing, NewSharing
<1>7. Follows(p) /\ Ended
  BY <1>6, AllFollow, Stages
<1>8. Back(p)
  <2>1. Once(c, "reconnectAck", Follows(p) /\ state[p] = "SENT_SESSION_RECONNECT_REQUEST" /\ Restarted)
    BY DEF Handshake, FromLeader
  <2>2. state[p] # "SENT_SESSION_RECONNECT_REQUEST"
    BY <1>5, <1>6, <1>7, <2>1 DEF Once
  <2> QED BY <1>1, <1>7, <2>2 DEF Follows, Back
<1>9. ForwardTo(p, n) = {}
  BY <1>1, <1>7 DEF Follows, ForwardTo, isLocallyControlled
<1>10. \A a, b \in Peers : chan'[a][b] = IF a = n /\ b = p THEN Tail(chan[a][b]) ELSE chan[a][b]
  BY <1>2, <1>9 DEF Imports
<1>11. /\ NewMaster' = NewMaster /\ Followers' = Followers
       /\ (Begun' <=> Begun) /\ (Restarted' <=> Restarted)
  BY <1>3, StagesKept
<1>12. OldSharing'
  BY <1>1, <1>2, <1>7, <1>8, <1>9, ImportAfterwards
<1> HIDE DEF h, n
<1>13. NewSharing'
  <2> SUFFICES ASSUME NEW s \in Followers
               PROVE  /\ doc'[s] \subseteq doc'[n] \cup Carried(chan'[s][n])
                      /\ doc'[n] \subseteq doc'[s] \cup Carried(chan'[n][s])
                      /\ NoneAfter(chan'[n][s], "change", "reconnectAck")
                      /\ Aware(chan'[n][s], old) /\ Aware(chan'[s][n], old)
    BY <1>3, <1>6, <1>11 DEF NewSharing, Shared, n
  <2>1. /\ doc[s] \subseteq doc[n] \cup Carried(chan[s][n])
        /\ doc[n] \subseteq doc[s] \cup Carried(chan[n][s])
        /\ NoneAfter(chan[n][s], "change", "reconnectAck")
        /\ Aware(chan[n][s], old) /\ Aware(chan[s][n], old)
    BY <1>6 DEF Sharing, NewSharing, Shared, n
  <2>2. s \in Peers /\ s # n
    BY <1>1 DEF n
  <2>3. doc'[n] = doc[n] /\ chan'[s][n] = chan[s][n]
    BY <1>1, <1>3, <1>10, <2>2
  <2>4. CASE s = p
    <3>1. chan'[n][s] = Tail(c) /\ doc'[s] = doc[s] \cup {h.id}
      BY <1>1, <1>3, <1>10, <2>2, <2>4
    <3> QED BY <1>3, <1>5, <1>6, <2>1, <2>3, <2>4, <3>1
  <2>5. CASE s # p
    <3>1. chan'[n][s] = chan[n][s] /\ doc'[s] = doc[s]
      BY <1>1, <1>3, <1>10, <2>2, <2>5
    <3> QED BY <2>1, <2>3, <3>1
  <2> QED BY <2>4, <2>5
<1> QED BY <1>12, <1>13

LEMMA ImportSharing ==
  ASSUME TypeOK, Handshake, OwnChanges, Flushing, Sharing, NEW p \in Peers, NEW q \in Peers,
         ImportChange(p, q)
  PROVE  Sharing'
<1>1. Imports(p, q)
  BY Imported
<1>2. \/ q = Master /\ p \in Slaves
      \/ q \in Slaves /\ p = Master
      \/ Begun /\ q \in Followers /\ p = NewMaster /\ Restarted
      \/ Begun /\ q = NewMaster /\ p \in Followers
  BY <1>1, WhatComes DEF Imports
<1>3. OldSharing' /\ NewSharing'
  BY <1>2, ImportFromMaster, ImportToMaster, ImportToLeader, ImportFromLeader
<1>4. \A x : Back(x)' <=> Back(x)
  BY <1>1, StagesKept DEF Imports
<1>5. Stacks'
  <2> SUFFICES ASSUME NEW x \in Peers PROVE doc'[x] \subseteq stack'[x] \cup (IF Back(x)' THEN old' ELSE {})
    BY DEF Stacks
  <2>1. doc[x] \subseteq stack[x] \cup (IF Back(x) THEN old ELSE {})
    BY DEF Sharing, Stacks
  <2> QED BY <1>1, <1>4, <2>1 DEF Imports
<1> QED BY <1>1, <1>3, <1>5 DEF Sharing, Imports

(* Every step, as long as nobody edits between two sessions.                *)
LEMMA NextSharing ==
  ASSUME TypeOK, TypeOK', Handshake, Handshake', OwnChanges, Flushing, Flushing', Sharing,
         [Next]_vars, ~rash'
  PROVE  Sharing'
<1>1. CASE Other
  <2>1. \A p \in Peers : outgoing'[p] = <<>>
    BY <1>1, OtherSteps
  <2> QED BY <1>1, <2>1, OtherOldSharing, OtherNewSharing, OtherStacks DEF Sharing
<1>2. ASSUME NEW p \in Peers, Edit(p) PROVE Sharing'
  BY <1>2, EditSharing
<1>3. ASSUME NEW p \in Peers, NEW q \in Peers, ImportChange(p, q) PROVE Sharing'
  BY <1>3, ImportSharing
<1> QED BY <1>1, <1>2, <1>3 DEF Other

LEMMA StartSharing ==
  ASSUME Init PROVE Sharing
<1>1. /\ Master \in Peers /\ Slaves \subseteq Peers /\ Master \notin Slaves
  BY FinitePeers, TakeoverPeersAssumption
<1>2. /\ ~Begun /\ ~Ended
      /\ \A p, q \in Peers : chan[p][q] = <<>>
      /\ \A p \in Peers : doc[p] = {} /\ stack[p] = {} /\ outgoing[p] = <<>>
      /\ \A s \in Slaves : collaborators[s] = {Master}
  BY <1>1 DEF Init, Begun, Ended
<1>3. \A s \in Slaves : Shared(s, Master) /\ NoneAfter(chan[Master][s], "flushed", "change")
  BY <1>1, <1>2, NothingQueued DEF Shared
<1> QED BY <1>2, <1>3 DEF Sharing, OldSharing, NewSharing, Stacks

LEMMA OnceRash ==
  ASSUME [Next]_vars, rash PROVE rash'
<1>1. ASSUME NEW p \in Peers, Edit(p) PROVE rash'
  BY <1>1 DEF Edit
<1>2. ASSUME NEW p \in Peers, InitiateSessionTakeover(p) \/ DeleteSession(p) PROVE rash'
  BY <1>2 DEF InitiateSessionTakeover, DeleteSession
<1>3. ASSUME NEW p \in Peers, NEW q \in Peers, Deliver(p, q) PROVE rash'
  <2>1. rash' = rash
    BY <1>3 DEF Deliver, ImportChange, HandleRequest, HandleAck, BecomeMaster, SwitchMaster,
       HandleReconnectRequest, RestartAsSlave, Refuse, DropUnknown, RemoveBuddy
  <2> QED BY <2>1
<1>4. CASE UNCHANGED vars
  BY <1>4 DEF vars
<1> QED BY <1>1, <1>2, <1>3, <1>4 DEF Next

(* The invariant of a takeover that nobody edits in, for any number of      *)
(* slaves, for the first one of every session.                              *)
THEOREM AlwaysLosslessInv == Spec => []LosslessInv
<1>1. Init => LosslessInv
  BY StartSharing DEF LosslessInv
<1>2. IInv /\ IInv' /\ FlushInv /\ FlushInv' /\ LosslessInv /\ [Next]_vars => LosslessInv'
  <2> SUFFICES ASSUME IInv, IInv', FlushInv, FlushInv', LosslessInv, [Next]_vars,
                      MaxTakeovers <= 1 \/ FirstTakeover', ~rash'
               PROVE  Sharing'
    BY DEF LosslessInv
  <2>1. MaxTakeovers <= 1 \/ FirstTakeover
    BY NobodyReturns DEF IInv
  <2>2. TypeOK /\ Handshake /\ OwnChanges /\ Flushing
    BY <2>1 DEF IInv, FlushInv
  <2>3. TypeOK' /\ Handshake' /\ Flushing'
    BY DEF IInv, FlushInv
  <2>4. ~rash
    BY OnceRash
  <2>5. Sharing
    BY <2>1, <2>4 DEF LosslessInv
  <2> QED BY <2>2, <2>3, <2>5, NextSharing
<1> QED BY <1>1, <1>2, AlwaysIInv, AlwaysFlushInv, PTL DEF Spec
----------------------------------------------------------------------------
(* What follows. *)

LEMMA SharingSameChanges ==
  ASSUME TypeOK, Handshake, Flushing, Sharing PROVE SameChanges
<1> SUFFICES ASSUME Quiet PROVE \A p, q \in Peers : Here(p) /\ Here(q) => doc[p] = doc[q]
  BY DEF SameChanges
<1>1. /\ Master \in Peers /\ Peers = Slaves \cup {Master}
      /\ Begun => NewMaster \in Slaves /\ Slaves = Followers \cup {NewMaster}
      /\ (Ended => Begun)
  BY Stages
<1>2. \A a, b \in Peers : Carried(chan[a][b]) = {} /\ Coming(chan[a][b]) = {} /\ ~Has(chan[a][b], "flushed")
  <2>1. Carried(<<>>) = {} /\ Coming(<<>>) = {} /\ ~Has(<<>>, "flushed")
    BY EmptySeq DEF Carried, Coming, Has
  <2> QED BY <2>1 DEF Quiet
<1>3. CASE ~Ended
  <2>1. \A s \in Slaves : doc[s] = doc[Master]
    <3>1. \A s \in Slaves : doc[Master] \subseteq doc[s]
      BY <1>1, <1>2, <1>3 DEF Flushing
    <3>2. \A s \in Slaves : doc[s] \subseteq doc[Master]
      BY <1>1, <1>2, <1>3 DEF Sharing, OldSharing, Shared
    <3> QED BY <3>1, <3>2
  <2> QED BY <1>1, <2>1
<1>4. CASE Ended
  <2>1. ~Here(Master)
    BY <1>4 DEF Ended, Here
  <2>2. \A s \in Slaves : ~Answers(s)
    BY <1>1, <1>2, <1>4 DEF Handshake, FromMaster, Once
  <2>3. \E ids : \A s \in Slaves : doc[s] = ids
    <3>1. CASE Restarted
      <4>1. \A s \in Followers : doc[s] = doc[NewMaster]
        <5> SUFFICES ASSUME NEW s \in Followers PROVE doc[s] = doc[NewMaster]
          OBVIOUS
        <5>1. Shared(s, NewMaster) /\ Shared(NewMaster, s) /\ s \in Peers /\ NewMaster \in Peers
          BY <1>1, <1>4, <3>1 DEF Sharing, NewSharing
        <5>2. Carried(chan[s][NewMaster]) = {} /\ Carried(chan[NewMaster][s]) = {}
          BY <1>2, <5>1
        <5> QED BY <5>1, <5>2 DEF Shared
      <4> QED BY <1>1, <1>4, <4>1
    <3>2. CASE ~Restarted
      <4>1. \A s \in Slaves : ~Back(s)
        BY <1>1, <1>4, <2>2, <3>2 DEF Back, Handshake, Way, Leads, Restarted
      <4>2. \A s \in Slaves : doc[s] \subseteq old
        BY <1>4, <4>1 DEF Sharing, OldSharing
      <4>3. \A s \in Slaves : old \subseteq doc[s]
        BY <2>2 DEF Flushing
      <4> QED BY <4>2, <4>3
    <3> QED BY <3>1, <3>2
  <2> QED BY <1>1, <2>1, <2>3
<1> QED BY <1>3, <1>4

LEMMA SharingAccounted ==
  ASSUME TypeOK, Handshake, Sharing PROVE Accounted
<1> SUFFICES ASSUME NEW p \in Peers, NEW q \in Peers, HeadIs(p, q, "change")
             PROVE  doc[p] \ (Head(chan[q][p]).seen \cup {Head(chan[q][p]).id}) \subseteq stack[p]
  BY DEF Accounted
<1>1. chan[q][p] # <<>> /\ Head(chan[q][p]).type = "change" /\ chan[q][p] \in Seq(Packets)
  BY ChanTypes DEF HeadIs
<1>2. doc[p] \subseteq stack[p] \cup (IF Back(p) THEN old ELSE {})
  BY DEF Sharing, Stacks
<1>3. ASSUME Back(p) PROVE old \subseteq Head(chan[q][p]).seen
  <2>1. p \in Slaves /\ Ended /\ ~Answers(p) /\ p # Master
    BY <1>3, Stages DEF Back, Answers
  <2>2. ~Has(chan[Master][p], "change")
    BY <2>1 DEF Sharing, OldSharing
  <2>3. q # Master
    BY <1>1, <2>2, Taken
  <2>4. \/ Begun /\ q \in Followers /\ p = NewMaster
        \/ Begun /\ q = NewMaster /\ p \in Followers
    BY <1>1, <2>1, <2>3, WhatComes
  <2>5. Aware(chan[q][p], old)
    BY <2>4 DEF Sharing, NewSharing
  <2> QED BY <1>1, <2>5, CarriedTaken
<1> QED BY <1>2, <1>3

(* When only one master leaves, and nobody edits between the two sessions,   *)
(* a takeover loses nothing: when nothing is under way all peers in the      *)
(* session have the same changes, also those made while the requests and the *)
(* acknowledgements were under way (_handleSessionTakeover, import).         *)
THEOREM AlwaysTakeoverIsLossless ==
  ASSUME MaxTakeovers <= 1 PROVE Spec => []TakeoverIsLossless
<1>1. IInv /\ FlushInv /\ LosslessInv => TakeoverIsLossless
  BY SharingSameChanges DEF IInv, FlushInv, LosslessInv, TakeoverIsLossless
<1> QED BY <1>1, AlwaysIInv, AlwaysFlushInv, AlwaysLosslessInv, PTL

(* And then whoever gets a change can account for everything that its       *)
(* author had not seen: it is on the stack, although the stacks are emptied *)
(* when the peers come back (_restartAsMaster, _restartAsSlave).            *)
THEOREM AlwaysTakeoverIsAccounted ==
  ASSUME MaxTakeovers <= 1 PROVE Spec => []TakeoverIsAccounted
<1>1. IInv /\ LosslessInv => TakeoverIsAccounted
  BY SharingAccounted DEF IInv, LosslessInv, TakeoverIsAccounted
<1> QED BY <1>1, AlwaysIInv, AlwaysLosslessInv, PTL
============================================================================
