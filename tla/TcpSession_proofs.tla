------------------------- MODULE TcpSession_proofs -------------------------
(***************************************************************************)
(* A TCP connection is a FIFO channel: proofs for any number of packets,   *)
(* of oversized ones and of protocol errors, of the invariants of          *)
(* TcpSession and of the safety part of FifoChannel, which the session     *)
(* code relies on.  Nothing is assumed of how the threads interleave.      *)
(*                                                                         *)
(* IInv has two parts.  Base is about the receiver and holds whatever he   *)
(* is sent: QueueInv says that what was pushed is handled or queued,       *)
(* EndInv who knows that the connection is over.  Until is lost when the   *)
(* two functions of the sender race for the last packet of his queue       *)
(* (WriteRace) and not before: SenderInv says which numbers are in that    *)
(* queue and that its first is written; WireInv, that sizes and data       *)
(* alternate from what the receiver wants to what the sender writes next;  *)
(* ReceiverInv, that the receiver has the first packets; PipeInv counts    *)
(* the signals.  The lemmas go from sequences to streams, then every       *)
(* action gets one of its own for Until, with a step for every part of it  *)
(* the action can disturb.                                                 *)
(***************************************************************************)
EXTENDS TcpSession, TLAPS, SequenceTheorems, FiniteSetTheorems
----------------------------------------------------------------------------
(* Sequences. *)

(* A queue is empty when its length is 0.                                   *)
LEMMA Lengths ==
  ASSUME NEW S, NEW q \in Seq(S)
  PROVE  /\ Len(q) \in Nat /\ (q = <<>> <=> Len(q) = 0)
         /\ \A i \in 1..Len(q) : q[i] \in S
<1>1. Len(q) \in Nat /\ \A i \in 1..Len(q) : q[i] \in S
  BY LenProperties
<1>2. q = <<>> => Len(q) = 0
  BY EmptySeq
<1>3. q # <<>> => Len(q) # 0
  BY EmptySeq
<1> QED BY <1>1, <1>2, <1>3

(* Sending puts one element behind the others ...                           *)
LEMMA Sent ==
  ASSUME NEW S, NEW q \in Seq(S), NEW x \in S
  PROVE  /\ Append(q, x) \in Seq(S) /\ Append(q, x) # <<>>
         /\ Len(Append(q, x)) = Len(q) + 1 /\ Len(q) \in Nat
         /\ \A i \in 1..Len(q) : Append(q, x)[i] = q[i]
         /\ Append(q, x)[Len(q) + 1] = x
BY AppendProperties, LenProperties

(* ... and receiving takes the first one and moves the others down by one.  *)
LEMMA Taken ==
  ASSUME NEW S, NEW q \in Seq(S), q # <<>>
  PROVE  /\ Tail(q) \in Seq(S) /\ Len(Tail(q)) = Len(q) - 1
         /\ Len(q) \in Nat /\ Len(q) >= 1
         /\ \A i \in 1..(Len(q) - 1) : Tail(q)[i] = q[i + 1]
         /\ Head(q) = q[1] /\ q[1] \in S
<1>1. Len(q) \in Nat /\ Len(q) >= 1 /\ q[1] \in S
  BY EmptySeq, LenProperties
<1>2. /\ Tail(q) \in Seq(S) /\ Len(Tail(q)) = Len(q) - 1
      /\ \A i \in 1..Len(Tail(q)) : Tail(q)[i] = q[i + 1]
  BY HeadTailProperties, Zenon
<1>3. Head(q) = q[1]
  OBVIOUS
<1> QED BY <1>1, <1>2, <1>3

(* Sending the next packet keeps a queue numbered ...                       *)
LEMMA NumberedSent ==
  ASSUME NEW S, NEW q \in Seq(S), NEW n \in Int, Numbered(q, n), NEW x \in S, x = n + Len(q) + 1
  PROVE  Numbered(Append(q, x), n)
<1>1. \A i \in 1..(Len(q) + 1) : i \in 1..Len(q) \/ i = Len(q) + 1
  BY Lengths
<1> QED BY <1>1, Sent DEF Numbered

(* ... and so does receiving its first.                                     *)
LEMMA NumberedTaken ==
  ASSUME NEW S, NEW q \in Seq(S), NEW n \in Int, Numbered(q, n), q # <<>>
  PROVE  Head(q) = n + 1 /\ Numbered(Tail(q), n + 1)
BY Taken DEF Numbered

(* Writing what comes next keeps a stream; it ends with that.               *)
LEMMA StreamWritten ==
  ASSUME NEW S, NEW q \in Seq(S), NEW first, Stream(q, first), NEW x \in S, x = Following(q, first)
  PROVE  Stream(Append(q, x), first) /\ Following(Append(q, x), first) = After(x)
<1> DEFINE n == Len(q)
           r == Append(q, x)
<1>1. /\ r # <<>> /\ Len(r) = n + 1 /\ n \in Nat
      /\ \A i \in 1..n : r[i] = q[i]
      /\ r[n + 1] = x
  BY Sent
<1>2. q = <<>> <=> n = 0
  BY Lengths
<1> HIDE DEF n, r
<1>3. r[1] = first
  BY <1>1, <1>2 DEF Stream, Following
<1>4. \A i \in 1..((n + 1) - 1) : r[i + 1] = After(r[i])
  <2> SUFFICES ASSUME NEW i \in 1..n PROVE r[i + 1] = After(r[i])
    BY <1>1
  <2>1. CASE i = n
    BY <1>1, <1>2, <2>1 DEF Following, n
  <2>2. CASE i # n
    <3>1. i \in 1..(n - 1) /\ i + 1 \in 1..n
      BY <1>1, <2>2
    <3>2. q[i + 1] = After(q[i])
      BY <3>1 DEF Stream, n
    <3> QED BY <1>1, <3>1, <3>2
  <2> QED BY <2>1, <2>2
<1> QED BY <1>1, <1>3, <1>4 DEF Stream, Following, r

(* Reading gives what is wanted and leaves a stream of what comes after it. *)
LEMMA StreamRead ==
  ASSUME NEW S, NEW q \in Seq(S), NEW first, Stream(q, first), q # <<>>
  PROVE  /\ Head(q) = first /\ Stream(Tail(q), After(first))
         /\ Following(Tail(q), After(first)) = Following(q, first)
<1> DEFINE n == Len(q)
           r == Tail(q)
<1>1. /\ r \in Seq(S) /\ Len(r) = n - 1 /\ n \in Nat /\ n >= 1
      /\ \A i \in 1..(n - 1) : r[i] = q[i + 1]
      /\ Head(q) = q[1]
  BY Taken
<1>2. r = <<>> <=> n - 1 = 0
  BY <1>1, Lengths
<1>3. q[1] = first /\ \A i \in 1..(n - 1) : q[i + 1] = After(q[i])
  BY DEF Stream
<1> HIDE DEF n, r
<1>4. r # <<>> => r[1] = After(first)
  BY <1>1, <1>2, <1>3
<1>5. \A i \in 1..((n - 1) - 1) : r[i + 1] = After(r[i])
  BY <1>1, <1>3
<1>6. Following(r, After(first)) = After(q[n])
  BY <1>1, <1>2, <1>3 DEF Following
<1>7. Following(q, first) = After(q[n])
  BY DEF Following, n
<1> QED BY <1>1, <1>3, <1>4, <1>5, <1>6, <1>7 DEF Stream, r

(* Of a stream that breaks off a prefix is left.                            *)
LEMMA StreamCut ==
  ASSUME NEW S, NEW q \in Seq(S), NEW first, Stream(q, first), NEW n \in 0..Len(q)
  PROVE  /\ SubSeq(q, 1, n) \in Seq(S) /\ Len(SubSeq(q, 1, n)) = n
         /\ \A i \in 1..n : SubSeq(q, 1, n)[i] = q[i]
         /\ Stream(SubSeq(q, 1, n), first)
<1> DEFINE r == SubSeq(q, 1, n)
<1>1. Len(q) \in Nat /\ \A i \in 1..n : q[i] \in S
  BY Lengths
<1>2. r \in Seq(S) /\ Len(r) = n /\ \A i \in 1..n : r[i] = q[i]
  BY <1>1, SubSeqProperties
<1>3. r = <<>> <=> n = 0
  BY <1>2, Lengths
<1>4. q = <<>> <=> Len(q) = 0
  BY Lengths
<1> HIDE DEF r
<1>5. r # <<>> => r[1] = first
  BY <1>1, <1>2, <1>3, <1>4 DEF Stream
<1>6. \A i \in 1..(n - 1) : r[i + 1] = After(r[i])
  <2> SUFFICES ASSUME NEW i \in 1..(n - 1) PROVE r[i + 1] = After(r[i])
    OBVIOUS
  <2>1. i \in 1..n /\ i + 1 \in 1..n /\ i \in 1..(Len(q) - 1)
    BY <1>1
  <2> QED BY <1>2, <2>1 DEF Stream
<1>7. Stream(r, first)
  BY <1>2, <1>5, <1>6 DEF Stream
<1> QED BY <1>2, <1>7 DEF r
----------------------------------------------------------------------------
(* The state. *)

Base  == TypeOK /\ QueueInv /\ EndInv
Until == SenderInv /\ WireInv /\ ReceiverInv /\ PipeInv

(* What TypeOK says, in the form the proofs use.                            *)
LEMMA Types ==
  ASSUME TypeOK
  PROVE  /\ MaxSends \in Nat /\ sent \in 0..MaxSends /\ pushed \in Nat /\ pipe \in Nat
         /\ packetWrite \in 0..MaxSends
         /\ outgoing \in Seq(1..MaxSends) /\ incoming \in Seq(0..MaxSends) /\ handled \in Seq(0..MaxSends)
         /\ wire \in Seq(Item) /\ writes \in Seq(Item)
         /\ Len(outgoing) \in Nat /\ Len(incoming) \in Nat /\ Len(handled) \in Nat /\ Len(wire) \in Nat
         /\ Written \in Int /\ Queued \in Int
         /\ asyncWrite = [at |-> asyncWrite.at, inProgress |-> asyncWrite.inProgress]
         /\ asyncWrite.at \in {"idle", "checked", "pushed"} /\ asyncWrite.inProgress \in BOOLEAN
         /\ asyncWrite.at # "idle" => sent \in 1..MaxSends
         /\ handleEvent.at \in {"idle", "messages", "handled"} /\ handleEvent.disconnected \in BOOLEAN
<1>1. /\ Len(outgoing) \in Nat /\ Len(incoming) \in Nat /\ Len(handled) \in Nat /\ Len(wire) \in Nat
  BY Lengths DEF TypeOK
<1>2. sent \in Int
  BY BoundsAssumption DEF TypeOK
<1>3. Queued \in Int
  BY <1>2 DEF Queued
<1>4. Written \in Int
  BY <1>1, <1>3 DEF Written
<1>5. MaxSends \in Nat
  BY BoundsAssumption
<1>6. /\ sent \in 0..MaxSends /\ pushed \in Nat /\ pipe \in Nat /\ packetWrite \in 0..MaxSends
      /\ outgoing \in Seq(1..MaxSends) /\ incoming \in Seq(0..MaxSends) /\ handled \in Seq(0..MaxSends)
      /\ wire \in Seq(Item) /\ writes \in Seq(Item)
      /\ asyncWrite.at # "idle" => sent > 0
      /\ asyncWrite \in [at : {"idle", "checked", "pushed"}, inProgress : BOOLEAN]
      /\ handleEvent \in [at : {"idle", "messages", "handled"}, disconnected : BOOLEAN]
  BY DEF TypeOK
<1>7. asyncWrite.at # "idle" => sent \in 1..MaxSends
  BY <1>5, <1>6
<1> QED BY <1>1, <1>3, <1>4, <1>5, <1>6, <1>7

(* The items of a connection or of a write are about packets.               *)
LEMMA Items ==
  ASSUME NEW p \in 0..MaxSends PROVE Size(p) \in Item /\ Data(p) \in Item
BY DEF Size, Data, Item

(* The errors handled so far are finitely many.                             *)
LEMMA Errs ==
  ASSUME TypeOK
  PROVE  IsFiniteSet(Errors) /\ Given(Errors) \in Nat
<1>1. IsFiniteSet(1..MaxSends)
  BY BoundsAssumption, FS_Interval
<1>2. IsFiniteSet(Errors)
  BY <1>1, PacketsAssumption, FS_Subset
<1>3. IsFiniteSet(Errors \cap 1..Len(handled))
  BY <1>2, FS_Subset
<1> QED BY <1>2, <1>3, FS_CardinalityType DEF Given

(* Each part of the invariant is about some of the variables: steps that    *)
(* leave these alone keep it.                                               *)
LEMMA SenderKept ==
  ASSUME SenderInv, UNCHANGED senderVars PROVE SenderInv'
BY DEF SenderInv, senderVars, Written, Queued, Writing, Starting, Numbered

LEMMA UpcomingKept ==
  ASSUME UNCHANGED senderVars PROVE Upcoming' = Upcoming
BY DEF senderVars, Upcoming, Written, Queued

LEMMA WireKept ==
  ASSUME WireInv, UNCHANGED <<senderVars, wire, reader, pushed>>, up' => up PROVE WireInv'
BY UpcomingKept DEF WireInv, senderVars, Wanted, Reading, Stream, Following

LEMMA ReceiverKept ==
  ASSUME ReceiverInv, UNCHANGED <<sent, pushed, handled, incoming>> PROVE ReceiverInv'
BY DEF ReceiverInv, Numbered

LEMMA QueueKept ==
  ASSUME QueueInv, UNCHANGED <<pushed, handled, incoming>>, buddy' => buddy, forced => forced'
  PROVE  QueueInv'
BY DEF QueueInv

LEMMA EndKept ==
  ASSUME EndInv, UNCHANGED receiverVars, up' => up /\ senderOpen' PROVE EndInv'
BY DEF EndInv, receiverVars, Reading

LEMMA PipeKept ==
  ASSUME PipeInv, UNCHANGED receiverVars PROVE PipeInv'
BY DEF PipeInv, receiverVars, Given
----------------------------------------------------------------------------
(* The part that holds whatever the sender does.                            *)
LEMMA StartBase ==
  Init => Base
<1> SUFFICES ASSUME Init PROVE Base
  OBVIOUS
<1>1. Len(incoming) = 0 /\ Len(handled) = 0
  BY EmptySeq DEF Init
<1>2. TypeOK
  <2>1. /\ outgoing \in Seq(1..MaxSends) /\ incoming \in Seq(0..MaxSends) /\ handled \in Seq(0..MaxSends)
        /\ wire \in Seq(Item) /\ writes \in Seq(Item)
    BY EmptySeq DEF Init
  <2>2. 0 \in 0..MaxSends /\ 0 \in Nat
    BY BoundsAssumption
  <2>3. /\ asyncWrite \in [at : {"idle", "checked", "pushed"}, inProgress : BOOLEAN]
        /\ handleEvent \in [at : {"idle", "messages", "handled"}, disconnected : BOOLEAN]
    BY DEF Init, Idle
  <2>4. asyncWrite.at = "idle"
    BY DEF Init, Idle
  <2>5. sent = 0 /\ packetWrite = 0 /\ pipe = 0 /\ pushed = 0
    BY DEF Init
  <2>6. /\ popped = FALSE /\ senderOpen = TRUE /\ raced = FALSE /\ up = TRUE
        /\ receiverOpen = TRUE /\ buddy = TRUE /\ forced = FALSE
        /\ reader = "header" /\ ownWrite = "ok"
    BY DEF Init
  <2> QED BY <2>1, <2>2, <2>3, <2>4, <2>5, <2>6 DEF TypeOK
<1>3. QueueInv
  BY <1>1 DEF QueueInv, Init
<1>4. EndInv
  BY DEF EndInv, Reading, Init
<1> QED BY <1>2, <1>3, <1>4 DEF Base

(* The sender and the connection: they only have to keep their types, and   *)
(* a connection that is closed stays closed.                                *)
LEMMA SenderBase ==
  ASSUME Base, SenderMain \/ SenderSockets \/ Break PROVE Base'
<1> USE DEF Base
<1>1. /\ UNCHANGED receiverVars
      /\ up' => up /\ senderOpen'
  BY DEF SenderMain, SenderSockets, CheckInProgress, PushBack, StartWrite, WriteHeaderHandler,
         PopFront, WriteNext, WriteFails, Break, EndInv
<1>2. /\ sent' \in 0..MaxSends
      /\ asyncWrite' \in [at : {"idle", "checked", "pushed"}, inProgress : BOOLEAN]
      /\ outgoing' \in Seq(1..MaxSends) /\ packetWrite' \in 0..MaxSends
      /\ writes' \in Seq(Item) /\ wire' \in Seq(Item)
      /\ popped' \in BOOLEAN /\ senderOpen' \in BOOLEAN /\ raced' \in BOOLEAN /\ up' \in BOOLEAN
  <2>1. CASE CheckInProgress
    <3>1. sent + 1 \in 0..MaxSends
      BY <2>1, Types DEF CheckInProgress
    <3>2. raced' \in BOOLEAN
      BY <2>1 DEF CheckInProgress
    <3> QED BY <2>1, <3>1, <3>2 DEF CheckInProgress, TypeOK
  <2>2. CASE PushBack
    <3>1. sent \in 1..MaxSends
      BY <2>2, Types DEF PushBack
    <3>2. Append(outgoing, sent) \in Seq(1..MaxSends)
      BY <3>1, Types, Sent
    <3> QED BY <2>2, <3>2 DEF PushBack, TypeOK
  <2>3. CASE StartWrite
    <3>1. Append(writes, Size(sent)) \in Seq(Item) /\ sent \in 0..MaxSends
      BY Types, Items, Sent
    <3> QED BY <2>3, <3>1 DEF StartWrite, Idle, TypeOK
  <2>4. CASE WriteHeaderHandler
    <3>1. Size(packetWrite) \in Item /\ Data(packetWrite) \in Item /\ Tail(writes) \in Seq(Item)
      BY <2>4, Types, Items, Taken DEF WriteHeaderHandler
    <3>2. Append(wire, Size(packetWrite)) \in Seq(Item)
      BY <3>1, Types, Sent
    <3>3. Append(Tail(writes), Data(packetWrite)) \in Seq(Item)
      BY <3>1, Sent
    <3> QED BY <2>4, <3>2, <3>3 DEF WriteHeaderHandler, TypeOK
  <2>5. CASE PopFront
    <3>1. Head(writes) \in Item /\ Tail(writes) \in Seq(Item) /\ Tail(outgoing) \in Seq(1..MaxSends)
      BY <2>5, Types, Taken DEF PopFront
    <3>2. Append(wire, Head(writes)) \in Seq(Item) /\ 0 \in 0..MaxSends
      BY <3>1, Types, Sent
    <3>3. raced' \in BOOLEAN
      BY <2>5 DEF PopFront
    <3> QED BY <2>5, <3>1, <3>2, <3>3 DEF PopFront, TypeOK
  <2>6. CASE WriteNext
    <3>1. outgoing # <<>> => Head(outgoing) \in 1..MaxSends
      BY Types, Taken
    <3>2. outgoing # <<>> => Head(outgoing) \in 0..MaxSends
      BY <3>1
    <3>3. outgoing # <<>> => Append(writes, Size(Head(outgoing))) \in Seq(Item)
      BY <3>2, Types, Items, Sent
    <3> QED BY <2>6, <3>2, <3>3 DEF WriteNext, TypeOK
  <2>7. CASE WriteFails
    <3>1. Tail(writes) \in Seq(Item) /\ 0 \in 0..MaxSends
      BY <2>7, Types, Taken DEF WriteFails
    <3> QED BY <2>7, <3>1 DEF WriteFails, TypeOK
  <2>8. CASE Break
    <3>1. \A n \in 0..Len(wire) : SubSeq(wire, 1, n) \in Seq(Item)
      <4>1. ASSUME NEW n \in 0..Len(wire) PROVE SubSeq(wire, 1, n) \in Seq(Item)
        <5>1. wire \in Seq(Item) /\ \A i \in 1..n : wire[i] \in Item
          BY Types, Lengths
        <5> QED BY <5>1, SubSeqProperties, Types
      <4> QED BY <4>1
    <3>2. wire' \in Seq(Item)
      BY <2>8, <3>1 DEF Break
    <3> QED BY <2>8, <3>2 DEF Break, TypeOK
  <2> QED BY <2>1, <2>2, <2>3, <2>4, <2>5, <2>6, <2>7, <2>8 DEF SenderMain, SenderSockets
<1>3. asyncWrite'.at # "idle" => sent' > 0
  <2>1. CASE CheckInProgress
    BY <2>1, Types DEF CheckInProgress
  <2>2. CASE PushBack
    BY <2>2, Types DEF PushBack
  <2>3. CASE StartWrite
    BY <2>3 DEF StartWrite, Idle
  <2>4. CASE UNCHANGED <<sent, asyncWrite>>
    BY <2>4 DEF TypeOK
  <2> QED BY <2>1, <2>2, <2>3, <2>4
          DEF SenderMain, SenderSockets, WriteHeaderHandler, PopFront, WriteNext, WriteFails, Break
<1>4. TypeOK'
  BY <1>1, <1>2, <1>3 DEF TypeOK, receiverVars
<1> QED BY <1>1, <1>4, QueueKept, EndKept DEF receiverVars

(* A size is read, and allowed or not.                                      *)
LEMMA HeaderBase ==
  ASSUME Base, UNCHANGED senderVars, reader = "header", receiverOpen, wire' \in Seq(Item),
         \/ reader' = "closed" /\ receiverOpen' = FALSE /\ up' = FALSE
         \/ reader' = "body" /\ receiverOpen' = receiverOpen /\ up' = up,
         UNCHANGED <<incoming, pipe, handleEvent, handled, buddy, pushed, ownWrite, forced>>
  PROVE  Base'
<1> USE DEF Base
<1>1. TypeOK'
  <2>1. receiverOpen' \in BOOLEAN /\ up' \in BOOLEAN
    BY DEF TypeOK
  <2>2. reader' \in {"header", "body", "pushed", "closed", "stopped"}
    OBVIOUS
  <2> QED BY <2>1, <2>2 DEF TypeOK, senderVars
<1>2. QueueInv'
  BY QueueKept
<1>3. EndInv'
  <2>1. buddy /\ ~handleEvent.disconnected
    BY DEF EndInv
  <2>2. (up' => up /\ receiverOpen') /\ (receiverOpen' <=> Reading')
    <3>1. CASE reader' = "closed" /\ receiverOpen' = FALSE /\ up' = FALSE
      BY <3>1 DEF Reading
    <3>2. CASE reader' = "body" /\ receiverOpen' = receiverOpen /\ up' = up
      BY <3>2 DEF Reading
    <3> QED BY <3>1, <3>2
  <2> QED BY <2>1, <2>2 DEF EndInv, senderVars
<1> QED BY <1>1, <1>2, <1>3

(* The receiver: the connection ends once, from him or for him, and before  *)
(* he drops the sender he has emptied his queue.                            *)
LEMMA ReceiverBase ==
  ASSUME Base, ReceiverSockets \/ OwnWriteFails \/ ReceiverMain PROVE Base'
<1> USE DEF Base
<1>1. UNCHANGED senderVars
  BY DEF ReceiverSockets, OwnWriteFails, ReceiverMain, ReadHeader, ReadBody, ReadGarbled, SignalPacket,
         ReadFails, SignalDisconnect, SignalOwnFailure, HandleEvent, HandleMessage, MessagesDone,
         DropDisconnected
<1>2. wire # <<>> => Tail(wire) \in Seq(Item) /\ Head(wire) \in Item /\ Head(wire).packet \in 0..MaxSends
  <2>1. wire # <<>> => Tail(wire) \in Seq(Item) /\ Head(wire) \in Item
    BY Types, Taken
  <2> QED BY <2>1 DEF Item
<1>3. ASSUME NEW p \in 0..MaxSends
      PROVE  Append(incoming, p) \in Seq(0..MaxSends) /\ Len(Append(incoming, p)) = Len(incoming) + 1
  BY Types, Sent
<1>4. CASE ReadHeader
  <2>1. /\ reader = "header" /\ receiverOpen /\ wire' \in Seq(Item)
        /\ \/ reader' = "closed" /\ receiverOpen' = FALSE /\ up' = FALSE
           \/ reader' = "body" /\ receiverOpen' = receiverOpen /\ up' = up
        /\ UNCHANGED <<incoming, pipe, handleEvent, handled, buddy, pushed, ownWrite, forced>>
    BY <1>2, <1>4 DEF ReadHeader, Awaits
  <2> QED BY <1>1, <2>1, HeaderBase
<1>5. CASE ReadBody
  <2>1. /\ reader = "body" /\ reader' = "pushed" /\ pushed' = pushed + 1
        /\ incoming' \in Seq(0..MaxSends) /\ Len(incoming') = Len(incoming) + 1
        /\ wire' \in Seq(Item)
        /\ UNCHANGED <<up, receiverOpen, pipe, handleEvent, handled, buddy, ownWrite, forced>>
    BY <1>2, <1>3, <1>5 DEF ReadBody, Awaits
  <2>2. TypeOK'
    BY <1>1, <2>1, Types DEF TypeOK, senderVars
  <2>3. QueueInv'
    <3>1. Len(handled) \in Nat /\ Len(incoming) \in Nat /\ pushed \in Nat /\ handled' = handled
      BY <2>1, Types
    <3> QED BY <2>1, <3>1 DEF QueueInv
  <2>4. EndInv'
    BY <1>1, <2>1 DEF EndInv, Reading, senderVars
  <2> QED BY <2>2, <2>3, <2>4
<1>6. CASE ReadGarbled
  <2>1. /\ wire' \in Seq(Item)
        /\ UNCHANGED <<pipe, handleEvent, handled, buddy, ownWrite, forced>>
    BY <1>2, <1>6 DEF ReadGarbled
  <2>2. CASE /\ reader = "header" /\ receiverOpen
             /\ \/ reader' = "closed" /\ receiverOpen' = FALSE /\ up' = FALSE
                \/ reader' = "body" /\ UNCHANGED <<receiverOpen, up>>
             /\ UNCHANGED <<incoming, pushed>>
    BY <1>1, <2>1, <2>2, HeaderBase
  <2>3. CASE /\ reader = "body" /\ reader' = "pushed" /\ pushed' = pushed + 1
             /\ incoming' = Append(incoming, 0)
             /\ UNCHANGED <<receiverOpen, up>>
    <3>1. incoming' \in Seq(0..MaxSends) /\ Len(incoming') = Len(incoming) + 1
      BY <1>3, <2>3, BoundsAssumption
    <3>2. TypeOK'
      BY <1>1, <2>1, <2>3, <3>1, Types DEF TypeOK, senderVars
    <3>3. QueueInv'
      BY <2>1, <2>3, <3>1, Types DEF QueueInv
    <3>4. EndInv'
      BY <1>1, <2>1, <2>3 DEF EndInv, Reading, senderVars
    <3> QED BY <3>2, <3>3, <3>4
  <2> QED BY <1>6, <2>2, <2>3 DEF ReadGarbled, Awaits
<1>7. CASE SignalPacket
  <2>1. /\ reader = "pushed" /\ reader' = "header" /\ pipe' = pipe + 1
        /\ UNCHANGED <<wire, up, receiverOpen, incoming, handleEvent, handled, buddy, pushed, ownWrite, forced>>
    BY <1>7 DEF SignalPacket
  <2>2. TypeOK'
    BY <1>1, <2>1, Types DEF TypeOK, senderVars
  <2>3. EndInv'
    BY <1>1, <2>1 DEF EndInv, Reading, senderVars
  <2> QED BY <2>1, <2>2, <2>3, QueueKept
<1>8. CASE ReadFails
  <2>1. /\ ~up \/ ~receiverOpen
        /\ reader' = "closed" /\ receiverOpen' = FALSE
        /\ UNCHANGED <<wire, up, incoming, pipe, handleEvent, handled, buddy, pushed, ownWrite, forced>>
    BY <1>8 DEF ReadFails
  <2>2. TypeOK'
    <3>1. reader' \in {"header", "body", "pushed", "closed", "stopped"} /\ receiverOpen' \in BOOLEAN
      BY <2>1
    <3> QED BY <1>1, <2>1, <3>1 DEF TypeOK, senderVars
  <2>3. EndInv'
    BY <1>1, <2>1 DEF EndInv, Reading, senderVars
  <2> QED BY <2>1, <2>2, <2>3, QueueKept
<1>9. CASE SignalDisconnect
  <2>1. /\ reader = "closed" /\ reader' = "stopped" /\ pipe' = pipe + 1
        /\ UNCHANGED <<wire, up, receiverOpen, incoming, handleEvent, handled, buddy, pushed, ownWrite, forced>>
    BY <1>9 DEF SignalDisconnect
  <2>2. TypeOK'
    BY <1>1, <2>1, Types DEF TypeOK, senderVars
  <2>3. EndInv'
    BY <1>1, <2>1 DEF EndInv, Reading, senderVars
  <2> QED BY <2>1, <2>2, <2>3, QueueKept
<1>10. CASE SignalOwnFailure
  <2>1. /\ ownWrite' = "failed" /\ pipe' = pipe + 1
        /\ UNCHANGED <<wire, up, reader, receiverOpen, incoming, handleEvent, handled, buddy, pushed, forced>>
    BY <1>10 DEF SignalOwnFailure
  <2>2. TypeOK'
    BY <1>1, <2>1, Types DEF TypeOK, senderVars
  <2>3. EndInv'
    BY <1>1, <2>1 DEF EndInv, Reading, senderVars
  <2> QED BY <2>1, <2>2, <2>3, QueueKept
<1>11. CASE OwnWriteFails
  <2>1. /\ ~up /\ ownWrite' = "failing" /\ receiverOpen' = FALSE
        /\ forced' = (forced \/ receiverOpen)
        /\ UNCHANGED <<wire, up, reader, incoming, pipe, handleEvent, handled, buddy, pushed>>
    BY <1>11 DEF OwnWriteFails
  <2>2. TypeOK'
    <3>1. forced' \in BOOLEAN /\ receiverOpen' \in BOOLEAN /\ ownWrite' \in {"ok", "failing", "failed"}
      BY <2>1
    <3> QED BY <1>1, <2>1, <3>1 DEF TypeOK, senderVars
  <2>3. EndInv'
    BY <1>1, <2>1 DEF EndInv, Reading, senderVars
  <2> QED BY <2>1, <2>2, <2>3, QueueKept
<1>12. CASE HandleEvent
  <2>1. /\ pipe > 0 /\ pipe' = pipe - 1
        /\ handleEvent' = [at |-> "messages", disconnected |-> ~receiverOpen]
        /\ UNCHANGED <<wire, up, reader, receiverOpen, incoming, handled, buddy, pushed, ownWrite, forced>>
    BY <1>12 DEF HandleEvent
  <2>2. TypeOK'
    BY <1>1, <2>1, Types DEF TypeOK, senderVars
  <2>3. EndInv'
    <3>1. handleEvent'.at = "messages" /\ handleEvent'.disconnected = ~receiverOpen
      BY <2>1
    <3> QED BY <1>1, <2>1, <3>1 DEF EndInv, Reading, senderVars
  <2> QED BY <2>1, <2>2, <2>3, QueueKept
<1>13. CASE HandleMessage
  <2> DEFINE error == buddy /\ Head(incoming) \in Errors
  <2>1. /\ handleEvent.at = "messages" /\ incoming # <<>> /\ incoming' = Tail(incoming)
        /\ handled' = IF buddy THEN Append(handled, Head(incoming)) ELSE handled
        /\ error => receiverOpen' = FALSE /\ up' = FALSE /\ pipe' = pipe + 1 /\ forced' = TRUE
        /\ ~error => receiverOpen' = receiverOpen /\ up' = up /\ pipe' = pipe /\ forced' = forced
        /\ UNCHANGED <<wire, reader, handleEvent, buddy, pushed, ownWrite>>
    BY <1>13 DEF HandleMessage
  <2>2. /\ incoming' \in Seq(0..MaxSends) /\ Len(incoming') = Len(incoming) - 1
        /\ Head(incoming) \in 0..MaxSends
    BY <2>1, Types, Taken
  <2>3. /\ handled' \in Seq(0..MaxSends)
        /\ buddy => Len(handled') = Len(handled) + 1
        /\ ~buddy => handled' = handled
    <3>1. /\ Append(handled, Head(incoming)) \in Seq(0..MaxSends)
          /\ Len(Append(handled, Head(incoming))) = Len(handled) + 1
          /\ handled \in Seq(0..MaxSends)
      BY <2>2, Types, Sent
    <3> QED BY <2>1, <3>1
  <2> HIDE DEF error
  <2>4. /\ receiverOpen' \in BOOLEAN /\ up' \in BOOLEAN /\ forced' \in BOOLEAN /\ pipe' \in Nat
        /\ up' => up /\ receiverOpen'
        /\ receiverOpen' => receiverOpen
        /\ receiverOpen => receiverOpen' \/ forced'
        /\ forced => forced'
    <3>1. CASE error
      <4>1. pipe' \in Nat
        <5>1. pipe' = pipe + 1
          BY <2>1, <3>1
        <5>2. pipe \in Nat
          BY Types
        <5> QED BY <5>1, <5>2
      <4>2. receiverOpen' = FALSE /\ up' = FALSE /\ forced' = TRUE
        BY <2>1, <3>1
      <4> QED BY <4>1, <4>2
    <3>2. CASE ~error
      BY <2>1, <3>2, Types DEF TypeOK, EndInv
    <3> QED BY <3>1, <3>2
  <2>5. TypeOK'
    BY <1>1, <2>1, <2>2, <2>3, <2>4 DEF TypeOK, senderVars
  <2>6. QueueInv'
    <3>1. CASE buddy
      BY <2>1, <2>2, <2>3, <2>4, <3>1, Types DEF QueueInv
    <3>2. CASE ~buddy
      <4>1. forced'
        BY <2>1, <2>4, <3>2 DEF EndInv
      <4> QED BY <2>1, <2>2, <2>3, <3>2, <4>1, Types DEF QueueInv
    <3> QED BY <3>1, <3>2
  <2>7. EndInv'
    BY <1>1, <2>1, <2>4 DEF EndInv, Reading, senderVars
  <2> QED BY <2>5, <2>6, <2>7
<1>14. CASE MessagesDone
  <2>1. /\ incoming = <<>> /\ handleEvent' = [handleEvent EXCEPT !.at = "handled"]
        /\ UNCHANGED <<wire, up, reader, receiverOpen, incoming, pipe, handled, buddy, pushed, ownWrite, forced>>
    BY <1>14 DEF MessagesDone
  <2>2. handleEvent'.at = "handled" /\ handleEvent'.disconnected = handleEvent.disconnected
    BY <2>1 DEF TypeOK
  <2>3. TypeOK'
    BY <1>1, <2>1 DEF TypeOK, senderVars
  <2>4. EndInv'
    BY <1>1, <2>1, <2>2 DEF EndInv, Reading, senderVars
  <2> QED BY <2>1, <2>3, <2>4, QueueKept
<1>15. CASE DropDisconnected
  <2>1. /\ handleEvent.at = "handled"
        /\ buddy' = (buddy /\ ~handleEvent.disconnected)
        /\ handleEvent' = [at |-> "idle", disconnected |-> FALSE]
        /\ UNCHANGED <<wire, up, reader, receiverOpen, incoming, pipe, handled, pushed, ownWrite, forced>>
    BY <1>15 DEF DropDisconnected
  <2>2. handleEvent'.at = "idle" /\ handleEvent'.disconnected = FALSE
    BY <2>1
  <2>3. TypeOK'
    <3>1. buddy' \in BOOLEAN
      BY <2>1 DEF TypeOK
    <3> QED BY <1>1, <2>1, <3>1 DEF TypeOK, senderVars
  <2>4. EndInv'
    BY <1>1, <2>1, <2>2 DEF EndInv, Reading, senderVars
  <2>5. buddy' => buddy
    BY <2>1
  <2> QED BY <2>1, <2>3, <2>4, <2>5, QueueKept
<1> QED BY <1>4, <1>5, <1>6, <1>7, <1>8, <1>9, <1>10, <1>11, <1>12, <1>13, <1>14, <1>15
        DEF ReceiverSockets, ReceiverMain
----------------------------------------------------------------------------
(* Until the race: at the start nothing is queued, written or read.         *)
LEMMA StartUntil ==
  Init => Until
<1> SUFFICES ASSUME Init PROVE Until
  OBVIOUS
<1>1. /\ Len(outgoing) = 0 /\ Len(writes) = 0 /\ Len(wire) = 0
      /\ Len(incoming) = 0 /\ Len(handled) = 0
  BY EmptySeq DEF Init
<1>2. sent = 0 /\ pushed = 0 /\ pipe = 0
  BY DEF Init
<1>3. /\ asyncWrite.at = "idle" /\ reader = "header" /\ popped = FALSE /\ up = TRUE /\ ownWrite = "ok"
      /\ outgoing = <<>> /\ writes = <<>> /\ wire = <<>>
  BY DEF Init, Idle
<1>4. Queued = 0 /\ Written = 0
  BY <1>1, <1>2, <1>3 DEF Queued, Written
<1>5. SenderInv
  <2>1. Numbered(outgoing, Written) /\ ~Writing /\ ~Starting
    BY <1>1, <1>3 DEF Numbered, Writing, Starting
  <2> QED BY <1>3, <1>4, <2>1 DEF SenderInv
<1>6. WireInv
  <2>1. Stream(wire, Wanted)
    BY <1>1, <1>3 DEF Stream
  <2>2. Upcoming = Size(1)
    BY <1>3, <1>4 DEF Upcoming
  <2>3. Following(wire, Wanted) = Size(1)
    BY <1>2, <1>3 DEF Following, Wanted
  <2> QED BY <1>1, <2>1, <2>2, <2>3 DEF WireInv
<1>7. ReceiverInv
  BY <1>1, <1>2 DEF ReceiverInv, Numbered
<1>8. PipeInv
  <2>1. Given(Errors) = 0
    <3>1. Errors \cap 1..Len(handled) = {}
      BY <1>1
    <3> QED BY <3>1, FS_EmptySet DEF Given
  <2> QED BY <1>2, <1>3, <2>1 DEF PipeInv
<1> QED BY <1>5, <1>6, <1>7, <1>8 DEF Until
----------------------------------------------------------------------------
(* asyncWrite: the packet is counted; if asyncWriteHandler has popped, the  *)
(* queue is not empty; ...                                                  *)
LEMMA CheckInProgressKeeps ==
  ASSUME Base, Until, ~raced', CheckInProgress PROVE Until'
<1> USE DEF Base, Until
<1>1. /\ asyncWrite.at = "idle" /\ sent < MaxSends
      /\ sent' = sent + 1
      /\ asyncWrite' = [at |-> "checked", inProgress |-> outgoing # <<>>]
      /\ UNCHANGED <<outgoing, packetWrite, writes, popped, senderOpen, wire, up>>
      /\ UNCHANGED receiverVars
  BY DEF CheckInProgress
<1>2. popped => outgoing # <<>>
  BY DEF CheckInProgress
<1>3. sent \in 0..MaxSends /\ MaxSends \in Nat
  BY Types
<1>4. Queued' = Queued /\ Queued = sent
  BY <1>1, <1>3 DEF Queued
<1>5. Written' = Written /\ Upcoming' = Upcoming
  BY <1>1, <1>4 DEF Written, Upcoming
<1>6. Writing' = Writing /\ ~Starting'
  BY <1>1 DEF Writing, Starting
<1>7. SenderInv'
  <2>1. Written' >= 0 /\ Numbered(outgoing, Written)'
    BY <1>1, <1>5 DEF SenderInv, Numbered
  <2>2. asyncWrite'.at = "checked" /\ asyncWrite'.inProgress = (outgoing # <<>>)
    BY <1>1
  <2>3. senderOpen' =>
       IF Writing' THEN /\ packetWrite' = Head(outgoing')
                        /\ writes' \in {<<Size(packetWrite')>>, <<Data(packetWrite')>>}
                   ELSE writes' = <<>>
    BY <1>1, <1>6 DEF SenderInv
  <2> QED BY <1>1, <1>2, <1>6, <2>1, <2>2, <2>3 DEF SenderInv
<1>8. WireInv'
  <2>1. Reading' = Reading /\ Wanted' = Wanted
    BY <1>1 DEF Reading, Wanted, receiverVars
  <2>2. \A i \in 1..Len(wire) : wire[i].packet <= sent'
    <3> SUFFICES ASSUME NEW i \in 1..Len(wire) PROVE wire[i].packet <= sent'
      OBVIOUS
    <3>1. wire[i] \in Item
      BY Types, Lengths
    <3>2. wire[i].packet \in Int /\ wire[i].packet <= sent
      BY <1>3, <3>1 DEF WireInv, Item
    <3> QED BY <1>1, <1>3, <3>2
  <2> QED BY <1>1, <1>5, <2>1, <2>2 DEF WireInv, Stream, Following
<1>9. ReceiverInv'
  BY <1>1, <1>3, Types DEF ReceiverInv, receiverVars, Numbered
<1> QED BY <1>1, <1>7, <1>8, <1>9, PipeKept

(* ... then queued, the check still being right; ...                        *)
LEMMA PushBackKeeps ==
  ASSUME Base, Until, ~raced', PushBack PROVE Until'
<1> USE DEF Base, Until
<1>1. /\ asyncWrite.at = "checked"
      /\ outgoing' = Append(outgoing, sent)
      /\ asyncWrite' = [asyncWrite EXCEPT !.at = "pushed"]
      /\ UNCHANGED <<sent, packetWrite, writes, popped, senderOpen, wire, up>>
      /\ UNCHANGED receiverVars
  BY DEF PushBack
<1>2. sent \in 1..MaxSends
  BY <1>1, Types
<1>3. asyncWrite'.at = "pushed" /\ asyncWrite'.inProgress = asyncWrite.inProgress
  BY <1>1, Types
<1>4. /\ outgoing' \in Seq(1..MaxSends) /\ outgoing' # <<>>
      /\ Len(outgoing') = Len(outgoing) + 1
      /\ outgoing # <<>> => Head(outgoing') = Head(outgoing)
  <2>1. outgoing # <<>> => Len(outgoing) >= 1
    BY Types, Lengths
  <2>2. /\ outgoing' \in Seq(1..MaxSends) /\ outgoing' # <<>>
        /\ Len(outgoing') = Len(outgoing) + 1 /\ Len(outgoing) \in Nat
        /\ \A i \in 1..Len(outgoing) : outgoing'[i] = outgoing[i]
    <3>1. outgoing \in Seq(1..MaxSends)
      BY Types
    <3> QED BY <1>1, <1>2, <3>1, Sent
  <2>3. outgoing # <<>> => outgoing'[1] = outgoing[1]
    BY <2>1, <2>2
  <2>4. Head(outgoing') = outgoing'[1] /\ (outgoing # <<>> => Head(outgoing) = outgoing[1])
    BY <2>2, Types, Taken
  <2> QED BY <2>2, <2>3, <2>4
<1>5. Queued' = Queued + 1 /\ Queued = sent - 1
  BY <1>1, <1>2, <1>3 DEF Queued
<1>6. Written' = Written
  <2>1. Written' = Queued' - Len(outgoing')
    BY DEF Written
  <2>2. Written = Queued - Len(outgoing) /\ Queued \in Int /\ Len(outgoing) \in Int
    BY Types DEF Written
  <2> QED BY <1>4, <1>5, <2>1, <2>2
<1>7. Upcoming' = Upcoming
  BY <1>1, <1>6 DEF Upcoming
<1>8. /\ asyncWrite.inProgress <=> outgoing # <<>>
      /\ popped => asyncWrite.inProgress
      /\ Starting' <=> ~asyncWrite.inProgress
  BY <1>1, <1>3 DEF SenderInv, Starting
<1>9. Writing' = Writing /\ (Writing => outgoing # <<>>)
  <2>1. ~Starting
    BY <1>1 DEF Starting
  <2> QED BY <1>1, <1>4, <1>8, <2>1 DEF Writing
<1>10. SenderInv'
  <2>1. Numbered(outgoing, Written)'
    <3>1. sent = Written + Len(outgoing) + 1
      BY <1>2, <1>5, Types DEF Written
    <3>2. Numbered(Append(outgoing, sent), Written)
      BY <1>2, <3>1, Types, NumberedSent DEF SenderInv
    <3> QED BY <1>1, <1>6, <3>2
  <2>2. Starting' => Len(outgoing') = 1 /\ ~popped'
    <3>1. outgoing = <<>> => Len(outgoing) = 0
      BY Types, Lengths
    <3> QED BY <1>1, <1>4, <1>8, <3>1
  <2>3. Written' >= 0
    BY <1>6 DEF SenderInv
  <2>4. senderOpen' =>
       IF Writing' THEN /\ packetWrite' = Head(outgoing')
                        /\ writes' \in {<<Size(packetWrite')>>, <<Data(packetWrite')>>}
                   ELSE writes' = <<>>
    BY <1>1, <1>4, <1>9 DEF SenderInv
  <2> QED BY <1>3, <2>1, <2>2, <2>3, <2>4 DEF SenderInv
<1>11. WireInv'
  BY <1>1, <1>7 DEF WireInv, Reading, Wanted, receiverVars, Stream, Following
<1>12. ReceiverInv' /\ PipeInv'
  BY <1>1, ReceiverKept, PipeKept DEF receiverVars
<1> QED BY <1>10, <1>11, <1>12

(* ... and written at once when it is the only one.                         *)
LEMMA StartWriteKeeps ==
  ASSUME Base, Until, ~raced', StartWrite PROVE Until'
<1> USE DEF Base, Until
<1>1. /\ asyncWrite.at = "pushed" /\ asyncWrite' = Idle
      /\ IF asyncWrite.inProgress
           THEN packetWrite' = packetWrite /\ writes' = writes
           ELSE packetWrite' = sent /\ writes' = Append(writes, Size(sent))
      /\ UNCHANGED <<sent, outgoing, popped, senderOpen, wire, up>>
      /\ UNCHANGED receiverVars
  BY DEF StartWrite
<1>2. Starting <=> ~asyncWrite.inProgress
  BY <1>1 DEF Starting
<1>3. asyncWrite'.at = "idle" /\ ~Starting'
  BY <1>1 DEF Idle, Starting
<1>4. Queued' = Queued /\ Queued = sent
  BY <1>1, <1>3 DEF Queued
<1>5. Written' = Written
  BY <1>1, <1>4 DEF Written
<1>6. ~asyncWrite.inProgress => outgoing # <<>> /\ ~popped /\ Head(outgoing) = sent
  <2> SUFFICES ASSUME ~asyncWrite.inProgress
               PROVE  outgoing # <<>> /\ ~popped /\ Head(outgoing) = sent
    OBVIOUS
  <2>1. Len(outgoing) = 1 /\ ~popped
    BY <1>2 DEF SenderInv
  <2>2. outgoing \in Seq(1..MaxSends) /\ Written \in Int /\ sent \in Int
    BY Types
  <2>3. outgoing # <<>>
    BY <2>1, <2>2, Lengths
  <2>4. Head(outgoing) = Written + 1
    BY <2>2, <2>3, NumberedTaken DEF SenderInv
  <2>5. Written = sent - 1
    BY <1>4, <2>1 DEF Written
  <2> QED BY <2>1, <2>2, <2>3, <2>4, <2>5
<1>7. senderOpen /\ ~asyncWrite.inProgress => writes = <<>> /\ writes' = <<Size(sent)>>
  <2>1. ~asyncWrite.inProgress => ~Writing
    BY <1>2 DEF Writing
  <2> QED BY <1>1, <2>1 DEF SenderInv
<1>8. SenderInv'
  <2>1. Written' >= 0 /\ Numbered(outgoing, Written)'
    BY <1>1, <1>5 DEF SenderInv, Numbered
  <2>2. senderOpen' =>
       IF Writing' THEN /\ packetWrite' = Head(outgoing')
                        /\ writes' \in {<<Size(packetWrite')>>, <<Data(packetWrite')>>}
                   ELSE writes' = <<>>
    <3>1. CASE asyncWrite.inProgress
      <4>1. Writing' = Writing
        BY <1>1, <1>2, <1>3, <3>1 DEF Writing
      <4> QED BY <1>1, <3>1, <4>1 DEF SenderInv
    <3>2. CASE ~asyncWrite.inProgress
      <4>1. Writing'
        BY <1>1, <1>3, <1>6, <3>2 DEF Writing
      <4> QED BY <1>1, <1>6, <1>7, <3>2, <4>1
    <3> QED BY <3>1, <3>2
  <2> QED BY <1>3, <2>1, <2>2 DEF SenderInv
<1>9. up => Upcoming' = Upcoming
  <2>1. CASE asyncWrite.inProgress
    BY <1>1, <1>5, <2>1 DEF Upcoming
  <2>2. CASE ~asyncWrite.inProgress
    <3> SUFFICES ASSUME up PROVE Upcoming' = Upcoming
      OBVIOUS
    <3>1. writes = <<>> /\ writes' = <<Size(sent)>>
      BY <1>7, <2>2 DEF EndInv
    <3>2. Head(writes').part # "data"
      BY <3>1 DEF Size
    <3> QED BY <1>5, <3>1, <3>2 DEF Upcoming
  <2> QED BY <2>1, <2>2
<1>10. WireInv'
  BY <1>1, <1>9 DEF WireInv, Reading, Wanted, receiverVars, Stream, Following
<1>11. ReceiverInv' /\ PipeInv'
  BY <1>1, ReceiverKept, PipeKept DEF receiverVars
<1> QED BY <1>8, <1>10, <1>11
----------------------------------------------------------------------------
(* While the connection is up and the sender writes, he writes the first    *)
(* packet of his queue, and it is what comes next in the connection.        *)
LEMMA UnderWay ==
  ASSUME Base, Until, senderOpen, up, writes # <<>>
  PROVE  /\ Writing /\ outgoing # <<>> /\ Head(outgoing) = Written + 1
         /\ packetWrite = Written + 1 /\ packetWrite \in 1..MaxSends
         /\ writes \in {<<Size(packetWrite)>>, <<Data(packetWrite)>>}
         /\ Head(writes) = Following(wire, Wanted)
         /\ packetWrite <= sent /\ Stream(wire, Wanted) /\ Reading
<1> USE DEF Base, Until
<1>1. /\ Writing /\ packetWrite = Head(outgoing)
      /\ writes \in {<<Size(packetWrite)>>, <<Data(packetWrite)>>}
  BY DEF SenderInv
<1>2. outgoing # <<>>
  BY <1>1 DEF Writing, SenderInv
<1>3. /\ Head(outgoing) = Written + 1 /\ Len(outgoing) >= 1
      /\ Head(outgoing) \in 1..MaxSends
  BY <1>2, Types, Taken, NumberedTaken DEF SenderInv
<1>4. Written + 1 <= sent
  <2>1. Queued <= sent
    BY Types DEF Queued
  <2> QED BY <1>3, <2>1, Types DEF Written
<1>5. Head(writes) = Upcoming
  <2>1. CASE writes = <<Size(packetWrite)>>
    <3>1. Head(writes) = Size(packetWrite) /\ Head(writes).part # "data"
      BY <2>1 DEF Size
    <3> QED BY <1>1, <1>3, <3>1 DEF Upcoming
  <2>2. CASE writes = <<Data(packetWrite)>>
    <3>1. Head(writes) = Data(packetWrite) /\ Head(writes).part = "data"
      BY <2>2 DEF Data
    <3> QED BY <1>1, <1>3, <3>1 DEF Upcoming
  <2> QED BY <1>1, <2>1, <2>2
<1>6. Reading
  BY DEF EndInv
<1> QED BY <1>1, <1>2, <1>3, <1>4, <1>5, <1>6 DEF WireInv

(* What is written next continues the connection.                           *)
LEMMA WireWritten ==
  ASSUME TypeOK, WireInv, Reading, NEW x \in Item, x.packet <= sent,
         up => x = Following(wire, Wanted), up,
         wire' = Append(wire, x), Upcoming' = After(x), UNCHANGED <<sent, up, reader, pushed>>
  PROVE  WireInv'
<1>1. Reading' /\ Wanted' = Wanted
  BY DEF Reading, Wanted
<1>2. Stream(wire', Wanted) /\ Following(wire', Wanted) = After(x)
  BY Types, StreamWritten DEF WireInv
<1>3. \A i \in 1..Len(wire') : wire'[i].packet <= sent
  <2> SUFFICES ASSUME NEW i \in 1..Len(wire') PROVE wire'[i].packet <= sent
    OBVIOUS
  <2>1. Len(wire') = Len(wire) + 1 /\ \A j \in 1..Len(wire) : wire'[j] = wire[j]
    BY Types, Sent
  <2>2. wire'[Len(wire) + 1] = x
    BY Types, Sent
  <2>3. CASE i = Len(wire) + 1
    BY <2>2, <2>3
  <2>4. CASE i # Len(wire) + 1
    <3>1. i \in 1..Len(wire)
      <4>1. Len(wire) \in Nat
        BY Types
      <4>2. i \in 1..(Len(wire) + 1)
        BY <2>1
      <4> QED BY <2>4, <4>1, <4>2
    <3> QED BY <2>1, <3>1 DEF WireInv
  <2> QED BY <2>3, <2>4
<1> QED BY <1>1, <1>2, <1>3 DEF WireInv

(* asyncWriteHeaderHandler: the size is written, the data is next.          *)
LEMMA WriteHeaderHandlerKeeps ==
  ASSUME Base, Until, ~raced', WriteHeaderHandler PROVE Until'
<1> USE DEF Base, Until
<1>1. /\ senderOpen /\ up /\ ~popped /\ writes # <<>> /\ Head(writes).part = "size"
      /\ wire' = Append(wire, Size(packetWrite))
      /\ writes' = Append(Tail(writes), Data(packetWrite))
      /\ UNCHANGED <<sent, asyncWrite, outgoing, packetWrite, popped, senderOpen, up>>
      /\ UNCHANGED receiverVars
  BY DEF WriteHeaderHandler
<1>2. /\ Writing /\ packetWrite = Head(outgoing) /\ packetWrite = Written + 1 /\ packetWrite \in 1..MaxSends
      /\ Head(writes) = Following(wire, Wanted) /\ packetWrite <= sent /\ Reading
  BY <1>1, UnderWay
<1>3. writes = <<Size(packetWrite)>>
  BY <1>1, UnderWay DEF Data
<1>4. writes' = <<Data(packetWrite)>> /\ Head(writes) = Size(packetWrite)
  BY <1>1, <1>3
<1>5. Size(packetWrite) \in Item /\ Data(packetWrite) \in Item
  BY <1>2, Types, Items
<1>7. Written' = Written /\ Writing' = Writing
  BY <1>1 DEF Written, Queued, Writing, Starting
<1>8. SenderInv'
  <2>1. Written' >= 0 /\ Numbered(outgoing, Written)'
    BY <1>1, <1>7 DEF SenderInv, Numbered
  <2> QED BY <1>1, <1>2, <1>4, <1>7, <2>1 DEF SenderInv, Starting
<1>9. Upcoming' = After(Size(packetWrite))
  <2>1. Head(writes') = Data(packetWrite) /\ Head(writes').part = "data" /\ writes' # <<>>
    BY <1>4 DEF Data
  <2> QED BY <1>2, <1>7, <2>1 DEF Upcoming, After, Size
<1>10. WireInv'
  <2>1. Size(packetWrite).packet <= sent
    BY <1>2 DEF Size
  <2>2. UNCHANGED <<sent, up, reader, pushed>>
    BY <1>1 DEF receiverVars
  <2> QED BY <1>1, <1>2, <1>4, <1>5, <1>9, <2>1, <2>2, WireWritten
<1>11. ReceiverInv' /\ PipeInv'
  BY <1>1, ReceiverKept, PipeKept DEF receiverVars
<1> QED BY <1>8, <1>10, <1>11

(* asyncWriteHandler: the data is written and the packet leaves the queue,  *)
(* which is not the last one if asyncWrite has just looked; ...             *)
LEMMA PopFrontKeeps ==
  ASSUME Base, Until, ~raced', PopFront PROVE Until'
<1> USE DEF Base, Until
<1>1. /\ senderOpen /\ up /\ ~popped /\ writes # <<>> /\ Head(writes).part = "data"
      /\ outgoing # <<>>
      /\ wire' = Append(wire, Head(writes))
      /\ writes' = Tail(writes)
      /\ packetWrite' = 0 /\ outgoing' = Tail(outgoing) /\ popped' = TRUE
      /\ UNCHANGED <<sent, asyncWrite, senderOpen, up>>
      /\ UNCHANGED receiverVars
  BY DEF PopFront
<1>2. asyncWrite.at = "checked" => Len(outgoing) # 1
  BY DEF PopFront
<1>3. /\ packetWrite = Written + 1 /\ packetWrite \in 1..MaxSends
      /\ Head(writes) = Following(wire, Wanted) /\ packetWrite <= sent /\ Reading /\ Writing
  BY <1>1, UnderWay
<1>4. writes = <<Data(packetWrite)>>
  BY <1>1, UnderWay DEF Size
<1>5. writes' = <<>> /\ Head(writes) = Data(packetWrite)
  BY <1>1, <1>4
<1>6. Data(packetWrite) \in Item
  BY <1>3, Types, Items
<1>7. /\ outgoing' \in Seq(1..MaxSends) /\ Len(outgoing') = Len(outgoing) - 1 /\ Len(outgoing) >= 1
      /\ Numbered(outgoing', Written + 1)
  BY <1>1, Types, Taken, NumberedTaken DEF SenderInv
<1>8. Written' = Written + 1
  <2>1. Written' = Queued' - Len(outgoing')
    BY DEF Written
  <2>2. Written = Queued - Len(outgoing) /\ Queued \in Int /\ Len(outgoing) \in Int
    BY Types DEF Written
  <2>3. Queued' = Queued
    BY <1>1 DEF Queued
  <2> QED BY <1>7, <2>1, <2>2, <2>3
<1>9. SenderInv'
  <2>1. ~Writing' /\ ~Starting'
    BY <1>1, <1>3 DEF Writing, Starting
  <2>2. Written' >= 0 /\ Numbered(outgoing, Written)'
    BY <1>7, <1>8, Types DEF SenderInv
  <2>3. asyncWrite.at = "checked" => outgoing' # <<>> /\ asyncWrite.inProgress
    <3>1. outgoing' = <<>> => Len(outgoing') = 0
      BY <1>7, Lengths
    <3>2. Len(outgoing) \in Nat
      BY Types
    <3>3. asyncWrite.at = "checked" => outgoing' # <<>>
      BY <1>2, <1>7, <3>1, <3>2
    <3> QED BY <1>1, <3>3 DEF SenderInv
  <2> QED BY <1>1, <1>5, <2>1, <2>2, <2>3 DEF SenderInv
<1>10. Upcoming' = After(Data(packetWrite))
  BY <1>3, <1>5, <1>8 DEF Upcoming, After, Data
<1>11. WireInv'
  <2>1. Data(packetWrite).packet <= sent
    BY <1>3 DEF Data
  <2>2. UNCHANGED <<sent, up, reader, pushed>>
    BY <1>1 DEF receiverVars
  <2> QED BY <1>1, <1>3, <1>5, <1>6, <1>10, <2>1, <2>2, WireWritten
<1>12. ReceiverInv' /\ PipeInv'
  BY <1>1, ReceiverKept, PipeKept DEF receiverVars
<1> QED BY <1>9, <1>11, <1>12

(* ... and the next one is written if there is one, be it one that          *)
(* asyncWrite has queued meanwhile.                                         *)
LEMMA WriteNextKeeps ==
  ASSUME Base, Until, ~raced', WriteNext PROVE Until'
<1> USE DEF Base, Until
<1>1. /\ popped /\ popped' = FALSE
      /\ IF outgoing = <<>>
           THEN packetWrite' = packetWrite /\ writes' = writes
           ELSE packetWrite' = Head(outgoing) /\ writes' = Append(writes, Size(Head(outgoing)))
      /\ UNCHANGED <<sent, asyncWrite, outgoing, senderOpen, wire, up>>
      /\ UNCHANGED receiverVars
  BY DEF WriteNext
<1>2. ~Starting /\ ~Writing /\ ~Starting'
  BY <1>1 DEF SenderInv, Writing, Starting
<1>3. senderOpen => writes = <<>>
  BY <1>2 DEF SenderInv
<1>4. Written' = Written
  BY <1>1 DEF Written, Queued
<1>5. Writing' <=> outgoing # <<>>
  BY <1>1, <1>2 DEF Writing
<1>6. SenderInv'
  <2>1. Written' >= 0 /\ Numbered(outgoing, Written)'
    BY <1>1, <1>4 DEF SenderInv, Numbered
  <2>2. senderOpen /\ outgoing # <<>> => writes' = <<Size(Head(outgoing))>>
    BY <1>1, <1>3
  <2>3. senderOpen' =>
       IF Writing' THEN /\ packetWrite' = Head(outgoing')
                        /\ writes' \in {<<Size(packetWrite')>>, <<Data(packetWrite')>>}
                   ELSE writes' = <<>>
    BY <1>1, <1>3, <1>5, <2>2
  <2> QED BY <1>1, <1>2, <2>1, <2>3 DEF SenderInv
<1>7. up => Upcoming' = Upcoming
  <2> SUFFICES ASSUME up PROVE Upcoming' = Upcoming
    OBVIOUS
  <2>1. writes = <<>>
    BY <1>3 DEF EndInv
  <2>2. outgoing # <<>> => writes' = <<Size(Head(outgoing))>>
    BY <1>1, <2>1
  <2>3. outgoing # <<>> => Head(writes').part # "data"
    BY <2>2 DEF Size
  <2> QED BY <1>1, <1>4, <2>1, <2>3 DEF Upcoming
<1>8. WireInv'
  BY <1>1, <1>7 DEF WireInv, Reading, Wanted, receiverVars, Stream, Following
<1>9. ReceiverInv' /\ PipeInv'
  BY <1>1, ReceiverKept, PipeKept DEF receiverVars
<1> QED BY <1>6, <1>8, <1>9

(* A write that fails closes the sender's socket.                           *)
LEMMA WriteFailsKeeps ==
  ASSUME Base, Until, ~raced', WriteFails PROVE Until'
<1> USE DEF Base, Until
<1>1. /\ senderOpen' = FALSE /\ up' = FALSE
      /\ UNCHANGED <<sent, asyncWrite, outgoing, popped, wire>>
      /\ UNCHANGED receiverVars
  BY DEF WriteFails
<1>2. SenderInv'
  <2>1. Written' >= 0 /\ Numbered(outgoing, Written)' /\ Starting' = Starting
    BY <1>1 DEF SenderInv, Numbered, Written, Queued, Starting
  <2> QED BY <1>1, <2>1 DEF SenderInv
<1>3. WireInv'
  BY <1>1 DEF WireInv, Reading, Wanted, receiverVars, Stream
<1>4. ReceiverInv' /\ PipeInv'
  BY <1>1, ReceiverKept, PipeKept DEF receiverVars
<1> QED BY <1>2, <1>3, <1>4

(* A connection that breaks leaves a prefix of what was under way.          *)
LEMMA BreakKeeps ==
  ASSUME Base, Until, ~raced', Break PROVE Until'
<1> USE DEF Base, Until
<1>1. PICK n \in 0..Len(wire) : wire' = SubSeq(wire, 1, n)
  BY DEF Break
<1>2. /\ up /\ up' = FALSE
      /\ senderOpen' = FALSE \/ senderOpen' = senderOpen
      /\ UNCHANGED <<sent, asyncWrite, outgoing, packetWrite, writes, popped>>
      /\ UNCHANGED receiverVars
  BY DEF Break
<1>3. /\ wire' \in Seq(Item) /\ Len(wire') = n /\ \A i \in 1..n : wire'[i] = wire[i]
      /\ Reading => Stream(wire', Wanted)
  <2>1. Stream(wire, Wanted) /\ Reading
    BY <1>2 DEF WireInv, EndInv
  <2> QED BY <1>1, <2>1, Types, StreamCut
<1>4. SenderInv'
  <2>1. Written' = Written /\ Writing' = Writing /\ Starting' = Starting
    BY <1>2 DEF Written, Queued, Writing, Starting
  <2>2. Written' >= 0 /\ Numbered(outgoing, Written)'
    BY <1>2, <2>1 DEF SenderInv, Numbered
  <2> QED BY <1>2, <2>1, <2>2 DEF SenderInv
<1>5. WireInv'
  <2>1. \A i \in 1..n : i \in 1..Len(wire)
    BY Types
  <2>2. \A i \in 1..Len(wire') : wire'[i].packet <= sent'
    BY <1>2, <1>3, <2>1 DEF WireInv
  <2>3. Reading' => Stream(wire', Wanted')
    BY <1>2, <1>3 DEF Reading, Wanted, receiverVars
  <2> QED BY <1>2, <2>2, <2>3 DEF WireInv
<1>6. ReceiverInv' /\ PipeInv'
  BY <1>2, ReceiverKept, PipeKept DEF receiverVars
<1> QED BY <1>4, <1>5, <1>6
----------------------------------------------------------------------------
(* asyncReadHeaderHandler: the size of the next packet, if it is allowed.   *)
LEMMA ReadHeaderKeeps ==
  ASSUME Base, Until, ~raced', ReadHeader PROVE Until'
<1> USE DEF Base, Until
<1>1. /\ reader = "header" /\ receiverOpen
      /\ wire # <<>> /\ Head(wire).part = "size" /\ wire' = Tail(wire)
      /\ \/ reader' = "closed" /\ receiverOpen' = FALSE /\ up' = FALSE
         \/ reader' = "body" /\ receiverOpen' = receiverOpen /\ up' = up
      /\ UNCHANGED senderVars
      /\ UNCHANGED <<incoming, pipe, handleEvent, handled, buddy, pushed, ownWrite, forced>>
  BY DEF ReadHeader, Awaits
<1>2. /\ wire' \in Seq(Item) /\ Len(wire') = Len(wire) - 1
      /\ \A i \in 1..(Len(wire) - 1) : wire'[i] = wire[i + 1]
  BY <1>1, Types, Taken
<1>3. SenderInv'
  BY <1>1, SenderKept
<1>4. WireInv'
  <2>1. \A i \in 1..Len(wire') : wire'[i].packet <= sent'
    <3>1. \A i \in 1..(Len(wire) - 1) : i + 1 \in 1..Len(wire)
      BY Types
    <3> QED BY <1>1, <1>2, <3>1 DEF WireInv, senderVars
  <2>2. Wanted = Size(pushed + 1) /\ Stream(wire, Wanted)
    BY <1>1 DEF Wanted, WireInv, Reading
  <2>3. Stream(wire', After(Wanted)) /\ Following(wire', After(Wanted)) = Following(wire, Wanted)
    BY <1>1, <2>2, Types, StreamRead
  <2>4. After(Wanted) = Data(pushed + 1)
    BY <2>2 DEF After, Size
  <2>5. Reading' => Wanted' = After(Wanted)
    BY <1>1, <2>4 DEF Reading, Wanted
  <2>6. up' => up /\ Reading'
    BY <1>1 DEF Reading
  <2>7. up' => Upcoming' = Following(wire', Wanted')
    BY <1>1, <2>3, <2>5, <2>6, UpcomingKept DEF WireInv
  <2> QED BY <2>1, <2>3, <2>5, <2>7 DEF WireInv
<1>5. ReceiverInv'
  BY <1>1, ReceiverKept DEF senderVars
<1>6. PipeInv'
  BY <1>1 DEF PipeInv, Given
<1> QED BY <1>3, <1>4, <1>5, <1>6

(* asyncReadHandler: the packet that comes next is pushed, ...              *)
LEMMA ReadBodyKeeps ==
  ASSUME Base, Until, ~raced', ReadBody PROVE Until'
<1> USE DEF Base, Until
<1>1. /\ reader = "body" /\ wire # <<>> /\ Head(wire).part = "data" /\ wire' = Tail(wire)
      /\ incoming' = Append(incoming, Head(wire).packet)
      /\ pushed' = pushed + 1 /\ reader' = "pushed"
      /\ UNCHANGED senderVars
      /\ UNCHANGED <<up, receiverOpen, pipe, handleEvent, handled, buddy, ownWrite, forced>>
  BY DEF ReadBody, Awaits
<1>2. /\ wire' \in Seq(Item) /\ Len(wire') = Len(wire) - 1
      /\ \A i \in 1..(Len(wire) - 1) : wire'[i] = wire[i + 1]
      /\ Len(wire) >= 1 /\ Head(wire) = wire[1]
  BY <1>1, Types, Taken
<1>3. Wanted = Data(pushed + 1) /\ Stream(wire, Wanted)
  BY <1>1 DEF Wanted, WireInv, Reading
<1>4. /\ Head(wire) = Wanted /\ Stream(wire', After(Wanted))
      /\ Following(wire', After(Wanted)) = Following(wire, Wanted)
  BY <1>1, <1>3, Types, StreamRead
<1>5. Head(wire).packet = pushed + 1 /\ pushed + 1 <= sent
  <2>1. wire[1].packet <= sent
    <3>1. 1 \in 1..Len(wire)
      BY <1>2, Types
    <3> QED BY <3>1 DEF WireInv
  <2> QED BY <1>2, <1>3, <1>4, <2>1 DEF Data
<1>6. pushed + 1 \in 0..MaxSends
  BY <1>5, Types
<1>7. /\ incoming' \in Seq(0..MaxSends) /\ Len(incoming') = Len(incoming) + 1
      /\ incoming' = Append(incoming, pushed + 1)
  BY <1>1, <1>5, <1>6, Types, Sent
<1>8. SenderInv'
  BY <1>1, SenderKept
<1>9. WireInv'
  <2>1. \A i \in 1..Len(wire') : wire'[i].packet <= sent'
    <3>1. \A i \in 1..(Len(wire) - 1) : i + 1 \in 1..Len(wire)
      BY Types
    <3> QED BY <1>1, <1>2, <3>1 DEF WireInv, senderVars
  <2>2. After(Wanted) = Size((pushed + 1) + 1)
    BY <1>3 DEF After, Data
  <2>3. Wanted' = After(Wanted)
    BY <1>1, <2>2 DEF Wanted
  <2>4. up' => Upcoming' = Following(wire', Wanted')
    BY <1>1, <1>4, <2>3, UpcomingKept DEF WireInv
  <2> QED BY <1>4, <2>1, <2>3, <2>4 DEF WireInv
<1>10. ReceiverInv'
  <2>1. pushed' - Len(incoming') = pushed - Len(incoming)
    BY <1>1, <1>7, Types
  <2>2. Numbered(incoming', pushed - Len(incoming))
    <3>1. pushed + 1 = (pushed - Len(incoming)) + Len(incoming) + 1 /\ pushed - Len(incoming) \in Int
      BY Types
    <3> QED BY <1>6, <1>7, <3>1, Types, NumberedSent DEF ReceiverInv
  <2>3. pushed' <= sent'
    BY <1>1, <1>5 DEF senderVars
  <2>4. Numbered(handled, 0)'
    BY <1>1 DEF ReceiverInv, Numbered
  <2> QED BY <2>1, <2>2, <2>3, <2>4 DEF ReceiverInv
<1>11. PipeInv'
  <2> DEFINE own == IF ownWrite = "failed" THEN 1 ELSE 0
  <2>1. Given(Errors)' = Given(Errors) /\ own' = own
    BY <1>1 DEF Given
  <2>2. pipe \in Int /\ pushed \in Int /\ Given(Errors) \in Int /\ own \in Int
    BY Types, Errs
  <2>3. pipe <= pushed + Given(Errors) + own
    BY <1>1, <2>2 DEF PipeInv
  <2>4. reader' = "pushed" /\ pipe' = pipe /\ pushed' = pushed + 1
    BY <1>1
  <2>5. PipeInv' <=> pipe' + 1 <= pushed' + Given(Errors)' + 0 + own'
    BY <2>4 DEF PipeInv
  <2> HIDE DEF own
  <2> QED BY <2>1, <2>2, <2>3, <2>4, <2>5
<1> QED BY <1>8, <1>9, <1>10, <1>11

(* ... which is never a size taken for data or data for a size.             *)
LEMMA ReadGarbledNever ==
  ASSUME Base, Until, ReadGarbled PROVE FALSE
<1> USE DEF Base, Until
<1>1. /\ wire # <<>>
      /\ \/ reader = "header" /\ Head(wire).part = "data"
         \/ reader = "body" /\ Head(wire).part = "size"
  BY DEF ReadGarbled, Awaits
<1>2. Head(wire) = Wanted
  BY <1>1, Types, StreamRead DEF WireInv, Reading
<1> QED BY <1>1, <1>2 DEF Wanted, Size, Data

(* The main loop is signalled: for a packet, ...                            *)
LEMMA SignalPacketKeeps ==
  ASSUME Base, Until, ~raced', SignalPacket PROVE Until'
<1> USE DEF Base, Until
<1>1. /\ reader = "pushed" /\ pipe' = pipe + 1 /\ reader' = "header"
      /\ UNCHANGED senderVars
      /\ UNCHANGED <<wire, up, receiverOpen, incoming, handleEvent, handled, buddy, pushed, ownWrite, forced>>
  BY DEF SignalPacket
<1>2. PipeInv'
  BY <1>1, Types, Errs DEF PipeInv, Given
<1>3. SenderInv'
  BY <1>1, SenderKept
<1>4. WireInv'
  <2>1. Wanted' = Wanted /\ Reading /\ Reading'
    BY <1>1 DEF Wanted, Reading
  <2> QED BY <1>1, <2>1, UpcomingKept DEF WireInv, senderVars, Stream, Following
<1>5. ReceiverInv'
  BY <1>1, ReceiverKept DEF senderVars
<1> QED BY <1>2, <1>3, <1>4, <1>5

(* ... for the end of the connection, noticed by a read ...                 *)
LEMMA ReadFailsKeeps ==
  ASSUME Base, Until, ~raced', ReadFails PROVE Until'
<1> USE DEF Base, Until
<1>1. /\ reader \in {"header", "body"}
      /\ ~up \/ ~receiverOpen
      /\ reader' = "closed" /\ receiverOpen' = FALSE
      /\ UNCHANGED senderVars
      /\ UNCHANGED <<wire, up, incoming, pipe, handleEvent, handled, buddy, pushed, ownWrite, forced>>
  BY DEF ReadFails, Awaits
<1>2. ~up
  BY <1>1 DEF EndInv
<1>3. SenderInv'
  BY <1>1, SenderKept
<1>4. WireInv'
  BY <1>1, <1>2 DEF WireInv, senderVars, Reading
<1>5. ReceiverInv'
  BY <1>1, ReceiverKept DEF senderVars
<1>6. PipeInv'
  <2>1. Given(Errors)' = Given(Errors)
    BY <1>1 DEF Given
  <2>2. reader # "pushed" /\ reader # "stopped" /\ reader' # "pushed" /\ reader' # "stopped"
    BY <1>1
  <2> QED BY <1>1, <2>1, <2>2 DEF PipeInv
<1> QED BY <1>3, <1>4, <1>5, <1>6

LEMMA SignalDisconnectKeeps ==
  ASSUME Base, Until, ~raced', SignalDisconnect PROVE Until'
<1> USE DEF Base, Until
<1>1. /\ reader = "closed" /\ pipe' = pipe + 1 /\ reader' = "stopped"
      /\ UNCHANGED senderVars
      /\ UNCHANGED <<wire, up, receiverOpen, incoming, handleEvent, handled, buddy, pushed, ownWrite, forced>>
  BY DEF SignalDisconnect
<1>2. PipeInv'
  BY <1>1, Types, Errs DEF PipeInv, Given
<1>3. SenderInv'
  BY <1>1, SenderKept
<1>4. WireInv'
  BY <1>1 DEF WireInv, senderVars, Reading, EndInv
<1>5. ReceiverInv'
  BY <1>1, ReceiverKept DEF senderVars
<1> QED BY <1>2, <1>3, <1>4, <1>5

(* ... or by a write.                                                       *)
LEMMA OwnWriteFailsKeeps ==
  ASSUME Base, Until, ~raced', OwnWriteFails PROVE Until'
<1> USE DEF Base, Until
<1>1. /\ ownWrite = "ok" /\ ownWrite' = "failing"
      /\ UNCHANGED senderVars
      /\ UNCHANGED <<wire, up, reader, incoming, pipe, handleEvent, handled, buddy, pushed>>
  BY DEF OwnWriteFails
<1>2. SenderInv' /\ WireInv'
  BY <1>1, SenderKept, WireKept
<1>3. ReceiverInv'
  BY <1>1, ReceiverKept DEF senderVars
<1>4. PipeInv'
  BY <1>1 DEF PipeInv, Given
<1> QED BY <1>2, <1>3, <1>4

LEMMA SignalOwnFailureKeeps ==
  ASSUME Base, Until, ~raced', SignalOwnFailure PROVE Until'
<1> USE DEF Base, Until
<1>1. /\ ownWrite = "failing" /\ ownWrite' = "failed" /\ pipe' = pipe + 1
      /\ UNCHANGED senderVars
      /\ UNCHANGED <<wire, up, reader, receiverOpen, incoming, handleEvent, handled, buddy, pushed, forced>>
  BY DEF SignalOwnFailure
<1>2. SenderInv' /\ WireInv'
  BY <1>1, SenderKept, WireKept
<1>3. ReceiverInv'
  BY <1>1, ReceiverKept DEF senderVars
<1>4. PipeInv'
  <2>1. pipe \in Int /\ pushed \in Int /\ Given(Errors) \in Int /\ Given(Errors)' = Given(Errors)
    BY <1>1, Types, Errs DEF Given
  <2> QED BY <1>1, <2>1 DEF PipeInv
<1> QED BY <1>2, <1>3, <1>4
----------------------------------------------------------------------------
(* handleEvent: a signal is taken, ...                                      *)
LEMMA HandleEventKeeps ==
  ASSUME Base, Until, ~raced', HandleEvent PROVE Until'
<1> USE DEF Base, Until
<1>1. /\ pipe > 0 /\ pipe' = pipe - 1
      /\ UNCHANGED senderVars
      /\ UNCHANGED <<wire, up, reader, receiverOpen, incoming, handled, buddy, pushed, ownWrite, forced>>
  BY DEF HandleEvent
<1>2. SenderInv' /\ WireInv'
  BY <1>1, SenderKept, WireKept
<1>3. ReceiverInv'
  BY <1>1, ReceiverKept DEF senderVars
<1>4. PipeInv'
  <2>1. pipe \in Int /\ pushed \in Int /\ Given(Errors) \in Int /\ Given(Errors)' = Given(Errors)
    BY <1>1, Types, Errs DEF Given
  <2> QED BY <1>1, <2>1 DEF PipeInv
<1> QED BY <1>2, <1>3, <1>4

(* ... every packet is taken off the queue and handled, ...                 *)
LEMMA HandleMessageKeeps ==
  ASSUME Base, Until, ~raced', HandleMessage PROVE Until'
<1> USE DEF Base, Until
<1> DEFINE p == Head(incoming)
           error == buddy /\ p \in Errors
<1>1. /\ handleEvent.at = "messages" /\ incoming # <<>> /\ incoming' = Tail(incoming)
      /\ handled' = IF buddy THEN Append(handled, p) ELSE handled
      /\ error => up' = FALSE /\ pipe' = pipe + 1
      /\ ~error => up' = up /\ pipe' = pipe
      /\ UNCHANGED senderVars
      /\ UNCHANGED <<wire, reader, handleEvent, buddy, pushed, ownWrite>>
  BY DEF HandleMessage
<1>2. /\ Len(incoming') = Len(incoming) - 1 /\ Len(incoming) >= 1
      /\ p = (pushed - Len(incoming)) + 1 /\ p \in 0..MaxSends
      /\ Numbered(incoming', (pushed - Len(incoming)) + 1)
  <2>1. pushed - Len(incoming) \in Int
    BY Types
  <2>2. Numbered(incoming, pushed - Len(incoming))
    BY DEF ReceiverInv
  <2>3. incoming \in Seq(0..MaxSends)
    BY Types
  <2>4. /\ Len(Tail(incoming)) = Len(incoming) - 1
        /\ Len(incoming) >= 1 /\ p = incoming[1] /\ incoming[1] \in 0..MaxSends
    BY <1>1, <2>3, Taken
  <2>5. p = (pushed - Len(incoming)) + 1 /\ Numbered(Tail(incoming), (pushed - Len(incoming)) + 1)
    BY <1>1, <2>1, <2>2, <2>3, NumberedTaken
  <2> HIDE DEF p
  <2> QED BY <1>1, <2>4, <2>5
<1> HIDE DEF p
<1>3. buddy => p = Len(handled) + 1
  BY <1>2, Types DEF QueueInv
<1>4. /\ buddy => Len(handled') = Len(handled) + 1
      /\ ~buddy => handled' = handled
  <2>1. Len(Append(handled, p)) = Len(handled) + 1
    BY <1>2, Types, Sent
  <2> QED BY <1>1, <2>1
<1>5. PipeInv'
  <2> DEFINE waiting == IF reader = "pushed" THEN 1 ELSE 0
             stopped == IF reader = "stopped" THEN 1 ELSE 0
             failed  == IF ownWrite = "failed" THEN 1 ELSE 0
  <2>1. /\ pipe \in Int /\ pushed \in Int /\ Given(Errors) \in Int
        /\ waiting \in Int /\ stopped \in Int /\ failed \in Int
    BY Types, Errs
  <2>2. pipe + waiting <= pushed + Given(Errors) + stopped + failed
    BY DEF PipeInv
  <2>3. PipeInv' <=> pipe' + waiting <= pushed + Given(Errors)' + stopped + failed
    BY <1>1 DEF PipeInv
  <2>4. CASE error
    <3>1. Given(Errors)' = Given(Errors) + 1
      <4>1. Len(handled') = Len(handled) + 1 /\ Len(handled) + 1 \in Errors
        BY <1>3, <1>4, <2>4
      <4>2. Errors \cap 1..Len(handled') = (Errors \cap 1..Len(handled)) \cup {Len(handled) + 1}
        <5>1. Len(handled) \in Nat
          BY Types
        <5>2. 1..(Len(handled) + 1) = 1..Len(handled) \cup {Len(handled) + 1}
          BY <5>1
        <5> QED BY <4>1, <5>2
      <4>3. Len(handled) + 1 \notin Errors \cap 1..Len(handled)
        BY Types
      <4>4. IsFiniteSet(Errors \cap 1..Len(handled))
        BY Errs, FS_Subset
      <4> QED BY <4>2, <4>3, <4>4, FS_AddElement DEF Given
    <3>2. pipe' = pipe + 1
      BY <1>1, <2>4
    <3> HIDE DEF error, waiting, stopped, failed
    <3> QED BY <2>1, <2>2, <2>3, <3>1, <3>2
  <2>5. CASE ~error
    <3>1. Given(Errors)' = Given(Errors)
      <4>1. CASE buddy
        <5>1. Len(handled') = Len(handled) + 1 /\ Len(handled) + 1 \notin Errors
          BY <1>3, <1>4, <2>5, <4>1
        <5>2. Errors \cap 1..Len(handled') = Errors \cap 1..Len(handled)
          BY <5>1, Types
        <5> QED BY <5>2 DEF Given
      <4>2. CASE ~buddy
        BY <1>4, <4>2 DEF Given
      <4> QED BY <4>1, <4>2
    <3> QED BY <1>1, <2>5, <3>1 DEF PipeInv
  <2> QED BY <2>4, <2>5
<1>6. up' => up
  BY <1>1
<1>7. SenderInv' /\ WireInv'
  BY <1>1, <1>6, SenderKept, WireKept
<1>8. ReceiverInv'
  <2>1. pushed' - Len(incoming') = (pushed - Len(incoming)) + 1
    BY <1>1, <1>2, Types
  <2>2. Numbered(incoming, pushed - Len(incoming))'
    BY <1>2, <2>1
  <2>3. Numbered(handled, 0)'
    <3>1. Numbered(handled, 0)
      BY DEF ReceiverInv
    <3>2. CASE buddy
      <4>1. handled' = Append(handled, p) /\ p = 0 + Len(handled) + 1
        BY <1>1, <1>3, <3>2, Types
      <4>2. Numbered(Append(handled, p), 0)
        <5>1. handled \in Seq(0..MaxSends) /\ 0 \in Int /\ p \in 0..MaxSends
          BY <1>2, Types
        <5> QED BY <3>1, <4>1, <5>1, NumberedSent
      <4> QED BY <4>1, <4>2
    <3>3. CASE ~buddy
      BY <1>4, <3>1, <3>3
    <3> QED BY <3>2, <3>3
  <2>4. pushed' <= sent'
    BY <1>1 DEF ReceiverInv, senderVars
  <2> QED BY <2>2, <2>3, <2>4 DEF ReceiverInv
<1> QED BY <1>5, <1>7, <1>8

(* ... and the rest of it changes nothing of this part.                     *)
LEMMA RestKeeps ==
  ASSUME Base, Until, ~raced', MessagesDone \/ DropDisconnected PROVE Until'
<1> USE DEF Base, Until
<1>1. /\ UNCHANGED senderVars
      /\ UNCHANGED <<wire, up, reader, incoming, pipe, handled, pushed, ownWrite>>
  BY DEF MessagesDone, DropDisconnected
<1>2. SenderInv' /\ WireInv'
  BY <1>1, SenderKept, WireKept
<1>3. ReceiverInv'
  BY <1>1, ReceiverKept DEF senderVars
<1>4. PipeInv'
  BY <1>1 DEF PipeInv, Given
<1> QED BY <1>2, <1>3, <1>4
----------------------------------------------------------------------------
(* The first part is kept by every step, ...                                *)
LEMMA BaseInductive ==
  ASSUME Base, [Next]_vars PROVE Base'
<1>1. CASE SenderMain \/ SenderSockets \/ Break
  BY <1>1, SenderBase
<1>2. CASE ReceiverSockets \/ OwnWriteFails \/ ReceiverMain
  BY <1>2, ReceiverBase
<1>3. CASE UNCHANGED vars
  <2>1. UNCHANGED senderVars /\ UNCHANGED receiverVars /\ UNCHANGED <<wire, up>>
    BY <1>3 DEF vars
  <2>2. UNCHANGED <<senderOpen, pushed, handled, incoming, buddy, forced>>
    BY <2>1 DEF senderVars, receiverVars
  <2>3. TypeOK'
    BY <2>1 DEF Base, TypeOK, senderVars, receiverVars
  <2>4. QueueInv'
    BY <2>2, QueueKept DEF Base
  <2>5. EndInv'
    BY <2>1, <2>2, EndKept DEF Base, EndInv
  <2> QED BY <2>3, <2>4, <2>5 DEF Base
<1> QED BY <1>1, <1>2, <1>3 DEF Next

(* ... the other one by every step but the race; ...                        *)
LEMMA UntilRace ==
  ASSUME Base, Until, ~raced', [Next]_vars PROVE Until'
<1>1. CASE SenderMain
  BY <1>1, CheckInProgressKeeps, PushBackKeeps, StartWriteKeeps DEF SenderMain
<1>2. CASE SenderSockets
  BY <1>2, WriteHeaderHandlerKeeps, PopFrontKeeps, WriteNextKeeps, WriteFailsKeeps DEF SenderSockets
<1>3. CASE Break
  BY <1>3, BreakKeeps
<1>4. CASE ReceiverSockets \/ OwnWriteFails
  BY <1>4, ReadHeaderKeeps, ReadBodyKeeps, ReadGarbledNever, SignalPacketKeeps, ReadFailsKeeps,
     SignalDisconnectKeeps, SignalOwnFailureKeeps, OwnWriteFailsKeeps
     DEF ReceiverSockets
<1>5. CASE ReceiverMain
  BY <1>5, HandleEventKeeps, HandleMessageKeeps, RestKeeps DEF ReceiverMain
<1>6. CASE UNCHANGED vars
  <2>1. UNCHANGED senderVars /\ UNCHANGED receiverVars /\ UNCHANGED <<wire, up>>
    BY <1>6 DEF vars
  <2>2. UNCHANGED <<sent, reader, pushed, handled, incoming>>
    BY <2>1 DEF senderVars, receiverVars
  <2> QED BY <2>1, <2>2, SenderKept, WireKept, ReceiverKept, PipeKept DEF Until
<1> QED BY <1>1, <1>2, <1>3, <1>4, <1>5, <1>6 DEF Next

(* ... and a race is not forgotten.                                         *)
LEMMA RacedStays ==
  ASSUME raced, [Next]_vars PROVE raced'
BY DEF Next, vars, senderVars, SenderMain, SenderSockets, ReceiverSockets, ReceiverMain,
       CheckInProgress, PushBack, StartWrite, WriteHeaderHandler, PopFront, WriteNext, WriteFails,
       Break, ReadHeader, ReadBody, ReadGarbled, SignalPacket, ReadFails, SignalDisconnect,
       OwnWriteFails, SignalOwnFailure, HandleEvent, HandleMessage, MessagesDone, DropDisconnected

LEMMA Parts ==
  IInv <=> Base /\ (raced \/ Until)
BY DEF IInv, Base, Until

THEOREM IInvInductive ==
  IInv /\ [Next]_vars => IInv'
<1> SUFFICES ASSUME IInv, [Next]_vars PROVE Base' /\ (raced' \/ Until')
  BY DEF IInv, Base, Until
<1>1. Base /\ (raced \/ Until)
  BY Parts
<1> QED BY <1>1, BaseInductive, UntilRace, RacedStays

(* The two sides and the connection between them fit together, in every     *)
(* reachable state, for any number of packets, of oversized ones and of     *)
(* protocol errors (Session, TCPAccountHandler::handleEvent), and however   *)
(* the four threads interleave: what the receiver holds always, what the    *)
(* sender and the connection hold until the race of asyncWrite and          *)
(* asyncWriteHandler.                                                       *)
THEOREM AlwaysIInv ==
  Spec => []IInv
<1>1. Init => IInv
  BY StartBase, StartUntil, Parts
<1> QED BY <1>1, IInvInductive, PTL DEF Spec

(* "writeInProgress" of asyncWrite is right: the first packet of the queue  *)
(* is written and no other, and only an empty queue is not written,         *)
(* whatever asyncWrite and asyncWriteHandler do at the same time except for *)
(* one thing: a check while the last packet is taken off the queue.         *)
THEOREM AlwaysOneWriteUntilRace ==
  Spec => []OneWriteUntilRace
<1>1. IInv => OneWriteUntilRace
  <2> SUFFICES ASSUME IInv, ~raced, asyncWrite.at = "idle", ~popped, senderOpen
               PROVE  IF outgoing = <<>>
                        THEN writes = <<>>
                        ELSE /\ packetWrite = Head(outgoing)
                             /\ writes \in {<<Size(packetWrite)>>, <<Data(packetWrite)>>}
    BY DEF OneWriteUntilRace, OneWriteInProgress
  <2>1. Writing <=> outgoing # <<>>
    BY DEF Writing, Starting
  <2> QED BY <2>1 DEF IInv, SenderInv
<1> QED BY <1>1, AlwaysIInv, PTL

(* handleEvent asks for the connection before it empties the queue, so a    *)
(* sender that is dropped has had every packet handled that came before the *)
(* end, unless the receiver has closed the socket himself, on a protocol    *)
(* error or a failed write. Whatever the sender's threads do to the stream. *)
THEOREM AlwaysHandledBeforeDropped ==
  Spec => []HandledBeforeDropped
<1>1. IInv => HandledBeforeDropped
  <2> SUFFICES ASSUME IInv, ~buddy, ~forced PROVE Len(handled) = pushed
    BY DEF HandledBeforeDropped
  <2>1. incoming = <<>>
    BY DEF IInv, EndInv
  <2>2. Len(incoming) = 0 /\ Len(handled) \in Nat
    BY <2>1, EmptySeq, Types DEF IInv
  <2>3. Len(handled) + Len(incoming) = pushed
    BY DEF IInv, QueueInv
  <2> QED BY <2>2, <2>3
<1> QED BY <1>1, AlwaysIInv, PTL
----------------------------------------------------------------------------
(* The packets sent, in order: one more is sent at the end; the next of     *)
(* those handled is the one of that number.                                 *)
LEMMA Counted ==
  ASSUME NEW n \in Nat
  PROVE  /\ [i \in 1..n |-> i] \in Seq(Nat) /\ Len([i \in 1..n |-> i]) = n
         /\ [i \in 1..(n + 1) |-> i] = Append([i \in 1..n |-> i], n + 1)
<1> DEFINE c(m) == [i \in 1..m |-> i]
<1>1. ASSUME NEW m \in Nat
      PROVE  c(m) \in Seq(Nat) /\ Len(c(m)) = m /\ \A i \in 1..m : c(m)[i] = i
  <2>1. c(m) \in [1..m -> Nat]
    OBVIOUS
  <2>2. c(m) \in Seq(Nat)
    BY <2>1, SeqDef
  <2>3. DOMAIN c(m) = 1..Len(c(m)) /\ Len(c(m)) \in Nat
    BY <2>2, LenProperties
  <2>4. Len(c(m)) = m
    BY <2>3
  <2> QED BY <2>2, <2>4
<1> HIDE DEF c
<1>2. n + 1 \in Nat
  OBVIOUS
<1>3. /\ c(n) \in Seq(Nat) /\ Len(c(n)) = n /\ \A i \in 1..n : c(n)[i] = i
      /\ c(n + 1) \in Seq(Nat) /\ Len(c(n + 1)) = n + 1 /\ \A i \in 1..(n + 1) : c(n + 1)[i] = i
  BY <1>1, <1>2
<1>4. /\ Append(c(n), n + 1) \in Seq(Nat) /\ Len(Append(c(n), n + 1)) = n + 1
      /\ \A i \in 1..n : Append(c(n), n + 1)[i] = i /\ Append(c(n), n + 1)[n + 1] = n + 1
  BY <1>2, <1>3, Sent
<1>5. \A i \in 1..(n + 1) : Append(c(n), n + 1)[i] = c(n + 1)[i]
  BY <1>3, <1>4
<1>6. c(n + 1) = Append(c(n), n + 1)
  BY <1>3, <1>4, <1>5, SeqEqual
<1> QED BY <1>3, <1>6 DEF c

(* A new connection is an empty channel.                                    *)
LEMMA StartChannel ==
  Init => Channel!Init
<1> SUFFICES ASSUME Init PROVE Channel!Init
  OBVIOUS
<1>1. sent \in Nat /\ sent = 0
  BY DEF Init
<1>2. [i \in 1..sent |-> i] \in Seq(Nat) /\ Len([i \in 1..sent |-> i]) = sent
  BY <1>1, Counted
<1>3. [i \in 1..sent |-> i] = <<>>
  BY <1>1, <1>2, Lengths
<1> QED BY <1>3 DEF Channel!Init, Init

(* Every step is a step of the channel or none: asyncWrite sends, the       *)
(* handling of a message delivers the oldest one, and handleEvent drops.    *)
LEMMA StepChannel ==
  ASSUME Base, Until, [Next]_vars PROVE Channel!Next \/ UNCHANGED <<sent, handled, buddy>>
<1> DEFINE all == [i \in 1..sent |-> i]
<1> USE DEF Base, Until
<1>0. /\ sent \in Nat /\ all \in Seq(Nat) /\ Len(all) = sent
      /\ \A i \in 1..sent : all[i] = i
  <2>1. sent \in Nat
    BY Types
  <2>2. all \in Seq(Nat) /\ Len(all) = sent
    BY <2>1, Counted
  <2> QED BY <2>1, <2>2
<1>1. CASE CheckInProgress
  <2>1. /\ sent' = sent + 1 /\ sent + 1 \in 1..MaxSends
        /\ UNCHANGED <<handled, buddy>>
    BY <1>1, Types DEF CheckInProgress, receiverVars
  <2>2. [i \in 1..sent' |-> i] = Append(all, sent + 1)
    BY <1>0, <2>1, Counted
  <2> QED BY <2>1, <2>2 DEF Channel!Next, Channel!Send
<1>2. CASE HandleMessage /\ buddy
  <2>1. /\ incoming # <<>> /\ handled' = Append(handled, Head(incoming))
        /\ UNCHANGED <<sent, buddy>>
    BY <1>2 DEF HandleMessage, senderVars
  <2>2. /\ Len(handled) \in Nat /\ pushed - Len(incoming) \in Int /\ Len(incoming) >= 1
        /\ Head(incoming) = (pushed - Len(incoming)) + 1
        /\ pushed <= sent /\ Len(handled) + Len(incoming) = pushed
    <3>1. /\ incoming \in Seq(0..MaxSends) /\ Len(handled) \in Nat
          /\ Len(incoming) \in Nat /\ pushed \in Int
      BY Types
    <3>2. /\ Numbered(incoming, pushed - Len(incoming)) /\ pushed <= sent
          /\ Len(handled) + Len(incoming) = pushed
      BY <1>2 DEF ReceiverInv, QueueInv
    <3>3. Head(incoming) = (pushed - Len(incoming)) + 1 /\ Len(incoming) >= 1
      BY <2>1, <3>1, <3>2, NumberedTaken, Taken
    <3> QED BY <3>1, <3>2, <3>3
  <2>3. Head(incoming) = Len(handled) + 1 /\ Len(handled) < sent
    BY <1>0, <2>2, Types
  <2>4. all[Len(handled) + 1] = Len(handled) + 1
    BY <1>0, <2>2, <2>3
  <2>5. Len(handled) < Len(all) /\ handled' = Append(handled, all[Len(handled) + 1])
    BY <1>0, <2>1, <2>3, <2>4
  <2> QED BY <1>2, <2>1, <2>5 DEF Channel!Next, Channel!Deliver
<1>3. CASE HandleMessage /\ ~buddy
  BY <1>3 DEF HandleMessage, senderVars
<1>4. CASE DropDisconnected
  <2>1. UNCHANGED <<sent, handled>> /\ buddy' = (buddy /\ ~handleEvent.disconnected)
    BY <1>4 DEF DropDisconnected, senderVars
  <2>2. CASE buddy /\ handleEvent.disconnected
    <3>1. buddy /\ buddy' = FALSE
      BY <2>1, <2>2
    <3> QED BY <2>1, <3>1 DEF Channel!Next, Channel!Drop
  <2>3. CASE ~(buddy /\ handleEvent.disconnected)
    <3>1. buddy' = buddy
      BY <2>1, <2>3, Types DEF TypeOK
    <3> QED BY <2>1, <3>1
  <2> QED BY <2>2, <2>3
<1>5. \/ CheckInProgress \/ HandleMessage \/ DropDisconnected
      \/ UNCHANGED <<sent, handled, buddy>>
  BY DEF Next, SenderMain, SenderSockets, ReceiverSockets, ReceiverMain, vars, senderVars, receiverVars,
         PushBack, StartWrite, WriteHeaderHandler, PopFront, WriteNext, WriteFails, Break,
         ReadHeader, ReadBody, ReadGarbled, SignalPacket, ReadFails, SignalDisconnect,
         OwnWriteFails, SignalOwnFailure, HandleEvent, MessagesDone
<1> QED BY <1>1, <1>2, <1>3, <1>4, <1>5

(* What the session code sees of a connection, its sockets, threads and     *)
(* pipe, is the safety part of FifoChannel until the race of asyncWrite and *)
(* asyncWriteHandler: packets are handled once, in order and without a gap, *)
(* until the sender is dropped.                                             *)
THEOREM ImplementsChannel ==
  Spec => ChannelUntilRace
<1>1. IInv /\ [Next]_vars => [raced' \/ Channel!Next \/ UNCHANGED <<sent, handled, buddy>>]_vars
  BY Parts, StepChannel, RacedStays
<1> QED BY <1>1, AlwaysIInv, StartChannel, PTL DEF Spec, ChannelUntilRace
============================================================================
