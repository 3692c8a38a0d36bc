---------------------------- MODULE TcpSession -----------------------------
(***************************************************************************)
(* One direction of a TCP connection between two AbiWords                  *)
(* (backends/tcp/xp/Session.h, TCPAccountHandler::handleEvent, the         *)
(* self-pipe of Synchronizer). Four threads take part: the main loop of    *)
(* the sender and the thread of his sockets, which share the deque         *)
(* `outgoing' without a lock, and the thread of the sockets and the main   *)
(* loop of the receiver, which share `incoming' and the pipe.              *)
(*                                                                         *)
(* The n-th packet given to asyncWrite is the number n. Nothing keeps      *)
(* asyncWrite and asyncWriteHandler apart ("this is a race condition, mutex *)
(* this"): every interleaving of their accesses to `outgoing' is allowed.  *)
(* Most do no harm. The ones that do have the last packet taken off the    *)
(* queue while asyncWrite looks at it, which `raced' records; afterwards   *)
(* the receiver may read garbage, the packet 0.                            *)
(***************************************************************************)
EXTENDS Integers, Sequences, FiniteSets

CONSTANTS
  MaxSends,        (* bound: packets sent *)
  Huge,            (* packets above MAX_PACKET_DATA_SIZE *)
  Errors           (* ProtocolErrorPackets: the receiver disconnects *)

ASSUME BoundsAssumption == MaxSends \in Nat
ASSUME PacketsAssumption == Huge \subseteq 1..MaxSends /\ Errors \subseteq 1..MaxSends

VARIABLES
  sent,            (* packets given to asyncWrite so far *)
  asyncWrite,      (* where the sender's main loop is in it *)
  outgoing,        (* Session::outgoing *)
  packetWrite,     (* packet_size_write, packet_data_write; 0: NULL *)
  writes,          (* asio::async_write operations under way *)
  popped,          (* asyncWriteHandler is between pop_front and size() *)
  senderOpen,      (* the sender's socket is open *)
  raced,           (* history: asyncWriteHandler took the last packet off the *)
                   (* queue while asyncWrite looked at it *)
  wire,            (* sizes and data in the connection *)
  up,              (* the connection still takes data *)
  reader,          (* what the receiver's socket thread does *)
  receiverOpen,    (* the receiver's socket is open *)
  incoming,        (* Session::incoming *)
  pipe,            (* bytes in the Synchronizer's pipe *)
  handleEvent,     (* where the receiver's main loop is in it *)
  handled,         (* packets given to handleMessage, in order *)
  buddy,           (* the sender is in the receiver's m_clients *)
  pushed,          (* history: packets ever pushed on incoming *)
  ownWrite,        (* a write of the receiver: "ok"; it has failed and its *)
                   (* handler is at work, "failing"; "failed" *)
  forced           (* history: the receiver closed the socket himself, on a *)
                   (* protocol error or a failed write of his own *)

senderVars == <<sent, asyncWrite, outgoing, packetWrite, writes, popped, senderOpen, raced>>
receiverVars == <<reader, receiverOpen, incoming, pipe, handleEvent, handled, buddy, pushed, ownWrite, forced>>
vars == <<senderVars, wire, up, receiverVars>>

Size(p) == [part |-> "size", packet |-> p]
Data(p) == [part |-> "data", packet |-> p]

Idle == [at |-> "idle", inProgress |-> FALSE]

Init ==
  /\ sent = 0 /\ asyncWrite = Idle
  /\ outgoing = <<>> /\ packetWrite = 0 /\ writes = <<>> /\ popped = FALSE
  /\ senderOpen = TRUE /\ raced = FALSE
  /\ wire = <<>> /\ up = TRUE
  /\ reader = "header" /\ receiverOpen = TRUE
  /\ incoming = <<>> /\ pipe = 0
  /\ handleEvent = [at |-> "idle", disconnected |-> FALSE]
  /\ handled = <<>> /\ buddy = TRUE
  /\ pushed = 0 /\ ownWrite = "ok" /\ forced = FALSE
----------------------------------------------------------------------------
(* The sender's main loop: Session::asyncWrite *)

(* bool writeInProgress = outgoing.size() > 0; perhaps just when            *)
(* asyncWriteHandler has taken the last packet and not looked yet           *)
CheckInProgress ==
  /\ asyncWrite.at = "idle"
  /\ sent < MaxSends
  /\ sent' = sent + 1
  /\ asyncWrite' = [at |-> "checked", inProgress |-> outgoing # <<>>]
  /\ raced' = (raced \/ (popped /\ outgoing = <<>>))
  /\ UNCHANGED <<outgoing, packetWrite, writes, popped, senderOpen, wire, up, receiverVars>>

(* outgoing.push_back(...) *)
PushBack ==
  /\ asyncWrite.at = "checked"
  /\ outgoing' = Append(outgoing, sent)
  /\ asyncWrite' = [asyncWrite EXCEPT !.at = "pushed"]
  /\ UNCHANGED <<sent, packetWrite, writes, popped, senderOpen, raced, wire, up, receiverVars>>

(* slip: always start to write *)
StartWriteSlip ==
  /\ asyncWrite.at = "pushed"
  /\ asyncWrite' = Idle
  /\ packetWrite' = sent
  /\ writes' = Append(writes, Size(sent))
  /\ UNCHANGED <<sent, outgoing, popped, senderOpen, raced, wire, up, receiverVars>>

(* if (!writeInProgress) start to write the size of this packet *)
StartWrite ==
  /\ asyncWrite.at = "pushed"
  /\ asyncWrite' = Idle
  /\ IF asyncWrite.inProgress
       THEN UNCHANGED <<packetWrite, writes>>
       ELSE /\ packetWrite' = sent
            /\ writes' = Append(writes, Size(sent))
  /\ UNCHANGED <<sent, outgoing, popped, senderOpen, raced, wire, up, receiverVars>>
----------------------------------------------------------------------------
(* The sender's socket thread. A write and its completion are one step: the *)
(* buffer of a size is the member packet_size_write, read when written.     *)

WriteHeaderHandler ==
  /\ senderOpen /\ up /\ ~popped
  /\ writes # <<>> /\ Head(writes).part = "size"
  /\ wire' = Append(wire, Size(packetWrite))
  /\ writes' = Append(Tail(writes), Data(packetWrite))
  /\ UNCHANGED <<sent, asyncWrite, outgoing, packetWrite, popped, senderOpen, raced, up, receiverVars>>

(* FREEP(packet_data_write); outgoing.pop_front(); perhaps of the packet     *)
(* for which asyncWrite has seen a write in progress. (After a race the     *)
(* queue may be empty here: the sender crashes, as in Break.)               *)
PopFront ==
  /\ senderOpen /\ up /\ ~popped
  /\ writes # <<>> /\ Head(writes).part = "data" /\ outgoing # <<>>
  /\ wire' = Append(wire, Head(writes))
  /\ writes' = Tail(writes)
  /\ packetWrite' = 0
  /\ outgoing' = Tail(outgoing)
  /\ popped' = TRUE
  /\ raced' = (raced \/ (asyncWrite.at = "checked" /\ Len(outgoing) = 1))
  /\ UNCHANGED <<sent, asyncWrite, senderOpen, up, receiverVars>>

(* slip: the next packet waits for the next call of asyncWrite *)
WriteNextSlip ==
  /\ popped
  /\ popped' = FALSE
  /\ UNCHANGED <<sent, asyncWrite, outgoing, packetWrite, writes, senderOpen, raced, wire, up, receiverVars>>

(* if (outgoing.size() > 0) start to write the size of the front *)
WriteNext ==
  /\ popped
  /\ popped' = FALSE
  /\ IF outgoing = <<>>
       THEN UNCHANGED <<packetWrite, writes>>
       ELSE /\ packetWrite' = Head(outgoing)
            /\ writes' = Append(writes, Size(Head(outgoing)))
  /\ UNCHANGED <<sent, asyncWrite, outgoing, senderOpen, raced, wire, up, receiverVars>>

(* A write that fails: disconnect(). After a failed write of data the       *)
(* memory is free; outgoing keeps what it has.                              *)
WriteFails ==
  /\ writes # <<>> /\ ~popped
  /\ ~senderOpen \/ ~up
  /\ writes' = Tail(writes)
  /\ packetWrite' = IF Head(writes).part = "data" THEN 0 ELSE packetWrite
  /\ senderOpen' = FALSE
  /\ up' = FALSE
  /\ UNCHANGED <<sent, asyncWrite, outgoing, popped, raced, wire, receiverVars>>
----------------------------------------------------------------------------
(* The connection *)

(* It breaks, or the sender quits: of what is under way a prefix arrives.   *)
Break ==
  /\ up
  /\ up' = FALSE
  /\ \E n \in 0..Len(wire) : wire' = SubSeq(wire, 1, n)
  /\ \/ senderOpen' = FALSE
     \/ UNCHANGED senderOpen
  /\ UNCHANGED <<sent, asyncWrite, outgoing, packetWrite, writes, popped, raced, receiverVars>>
----------------------------------------------------------------------------
(* The receiver's socket thread: one handler after the other *)

Awaits(part) == reader = part /\ ownWrite # "failing"

(* asyncReadHeaderHandler: the body next, unless the size is not allowed *)
ReadHeader ==
  /\ Awaits("header") /\ receiverOpen
  /\ wire # <<>> /\ Head(wire).part = "size"
  /\ wire' = Tail(wire)
  /\ IF Head(wire).packet \in Huge
       THEN /\ reader' = "closed"
            /\ receiverOpen' = FALSE
            /\ up' = FALSE
       ELSE /\ reader' = "body"
            /\ UNCHANGED <<receiverOpen, up>>
  /\ UNCHANGED <<senderVars, incoming, pipe, handleEvent, handled, buddy, pushed, ownWrite, forced>>

(* asyncReadHandler, up to the push_back in push. The read may have been    *)
(* completed just before the main loop closed the socket.                   *)
ReadBody ==
  /\ Awaits("body")
  /\ wire # <<>> /\ Head(wire).part = "data"
  /\ wire' = Tail(wire)
  /\ incoming' = Append(incoming, Head(wire).packet)
  /\ pushed' = pushed + 1
  /\ reader' = "pushed"
  /\ UNCHANGED <<senderVars, up, receiverOpen, pipe, handleEvent, handled, buddy, ownWrite, forced>>

(* After a race sizes and data need not alternate. The same two handlers    *)
(* take data for a size, which is allowed or not, or what follows a size    *)
(* for data; bound: an item of the connection is taken whole.               *)
ReadGarbled ==
  /\ wire # <<>> /\ wire' = Tail(wire)
  /\ \/ /\ Awaits("header") /\ receiverOpen /\ Head(wire).part = "data"
        /\ \/ /\ reader' = "closed"
              /\ receiverOpen' = FALSE
              /\ up' = FALSE
           \/ /\ reader' = "body"
              /\ UNCHANGED <<receiverOpen, up>>
        /\ UNCHANGED <<incoming, pushed>>
     \/ /\ Awaits("body") /\ Head(wire).part = "size"
        /\ reader' = "pushed"
        /\ incoming' = Append(incoming, 0)
        /\ pushed' = pushed + 1
        /\ UNCHANGED <<receiverOpen, up>>
  /\ UNCHANGED <<senderVars, pipe, handleEvent, handled, buddy, ownWrite, forced>>

(* the signal at the end of push, then asyncReadHeader *)
SignalPacket ==
  /\ reader = "pushed"
  /\ pipe' = pipe + 1
  /\ reader' = "header"
  /\ UNCHANGED <<senderVars, wire, up, receiverOpen, incoming, handleEvent, handled, buddy, pushed, ownWrite, forced>>

(* A read that fails: the other end is gone or the socket was closed. The   *)
(* socket is closed by disconnect() ...                                     *)
ReadFails ==
  /\ Awaits("header") \/ Awaits("body")
  /\ \/ ~up /\ wire = <<>>
     \/ ~receiverOpen
  /\ reader' = "closed"
  /\ receiverOpen' = FALSE
  /\ UNCHANGED <<senderVars, wire, up, incoming, pipe, handleEvent, handled, buddy, pushed, ownWrite, forced>>

(* slip: no signal *)
SignalDisconnectSlip ==
  /\ reader = "closed"
  /\ reader' = "stopped"
  /\ UNCHANGED <<senderVars, wire, up, receiverOpen, incoming, pipe, handleEvent, handled, buddy, pushed, ownWrite, forced>>

(* ... which then signals the main loop. Nothing reads any more.            *)
SignalDisconnect ==
  /\ reader = "closed"
  /\ pipe' = pipe + 1
  /\ reader' = "stopped"
  /\ UNCHANGED <<senderVars, wire, up, receiverOpen, incoming, handleEvent, handled, buddy, pushed, ownWrite, forced>>

(* A write of the receiver fails as the connection is broken: its handler   *)
(* closes the socket, whatever is read by now, ...                          *)
OwnWriteFails ==
  /\ ownWrite = "ok" /\ ~up
  /\ reader \in {"header", "body", "stopped"}
  /\ receiverOpen' = FALSE
  /\ forced' = (forced \/ receiverOpen)
  /\ ownWrite' = "failing"
  /\ UNCHANGED <<senderVars, wire, up, reader, incoming, pipe, handleEvent, handled, buddy, pushed>>

(* ... and signals the main loop. *)
SignalOwnFailure ==
  /\ ownWrite = "failing"
  /\ pipe' = pipe + 1
  /\ ownWrite' = "failed"
  /\ UNCHANGED <<senderVars, wire, up, reader, receiverOpen, incoming, handleEvent, handled, buddy, pushed, forced>>
----------------------------------------------------------------------------
(* The receiver's main loop *)

(* Synchronizer::callMainloop takes a byte, handleEvent asks isConnected    *)
HandleEvent ==
  /\ handleEvent.at = "idle"
  /\ pipe > 0
  /\ pipe' = pipe - 1
  /\ handleEvent' = [at |-> "messages", disconnected |-> ~receiverOpen]
  /\ UNCHANGED <<senderVars, wire, up, reader, receiverOpen, incoming, handled, buddy, pushed, ownWrite, forced>>

(* One turn of _handleMessages: pop, and handleMessage unless the sender is *)
(* not a buddy any more. A protocol error closes the socket at once.        *)
HandleMessage ==
  /\ handleEvent.at = "messages"
  /\ incoming # <<>>
  /\ incoming' = Tail(incoming)
  /\ handled' = IF buddy THEN Append(handled, Head(incoming)) ELSE handled
  /\ IF buddy /\ Head(incoming) \in Errors
       THEN /\ receiverOpen' = FALSE
            /\ up' = FALSE
            /\ pipe' = pipe + 1
            /\ forced' = TRUE
       ELSE UNCHANGED <<receiverOpen, up, pipe, forced>>
  /\ UNCHANGED <<senderVars, wire, reader, handleEvent, buddy, pushed, ownWrite>>

(* The queue is empty: the loop ends. *)
MessagesDone ==
  /\ handleEvent.at = "messages"
  /\ incoming = <<>>
  /\ handleEvent' = [handleEvent EXCEPT !.at = "handled"]
  /\ UNCHANGED <<senderVars, wire, up, reader, receiverOpen, incoming, pipe, handled, buddy, pushed, ownWrite, forced>>

(* slip: isConnected() is asked after the messages *)
DropDisconnectedSlip ==
  /\ handleEvent.at = "handled"
  /\ buddy' = (buddy /\ receiverOpen)
  /\ handleEvent' = [at |-> "idle", disconnected |-> FALSE]
  /\ UNCHANGED <<senderVars, wire, up, reader, receiverOpen, incoming, pipe, handled, pushed, ownWrite, forced>>

(* The rest of handleEvent, whatever has been pushed meanwhile *)
DropDisconnected ==
  /\ handleEvent.at = "handled"
  /\ buddy' = (buddy /\ ~handleEvent.disconnected)
  /\ handleEvent' = [at |-> "idle", disconnected |-> FALSE]
  /\ UNCHANGED <<senderVars, wire, up, reader, receiverOpen, incoming, pipe, handled, pushed, ownWrite, forced>>
----------------------------------------------------------------------------
SenderMain == CheckInProgress \/ PushBack \/ StartWrite
SenderSockets == WriteHeaderHandler \/ PopFront \/ WriteNext \/ WriteFails
ReceiverSockets ==
  \/ ReadHeader \/ ReadBody \/ ReadGarbled \/ SignalPacket \/ ReadFails \/ SignalDisconnect
  \/ SignalOwnFailure
ReceiverMain == HandleEvent \/ HandleMessage \/ MessagesDone \/ DropDisconnected

Next == SenderMain \/ SenderSockets \/ Break \/ ReceiverSockets \/ OwnWriteFails \/ ReceiverMain

Spec == Init /\ [][Next]_vars

(* Threads and main loops run on; a new packet, a break and a failed write   *)
(* of the receiver need not come.                                           *)
FairSpec ==
  /\ Spec
  /\ WF_vars(PushBack \/ StartWrite)
  /\ WF_vars(SenderSockets)
  /\ WF_vars(ReceiverSockets)
  /\ WF_vars(ReceiverMain)
----------------------------------------------------------------------------
(* Properties *)

(* The invariant of the module: what the variables hold, race or not.       *)
Item == [part : {"size", "data"}, packet : 0..MaxSends]

TypeOK ==
  /\ sent \in 0..MaxSends
  /\ asyncWrite \in [at : {"idle", "checked", "pushed"}, inProgress : BOOLEAN]
  /\ asyncWrite.at # "idle" => sent > 0
  /\ outgoing \in Seq(1..MaxSends) /\ packetWrite \in 0..MaxSends
  /\ writes \in Seq(Item) /\ wire \in Seq(Item)
  /\ popped \in BOOLEAN /\ senderOpen \in BOOLEAN /\ raced \in BOOLEAN /\ up \in BOOLEAN
  /\ receiverOpen \in BOOLEAN /\ buddy \in BOOLEAN /\ forced \in BOOLEAN
  /\ reader \in {"header", "body", "pushed", "closed", "stopped"}
  /\ ownWrite \in {"ok", "failing", "failed"}
  /\ handleEvent \in [at : {"idle", "messages", "handled"}, disconnected : BOOLEAN]
  /\ incoming \in Seq(0..MaxSends) /\ handled \in Seq(0..MaxSends)
  /\ pipe \in Nat /\ pushed \in Nat

(* "writeInProgress" says what its name says: between two calls a sender    *)
(* with packets in his queue writes exactly one of them, the first, and one *)
(* without writes nothing (Session.h:103, :239).                            *)
OneWriteInProgress ==
  asyncWrite.at = "idle" /\ ~popped /\ senderOpen =>
    IF outgoing = <<>>
      THEN writes = <<>>
      ELSE /\ packetWrite = Head(outgoing)
           /\ writes \in {<<Size(packetWrite)>>, <<Data(packetWrite)>>}

(* That needs the mutex neither of the two has, yet of all the ways in      *)
(* which they may overlap only one hurts: asyncWrite asks for a write in    *)
(* progress while asyncWriteHandler takes the last packet off the queue.    *)
OneWriteUntilRace == raced \/ OneWriteInProgress

(* "make sure we have handled _all_ packets in the queue before checking    *)
(* the disconnected status": a sender is dropped only after every packet    *)
(* that came before the end of the connection has been handled, unless the  *)
(* receiver himself closed it.                                              *)
HandledBeforeDropped == ~buddy /\ ~forced => Len(handled) = pushed

(* Whoever breaks the connection, the receiver drops the sender: the signal *)
(* that follows the close is not lost among those of the packets.           *)
EndIsNoticed == ~up ~> ~buddy

(* The session code's view of the connection: packets come once, in order   *)
(* and, as long as the sender is a buddy, all of them, until the sender     *)
(* races with himself.                                                      *)
Channel == INSTANCE FifoChannel WITH
  Packets <- 1..MaxSends, sent <- [n \in 1..sent |-> n], received <- handled, known <- buddy

ChannelUntilRace ==
  /\ Channel!Init
  /\ [][raced' \/ Channel!Next \/ UNCHANGED <<sent, handled, buddy>>]_vars

ChannelSpec == ChannelUntilRace /\ ([]~raced => Channel!Delivery)
----------------------------------------------------------------------------
(* The invariant that these properties need to be inductive: a part for the *)
(* receiver, whatever he is sent, and one for both until the race.          *)

(* What was pushed is handled or waits in the queue of the receiver, unless *)
(* he has closed the connection and dropped the sender.                     *)
QueueInv ==
  /\ Len(handled) + Len(incoming) <= pushed
  /\ buddy \/ ~forced => Len(handled) + Len(incoming) = pushed

(* The end of the connection: whoever has noticed it, it is over for those  *)
(* before him, and unless the receiver forced it nothing is pushed any more.*)
Reading == reader \in {"header", "body", "pushed"}

EndInv ==
  /\ up => senderOpen /\ receiverOpen
  /\ receiverOpen => Reading
  /\ Reading => receiverOpen \/ forced
  /\ handleEvent.disconnected \/ ~buddy => ~receiverOpen
  /\ handleEvent.disconnected /\ handleEvent.at = "handled" => incoming = <<>> \/ forced
  /\ ~buddy => incoming = <<>> \/ forced

(* A queue of packets numbered from n + 1 on.                               *)
Numbered(queue, n) == \A i \in 1..Len(queue) : queue[i] = n + i

(* The connection: sizes and data in turn, packet after packet. What comes  *)
(* after an item; a stream that starts with "first"; what comes after it.   *)
After(item) == IF item.part = "size" THEN Data(item.packet) ELSE Size(item.packet + 1)

Stream(items, first) ==
  /\ items # <<>> => items[1] = first
  /\ \A i \in 1..(Len(items) - 1) : items[i + 1] = After(items[i])

Following(items, first) == IF items = <<>> THEN first ELSE After(items[Len(items)])

(* What the receiver reads next; what the sender, having taken "Written"    *)
(* packets off his queue so far, writes next.                               *)
Wanted   == IF reader = "body" THEN Data(pushed + 1) ELSE Size(pushed + 1)
Queued   == IF asyncWrite.at = "checked" THEN sent - 1 ELSE sent
Written  == Queued - Len(outgoing)
Upcoming == IF writes # <<>> /\ Head(writes).part = "data" THEN Data(Written + 1) ELSE Size(Written + 1)

(* A packet is being written unless one of the two functions is about to    *)
(* start that.                                                              *)
Starting == asyncWrite.at = "pushed" /\ ~asyncWrite.inProgress
Writing  == outgoing # <<>> /\ ~popped /\ ~Starting

(* The queue of the sender holds the newest packets, and one of them, the   *)
(* first, is written whenever asyncWrite believes so.                       *)
SenderInv ==
  /\ Written >= 0 /\ Numbered(outgoing, Written)
  /\ asyncWrite.at = "checked" => (asyncWrite.inProgress <=> outgoing # <<>>)
  /\ asyncWrite.at = "checked" /\ popped => asyncWrite.inProgress
  /\ Starting => Len(outgoing) = 1 /\ ~popped
  /\ senderOpen =>
       IF Writing THEN /\ packetWrite = Head(outgoing)
                       /\ writes \in {<<Size(packetWrite)>>, <<Data(packetWrite)>>}
                  ELSE writes = <<>>

(* The connection holds what is between the receiver and the sender; once   *)
(* it is broken, some of it.                                                *)
WireInv ==
  /\ \A i \in 1..Len(wire) : wire[i].packet <= sent
  /\ Reading => Stream(wire, Wanted)
  /\ up => Upcoming = Following(wire, Wanted)

(* The receiver has the first packets, in order.                            *)
ReceiverInv ==
  /\ pushed <= sent
  /\ Numbered(incoming, pushed - Len(incoming)) /\ Numbered(handled, 0)

(* No more bytes are in the pipe than signals were given: for packets, for  *)
(* protocol errors and for the ends of the two directions.                  *)
Given(kind) == Cardinality(kind \cap 1..Len(handled))
PipeInv ==
  pipe + (IF reader = "pushed" THEN 1 ELSE 0)
    <= pushed + Given(Errors) + (IF reader = "stopped" THEN 1 ELSE 0)
         + (IF ownWrite = "failed" THEN 1 ELSE 0)

IInv ==
  /\ TypeOK /\ QueueInv /\ EndInv
  /\ raced \/ (SenderInv /\ WireInv /\ ReceiverInv /\ PipeInv)
============================================================================
