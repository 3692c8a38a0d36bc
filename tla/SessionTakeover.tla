-------------------------- MODULE SessionTakeover --------------------------
(***************************************************************************)
(* A master that leaves its session hands it over to one of its slaves     *)
(* (AbiCollab.cpp, AbiCollabSessionManager.cpp):                           *)
(*                                                                         *)
(*   master -> all slaves     takeoverRequest   the promoted one is named  *)
(*   slaves -> master         takeoverAck       from now on they queue     *)
(*   master -> all slaves     flushed           and the master is gone     *)
(*   slaves -> promoted one   reconnectRequest                             *)
(*   promoted one -> slaves   reconnectAck      everyone starts afresh     *)
(*                                                                         *)
(* while all of them go on editing.  The changes are only names here: where *)
(* they are in the document, and what happens when they collide, is in     *)
(* CollabSession.  In their place every packet carries the changes its     *)
(* author had seen, and every peer the ones that are on its stack.         *)
(***************************************************************************)
EXTENDS Integers, Sequences, FiniteSets

CONSTANTS
  Master, Slaves,
  None,           \* no buddy
  Editors,        \* the peers whose users edit ...
  MaxEdits,       \* ... and how often
  MaxTakeovers    \* how many masters leave

ASSUME TakeoverPeersAssumption ==
  Master \notin Slaves /\ None \notin Slaves \cup {Master} /\ IsFiniteSet(Slaves)
ASSUME TakeoverBoundsAssumption ==
  /\ Editors \subseteq Slaves \cup {Master}
  /\ MaxEdits \in Nat /\ MaxTakeovers \in Nat

Peers == Slaves \cup {Master}

VARIABLES
  life,         \* "in" the session; "waiting" for the takeover to end, or
                \* "released" by its end, in _deleteSession; or "gone"
  state,        \* m_eTakeoveState: STS_NONE, STS_SENT_TAKEOVER_REQUEST, ...
  controller,   \* m_pController; None when the peer controls the session
  collaborators,\* m_vCollaborators
  proposed,     \* m_pProposedController
  promoted,     \* m_bProposedController
  approved,     \* m_vApprovedReconnectBuddies: those not yet back
  acked,        \* m_mAckedSessionTakeoverBuddies
  flushed,      \* m_bSessionFlushed
  outgoing,     \* m_vOutgoingQueue
  stack,        \* the changes on m_vecAdjusts of the exporter
  doc,          \* the changes in the document
  chan,         \* chan[p][q]: the packets from p to q under way
  (* history *)
  old,          \* the changes in the document of the last master that left
  refused,      \* the peers a packet of whom was refused by a check
  rash          \* somebody has edited between two sessions

protocol == <<life, state, controller, proposed, promoted, approved, acked, flushed>>
vars == <<life, state, controller, collaborators, proposed, promoted, approved, acked, flushed,
          outgoing, stack, doc, chan, old, refused, rash>>
----------------------------------------------------------------------------
(* Packets.  "seen" are the changes in the document that the change was    *)
(* made in: its position is right for exactly these.                       *)

ChangePacket(id, seen)   == [type |-> "change", id |-> id, seen |-> seen]
RequestPacket(promote, buddies) == [type |-> "takeoverRequest", promote |-> promote, buddies |-> buddies]
Packet(type)             == [type |-> type]

SendAll(c, p, targets, m) ==
  [c EXCEPT ![p] = [q \in Peers |-> IF q \in targets THEN Append(@[q], m) ELSE @[q]]]

SendEach(c, p, targets, packets) ==
  [c EXCEPT ![p] = [q \in Peers |-> IF q \in targets THEN @[q] \o packets ELSE @[q]]]

Received(p, q)     == [chan EXCEPT ![q][p] = Tail(@)]
HeadIs(p, q, type) == chan[q][p] # <<>> /\ Head(chan[q][p]).type = type

isLocallyControlled(p) == controller[p] = None

(* push holds on to the packets of a peer between two masters (slip: of one *)
(* that is waiting for the new master only).                               *)
HoldsOnSlip(p) == ~isLocallyControlled(p) /\ state[p] = "SENT_SESSION_RECONNECT_REQUEST"
HoldsOn(p)     == ~isLocallyControlled(p) /\ state[p] # "NONE"
----------------------------------------------------------------------------
Init ==
  /\ life          = [p \in Peers |-> "in"]
  /\ state         = [p \in Peers |-> "NONE"]
  /\ controller    = [p \in Peers |-> IF p = Master THEN None ELSE Master]
  /\ collaborators = [p \in Peers |-> IF p = Master THEN Slaves ELSE {Master}]
  /\ proposed      = [p \in Peers |-> None]
  /\ promoted      = [p \in Peers |-> FALSE]
  /\ approved      = [p \in Peers |-> {}]
  /\ acked         = [p \in Peers |-> {}]
  /\ flushed       = [p \in Peers |-> FALSE]
  /\ outgoing      = [p \in Peers |-> <<>>]
  /\ stack         = [p \in Peers |-> {}]
  /\ doc           = [p \in Peers |-> {}]
  /\ chan          = [p \in Peers |-> [q \in Peers |-> <<>>]]
  /\ old = {} /\ refused = {} /\ rash = FALSE

(* The user of p changes the document, which the windows allow also while  *)
(* a master waits in _deleteSession, since that runs the main loop.        *)
Edit(p) ==
  LET n  == Cardinality({id \in doc[p] : id[1] = p}) + 1
      id == <<p, n>>
      m  == ChangePacket(id, doc[p])
  IN  /\ p \in Editors /\ life[p] # "gone" /\ n <= MaxEdits
      /\ doc'   = [doc EXCEPT ![p] = @ \cup {id}]
      /\ stack' = [stack EXCEPT ![p] = @ \cup {id}]
      /\ IF HoldsOn(p)
         THEN outgoing' = [outgoing EXCEPT ![p] = Append(@, m)] /\ UNCHANGED chan
         ELSE chan' = SendAll(chan, p, collaborators[p], m) /\ UNCHANGED outgoing
      /\ rash' = (rash \/ life[p] = "released"
                       \/ state[p] \notin {"NONE", "SENT_TAKEOVER_REQUEST"})
      /\ UNCHANGED <<protocol, collaborators, old, refused>>

(* disconnectSession on the master, with somebody to hand over to:         *)
(* initiateSessionTakeover, then closeSession as far as the wait in        *)
(* _deleteSession.  The new master is the first one in a map of pointers.  *)
InitiateSessionTakeover(p) ==
  LET others(n) == collaborators[p] \ {n}
  IN  /\ life[p] = "in" /\ isLocallyControlled(p)
      /\ Cardinality({q \in Peers : life[q] # "in"}) < MaxTakeovers
      /\ \E n \in collaborators[p] :
           /\ proposed' = [proposed EXCEPT ![p] = n]
           /\ chan' = SendAll(SendAll(chan, p, {n}, RequestPacket(TRUE, others(n))),
                              p, others(n), RequestPacket(FALSE, {n}))
      /\ promoted' = [promoted EXCEPT ![p] = FALSE]
      /\ approved' = [approved EXCEPT ![p] = {}]
      /\ acked'    = [acked EXCEPT ![p] = {}]
      /\ flushed'  = [flushed EXCEPT ![p] = FALSE]
      /\ outgoing' = [outgoing EXCEPT ![p] = <<>>]
      /\ state'    = [state EXCEPT ![p] = "SENT_TAKEOVER_REQUEST"]
      /\ life'     = [life EXCEPT ![p] = "waiting"]
      /\ UNCHANGED <<controller, collaborators, stack, doc, old, refused, rash>>

(* The rest of closeSession: the session is deleted, and the account        *)
(* handler leaves the tube, which every other peer is told.                *)
DeleteSession(p) ==
  /\ life[p] = "released"
  /\ life' = [life EXCEPT ![p] = "gone"]
  /\ chan' = SendAll(chan, p, Peers \ {p}, Packet("left"))
  /\ UNCHANGED <<state, controller, collaborators, proposed, promoted, approved, acked, flushed,
                 outgoing, stack, doc, old, refused, rash>>
----------------------------------------------------------------------------
(* AbiCollab::import of a change of q on p. *)

(* Comment and check at the top of import (slip: a master that has started  *)
(* a takeover listens to nobody).                                          *)
MayImportSlip(p, q) == state[p] = "NONE" \/ ~isLocallyControlled(p)

MayImport(p, q) ==
  \/ state[p] = "NONE"
  \/ ~isLocallyControlled(p)
  \/ state[p] = "SENT_TAKEOVER_REQUEST" /\ q \notin acked[p]

(* Whom it is forwarded to (slip: not to those that have acknowledged).     *)
ForwardToSlip(p, q) == IF isLocallyControlled(p) THEN collaborators[p] \ (acked[p] \cup {q}) ELSE {}
ForwardTo(p, q)     == IF isLocallyControlled(p) THEN collaborators[p] \ {q} ELSE {}

ImportChange(p, q) ==
  LET m == Head(chan[q][p])
  IN  /\ life[p] # "gone" /\ HeadIs(p, q, "change") /\ MayImport(p, q)
      /\ doc'   = [doc EXCEPT ![p] = @ \cup {m.id}]
      /\ stack' = [stack EXCEPT ![p] = @ \cup {m.id}]
      /\ collaborators' = [collaborators EXCEPT ![p] = @ \cup {q}]
      /\ chan'  = SendAll(Received(p, q), p, ForwardTo(p, q), ChangePacket(m.id, doc[p]))
      /\ UNCHANGED <<protocol, outgoing, old, refused, rash>>
----------------------------------------------------------------------------
(* _handleSessionTakeover *)

Ack == Packet("takeoverAck")

(* STS_NONE: a request from the controller.  m_bSessionFlushed is left as  *)
(* it is (only initiateSessionTakeover resets it).                         *)
RequestAllowed(p, q) == state[p] = "NONE" /\ controller[p] = q

(* The peer that takes over, as a slave that does not is told. *)
ProposedIn(m) == IF m.promote THEN None ELSE CHOOSE b \in m.buddies : TRUE

HandleRequest(p, q) ==
  LET m == Head(chan[q][p])
  IN  /\ life[p] # "gone" /\ HeadIs(p, q, "takeoverRequest") /\ RequestAllowed(p, q)
      /\ promoted' = [promoted EXCEPT ![p] = m.promote]
      /\ proposed' = [proposed EXCEPT ![p] = ProposedIn(m)]
      /\ approved' = [approved EXCEPT ![p] = IF m.promote THEN m.buddies ELSE {}]
      /\ state'    = [state EXCEPT ![p] = "SENT_TAKEOVER_ACK"]
      /\ chan'     = SendAll(Received(p, q), p, {q}, Ack)
      /\ UNCHANGED <<life, controller, collaborators, acked, flushed, outgoing, stack, doc, old,
                     refused, rash>>

(* STS_SENT_TAKEOVER_REQUEST: every collaborator has to acknowledge (slip:  *)
(* the new master need not, as in _allSlavesAckedSessionTakeover, which    *)
(* nobody calls); then the master is done.                                 *)
AckAllowed(p, q) ==
  /\ state[p] = "SENT_TAKEOVER_REQUEST" /\ isLocallyControlled(p)
  /\ proposed[p] # None /\ q \notin acked[p]

AllAckedSlip(p, acks) == Cardinality(acks) >= Cardinality(collaborators[p]) - 1

AllAcked(p, acks) ==
  Cardinality(collaborators[p]) = 1 \/ Cardinality(acks) = Cardinality(collaborators[p])

HandleAck(p, q) ==
  LET acks == acked[p] \cup {q}
  IN  /\ life[p] # "gone" /\ HeadIs(p, q, "takeoverAck") /\ AckAllowed(p, q)
      /\ acked' = [acked EXCEPT ![p] = acks]
      /\ IF AllAcked(p, acks)
         THEN /\ state' = [state EXCEPT ![p] = "NONE"]
              /\ life'  = [life EXCEPT ![p] = "released"]
              /\ old'   = doc[p]
              /\ chan'  = SendAll(Received(p, q), p, collaborators[p], Packet("flushed"))
         ELSE chan' = Received(p, q) /\ UNCHANGED <<state, life, old>>
      /\ UNCHANGED <<controller, collaborators, proposed, promoted, approved, flushed, outgoing,
                     stack, doc, refused, rash>>

(* _checkRestartAsMaster (slip: without waiting for the old master).        *)
RestartsSlip(told, missing) == missing = {}
Restarts(told, missing)     == told /\ missing = {}

(* _restartAsMaster of p, with collaborators cs, if it is time: empty the  *)
(* stack, tell everyone, and push what has been held back.  The push holds  *)
(* on to nothing, whoever the controller is, for the state is NONE again.  *)
CheckRestartAsMaster(p, q, cs, told, missing) ==
  IF Restarts(told, missing)
  THEN /\ stack'    = [stack EXCEPT ![p] = {}]
       /\ state'    = [state EXCEPT ![p] = "NONE"]
       /\ outgoing' = [outgoing EXCEPT ![p] = <<>>]
       /\ chan'     = SendEach(Received(p, q), p, cs, <<Packet("reconnectAck")>> \o outgoing[p])
  ELSE chan' = Received(p, q) /\ UNCHANGED <<stack, state, outgoing>>

(* STS_SENT_TAKEOVER_ACK on the new master: a slave reconnects, before or   *)
(* after the old master has told it that it is one (slip: only after).     *)
ReconnectAllowedSlip(p, q) ==
  state[p] = "SENT_TAKEOVER_ACK" /\ isLocallyControlled(p) /\ q \in approved[p]

ReconnectAllowed(p, q) == state[p] = "SENT_TAKEOVER_ACK" /\ promoted[p] /\ q \in approved[p]

HandleReconnectRequest(p, q) ==
  /\ life[p] # "gone" /\ HeadIs(p, q, "reconnectRequest") /\ ReconnectAllowed(p, q)
  /\ approved' = [approved EXCEPT ![p] = @ \ {q}]
  /\ collaborators' = [collaborators EXCEPT ![p] = @ \cup {q}]
  /\ CheckRestartAsMaster(p, q, collaborators'[p], flushed[p], approved'[p])
  /\ UNCHANGED <<life, controller, proposed, promoted, acked, flushed, doc, old, refused, rash>>

(* STS_SENT_TAKEOVER_ACK: the old master is done.  The new one becomes the  *)
(* master (_becomeMaster), the others turn to it (_switchMaster).          *)
FlushedAllowed(p, q) == state[p] = "SENT_TAKEOVER_ACK" /\ controller[p] = q

BecomeMaster(p, q) ==
  /\ life[p] # "gone" /\ HeadIs(p, q, "flushed") /\ FlushedAllowed(p, q) /\ promoted[p]
  /\ flushed' = [flushed EXCEPT ![p] = TRUE]
  /\ controller' = [controller EXCEPT ![p] = None]
  /\ collaborators' = [collaborators EXCEPT ![p] = @ \ {q}]
  /\ CheckRestartAsMaster(p, q, collaborators'[p], TRUE, approved[p])
  /\ UNCHANGED <<life, proposed, promoted, approved, acked, doc, old, refused, rash>>

SwitchMaster(p, q) ==
  /\ life[p] # "gone" /\ HeadIs(p, q, "flushed") /\ FlushedAllowed(p, q) /\ ~promoted[p]
  /\ flushed' = [flushed EXCEPT ![p] = TRUE]
  /\ controller' = [controller EXCEPT ![p] = proposed[p]]
  /\ collaborators' = [collaborators EXCEPT ![p] = {proposed[p]}]
  /\ state' = [state EXCEPT ![p] = "SENT_SESSION_RECONNECT_REQUEST"]
  /\ chan'  = SendAll(Received(p, q), p, {proposed[p]}, Packet("reconnectRequest"))
  /\ UNCHANGED <<life, proposed, promoted, approved, acked, outgoing, stack, doc, old, refused, rash>>

(* STS_SENT_SESSION_RECONNECT_REQUEST: _restartAsSlave. *)
RestartAllowed(p, q) ==
  /\ state[p] = "SENT_SESSION_RECONNECT_REQUEST" /\ ~isLocallyControlled(p)
  /\ ~promoted[p] /\ proposed[p] = q

RestartAsSlave(p, q) ==
  /\ life[p] # "gone" /\ HeadIs(p, q, "reconnectAck") /\ RestartAllowed(p, q)
  /\ stack'    = [stack EXCEPT ![p] = {}]
  /\ state'    = [state EXCEPT ![p] = "NONE"]
  /\ outgoing' = [outgoing EXCEPT ![p] = <<>>]
  /\ chan'     = SendEach(Received(p, q), p, collaborators[p], outgoing[p])
  /\ UNCHANGED <<life, controller, collaborators, proposed, promoted, approved, acked, flushed,
                 doc, old, refused, rash>>
----------------------------------------------------------------------------
Allowed(p, q, type) ==
  CASE type = "change"           -> MayImport(p, q)
    [] type = "takeoverRequest"  -> RequestAllowed(p, q)
    [] type = "takeoverAck"      -> AckAllowed(p, q)
    [] type = "reconnectRequest" -> ReconnectAllowed(p, q)
    [] type = "flushed"          -> FlushedAllowed(p, q)
    [] type = "reconnectAck"     -> RestartAllowed(p, q)
    [] OTHER                     -> TRUE

(* A check of the handler fails: the packet is dropped. *)
Refuse(p, q) ==
  /\ life[p] # "gone" /\ chan[q][p] # <<>> /\ ~Allowed(p, q, Head(chan[q][p]).type)
  /\ refused' = refused \cup {q}
  /\ chan'    = Received(p, q)
  /\ UNCHANGED <<protocol, collaborators, outgoing, stack, doc, old, rash>>

(* A packet for a session that has been deleted ("Unknown session id"). *)
DropUnknown(p, q) ==
  /\ life[p] = "gone" /\ chan[q][p] # <<>>
  /\ chan' = Received(p, q)
  /\ UNCHANGED <<protocol, collaborators, outgoing, stack, doc, old, refused, rash>>

(* removeBuddy: q has left the tube.  A peer that q controls gives up its   *)
(* session, and is then itself told to leave by nobody.                    *)
RemoveBuddy(p, q) ==
  /\ life[p] # "gone" /\ HeadIs(p, q, "left")
  /\ chan' = Received(p, q)
  /\ collaborators' = IF isLocallyControlled(p) THEN [collaborators EXCEPT ![p] = @ \ {q}]
                      ELSE collaborators
  /\ life' = IF controller[p] = q THEN [life EXCEPT ![p] = "gone"] ELSE life
  /\ UNCHANGED <<state, controller, proposed, promoted, approved, acked, flushed, outgoing, stack,
                 doc, old, refused, rash>>

Deliver(p, q) ==
  \/ ImportChange(p, q)
  \/ HandleRequest(p, q) \/ HandleAck(p, q)
  \/ BecomeMaster(p, q) \/ SwitchMaster(p, q)
  \/ HandleReconnectRequest(p, q) \/ RestartAsSlave(p, q)
  \/ Refuse(p, q) \/ DropUnknown(p, q) \/ RemoveBuddy(p, q)

Next ==
  \/ \E p \in Peers : Edit(p) \/ InitiateSessionTakeover(p) \/ DeleteSession(p)
  \/ \E p, q \in Peers : Deliver(p, q)

Spec == Init /\ [][Next]_vars

(* Packets are delivered and the wait in _deleteSession ends when it may;   *)
(* nobody has to edit or to leave.                                         *)
Fairness ==
  /\ \A p \in Peers : WF_vars(DeleteSession(p))
  /\ \A p, q \in Peers : WF_vars(Deliver(p, q))

FairSpec == Spec /\ Fairness
----------------------------------------------------------------------------
(* Properties *)

Changes == Peers \X (1..MaxEdits)

ChangePackets  == [type : {"change"}, id : Changes, seen : SUBSET Changes]
RequestPackets == [type : {"takeoverRequest"}, promote : {TRUE}, buddies : SUBSET Peers]
                  \cup [type : {"takeoverRequest"}, promote : {FALSE}, buddies : {{n} : n \in Peers}]
Packets == ChangePackets \cup RequestPackets
           \cup [type : {"takeoverAck", "flushed", "reconnectRequest", "reconnectAck", "left"}]

(* The types; and a peer that does not take over knows who does.            *)
TypeOK ==
  /\ life \in [Peers -> {"in", "waiting", "released", "gone"}]
  /\ state \in [Peers -> {"NONE", "SENT_TAKEOVER_REQUEST", "SENT_TAKEOVER_ACK",
                          "SENT_SESSION_RECONNECT_REQUEST"}]
  /\ controller \in [Peers -> Peers \cup {None}] /\ proposed \in [Peers -> Peers \cup {None}]
  /\ collaborators \in [Peers -> SUBSET Peers] /\ approved \in [Peers -> SUBSET Peers]
  /\ acked \in [Peers -> SUBSET Peers]
  /\ promoted \in [Peers -> BOOLEAN] /\ flushed \in [Peers -> BOOLEAN]
  /\ outgoing \in [Peers -> Seq(ChangePackets)]
  /\ chan \in [Peers -> [Peers -> Seq(Packets)]]
  /\ stack \in [Peers -> SUBSET Changes] /\ doc \in [Peers -> SUBSET Changes]
  /\ old \subseteq Changes /\ refused \subseteq Peers /\ rash \in BOOLEAN
  /\ \A p \in Peers : state[p] = "SENT_TAKEOVER_ACK" /\ ~promoted[p] => proposed[p] \in Peers

Quiet == \A p, q \in Peers : chan[p][q] = <<>>

Here(p) == life[p] = "in"

(* Never two masters: all peers that are in a session, and not between two, *)
(* are in the session of the same one, also when the old master has not    *)
(* left yet (the whole of _handleSessionTakeover).                         *)
InSession(p) == life[p] \in {"in", "waiting"} /\ state[p] \in {"NONE", "SENT_TAKEOVER_REQUEST"}
MasterOf(p)  == IF isLocallyControlled(p) THEN p ELSE controller[p]
OneMaster    == \A p, q \in Peers : InSession(p) /\ InSession(q) => MasterOf(p) = MasterOf(q)

(* A peer that stays is never refused a packet: its changes come before its *)
(* acknowledgement or after the restart, and every packet of the handshake *)
(* finds its receiver in the state for it (the comment in import; the      *)
(* checks of _handleSessionTakeover).                                      *)
NoneRefused == \A p \in refused : life[p] # "in"

(* A peer that has turned to the new master, or has become it, has every    *)
(* change of the old session ("all session data is flushed",               *)
(* _shutdownAsMaster), also when somebody edits meanwhile.                  *)
Turned(p) == flushed[p] /\ \A q \in Peers : controller[p] = q => life[q] = "in"
OldSessionFlushed == \A p \in Peers : Here(p) /\ Turned(p) => old \subseteq doc[p]

(* When nobody edits between two sessions, a takeover loses nothing: once   *)
(* nothing is under way everyone in the session has the same changes ...   *)
SameChanges == Quiet => \A p, q \in Peers : Here(p) /\ Here(q) => doc[p] = doc[q]
TakeoverIsLossless == rash \/ SameChanges

(* ... and whoever gets a change has on its stack all the changes that the  *)
(* author had not seen, so that it can be moved past them or refused.      *)
Accounted ==
  \A p, q \in Peers : Here(p) /\ HeadIs(p, q, "change") /\ Allowed(p, q, "change") =>
    LET m == Head(chan[q][p]) IN doc[p] \ (m.seen \cup {m.id}) \subseteq stack[p]
TakeoverIsAccounted == rash \/ Accounted

(* In the first takeover of a session a new master starts when the one that *)
(* controls it has told it that the old session is flushed                 *)
(* (_checkRestartAsMaster). In a later one the word of an earlier one may   *)
(* do, since m_bSessionFlushed is not reset.                                *)
FirstTakeover == Cardinality({p \in Peers : life[p] # "in"}) <= 1

RestartsFlushed ==
  [][\A p \in Peers : FirstTakeover /\ promoted[p] /\ state[p] = "SENT_TAKEOVER_ACK" /\ state'[p] = "NONE"
        => controller'[p] = None]_vars

(* A takeover comes to its end: the old master is gone, and the others are *)
(* back in a session.                                                      *)
TakeoverEnds ==
  \A m \in Peers : life[m] = "waiting" ~>
     life[m] = "gone" /\ \A p \in Peers : life[p] # "gone" => state[p] = "NONE"
----------------------------------------------------------------------------
(* The invariant of the first takeover of a session. *)

(* Packets under way, by their types: none but these; one after another;    *)
(* one of them at most, and one exactly when it is due.                    *)
Only(c, types)      == \A i \in 1..Len(c) : c[i].type \in types
Has(c, type)        == \E i \in 1..Len(c) : c[i].type = type
NoneAfter(c, t, u)  == \A i, j \in 1..Len(c) : i < j /\ c[i].type = t => c[j].type # u
Once(c, type, due)  == NoneAfter(c, type, type) /\ (Has(c, type) <=> due)

Begun == life[Master] # "in"
Ended == life[Master] \in {"released", "gone"}

NewMaster == proposed[Master]
Followers == Slaves \ {NewMaster}
Asked(s)  == RequestPacket(s = NewMaster, IF s = NewMaster THEN Followers ELSE {NewMaster})

(* The way of a slave: it does not know of the takeover; it has answered;   *)
(* the old master is done, and it leads the session or follows the leader.  *)
Named(s)   == IF s = NewMaster THEN promoted[s] ELSE ~promoted[s] /\ proposed[s] = NewMaster
Stays(s)   == state[s] = "NONE" /\ controller[s] = Master /\ ~promoted[s] /\ ~flushed[s]
Answers(s) == state[s] = "SENT_TAKEOVER_ACK" /\ controller[s] = Master /\ ~flushed[s] /\ Named(s)
Leads(s)   == /\ s = NewMaster /\ controller[s] = None /\ flushed[s] /\ Named(s)
              /\ state[s] \in {"SENT_TAKEOVER_ACK", "NONE"}
Follows(s) == /\ s # NewMaster /\ controller[s] = NewMaster /\ flushed[s] /\ Named(s)
              /\ state[s] \in {"SENT_SESSION_RECONNECT_REQUEST", "NONE"}
Restarted  == Begun /\ Leads(NewMaster) /\ state[NewMaster] = "NONE"

MasterInv ==
  /\ controller[Master] = None /\ collaborators[Master] = Slaves
  /\ state[Master] = IF life[Master] = "waiting" THEN "SENT_TAKEOVER_REQUEST" ELSE "NONE"
  /\ Begun => NewMaster \in Slaves /\ acked[Master] \subseteq Slaves
  /\ ~Begun => NewMaster = None

(* All go the way together: nobody answers before he is asked, the old      *)
(* master ends when all have answered, and the new one restarts when all   *)
(* follow him.                                                             *)
Way(s) ==
  /\ life[s] = "in"
  /\ ~Begun => Stays(s)
  /\ life[Master] = "waiting" => Answers(s) \/ (Stays(s) /\ s \notin acked[Master])
  /\ Ended => Answers(s) \/ Leads(s) \/ Follows(s)
  /\ Follows(s) /\ state[s] = "NONE" => Restarted

LeaderInv ==
  LET n == NewMaster IN
  Begun =>
    /\ Answers(n) \/ Leads(n) =>
         /\ approved[n] \subseteq Followers /\ \A s \in Followers \ approved[n] : Follows(s)
         /\ collaborators[n] \ {Master} = Followers \ approved[n]
    /\ Leads(n) /\ state[n] = "SENT_TAKEOVER_ACK" => Master \notin collaborators[n]
    /\ Restarted => approved[n] = {}

Member(s) ==
  /\ s # NewMaster => collaborators[s] \subseteq {Master, NewMaster}
  /\ Follows(s) => NewMaster \in collaborators[s]
  /\ Stays(s) \/ (Answers(s) /\ s # NewMaster) => collaborators[s] \subseteq {Master}

(* The packets of the old master: a request to those who do not know yet,   *)
(* the end to those who have not turned away, and at last its leave.       *)
FromMaster(s) ==
  LET c == chan[Master][s] IN
  /\ Only(c, {"change", "takeoverRequest", "flushed", "left"})
  /\ Once(c, "takeoverRequest", Begun /\ Stays(s))
  /\ \A i \in 1..Len(c) : c[i].type = "takeoverRequest" => c[i] = Asked(s)
  /\ Once(c, "flushed", Ended /\ Answers(s))
  /\ Has(c, "left") => life[Master] = "gone"
  /\ NoneAfter(c, "left", "flushed")

(* The packets to it: after an acknowledgement no change until it ends.     *)
ToMaster(s) ==
  LET c == chan[s][Master] IN
  /\ Only(c, {"change", "takeoverAck"})
  /\ Once(c, "takeoverAck", life[Master] = "waiting" /\ Answers(s) /\ s \notin acked[Master])
  /\ life[Master] = "waiting" =>
       /\ NoneAfter(c, "takeoverAck", "change")
       /\ s \in acked[Master] => ~Has(c, "change")

(* The packets of a follower to the new master, and back.                   *)
ToLeader(s) ==
  LET c == chan[s][NewMaster] IN
  /\ Only(c, {"change", "reconnectRequest"})
  /\ Once(c, "reconnectRequest", Follows(s) /\ s \in approved[NewMaster])
  /\ Has(c, "change") => Restarted

FromLeader(s) ==
  LET c == chan[NewMaster][s] IN
  /\ Only(c, {"change", "reconnectAck"})
  /\ Once(c, "reconnectAck",
          Follows(s) /\ state[s] = "SENT_SESSION_RECONNECT_REQUEST" /\ Restarted)
  /\ ~Follows(s) => c = <<>>

(* Nobody else has anything to say to each other.                           *)
Silent(p, q) == p = q \/ {p, q} \cap {Master, NewMaster} = {}

Handshake ==
  /\ MasterInv
  /\ \A s \in Slaves : Way(s) /\ Member(s) /\ FromMaster(s) /\ ToMaster(s)
  /\ LeaderInv
  /\ Begun => \A s \in Followers : ToLeader(s) /\ FromLeader(s)
  /\ \A p, q \in Peers : Silent(p, q) => chan[p][q] = <<>>

(* It holds as long as one peer at most has left, or only one may.          *)
IInv == TypeOK /\ (MaxTakeovers <= 1 \/ FirstTakeover => Handshake)

(* What the old session is about: a peer sends only changes that it has,    *)
(* also when it has held them back; what the master has, every slave has or *)
(* will have before it is told that the session is flushed.                 *)
Known(c, ids) == \A i \in 1..Len(c) : c[i].type = "change" => c[i].id \in ids
OwnChanges    == \A p, q \in Peers : Known(chan[p][q], doc[p]) /\ Known(outgoing[p], doc[p])

Coming(c) == {id \in Changes : \E i \in 1..Len(c) :
                /\ c[i].type = "change" /\ c[i].id = id
                /\ \A j \in 1..(i - 1) : c[j].type # "flushed"}

Flushing ==
  /\ ~Ended => old = {} /\ \A s \in Slaves : doc[Master] \subseteq doc[s] \cup Coming(chan[Master][s])
  /\ \A s \in Slaves :
       old \subseteq doc[s] \cup (IF Answers(s) THEN Coming(chan[Master][s]) ELSE {})

FlushInv == OwnChanges /\ (MaxTakeovers <= 1 \/ FirstTakeover => Flushing)

(* What no queue may lose when nobody edits between two sessions. What a    *)
(* peer has, another one has too or will have when its packets arrive. In   *)
(* the old session every slave shares with the master, and when that has    *)
(* ended nothing but its own changes is under way. In the new session every *)
(* follower shares with the leader, both ways, and whatever is sent was made *)
(* with all of the old session in view. A peer that is back in a session has *)
(* nothing but the old session missing from its stack.                      *)
Carried(c)    == {id \in Changes : \E i \in 1..Len(c) : c[i].type = "change" /\ c[i].id = id}
Aware(c, ids) == \A i \in 1..Len(c) : c[i].type = "change" => ids \subseteq c[i].seen
Shared(p, q)  == doc[p] \subseteq doc[q] \cup Carried(chan[p][q])
Back(s)       == Ended /\ s \in Slaves /\ state[s] = "NONE"

OldSharing ==
  \A s \in Slaves :
    /\ ~Ended => Shared(s, Master) /\ Master \in collaborators[s]
    /\ Ended =>
         /\ ~Has(chan[s][Master], "change")
         /\ Known(chan[Master][s], old)
         /\ ~Answers(s) => ~Has(chan[Master][s], "change") /\ Master \notin collaborators[s]
         /\ ~Back(s) => doc[s] \subseteq old
    /\ NoneAfter(chan[Master][s], "flushed", "change")

NewSharing ==
  Begun => \A s \in Followers :
    /\ Restarted => Shared(s, NewMaster) /\ Shared(NewMaster, s)
    /\ Has(chan[NewMaster][s], "change") => Restarted
    /\ NoneAfter(chan[NewMaster][s], "change", "reconnectAck")
    /\ Aware(chan[NewMaster][s], old) /\ Aware(chan[s][NewMaster], old)

Stacks == \A p \in Peers : doc[p] \subseteq stack[p] \cup (IF Back(p) THEN old ELSE {})

Sharing     == OldSharing /\ NewSharing /\ Stacks /\ \A p \in Peers : outgoing[p] = <<>>
LosslessInv == MaxTakeovers <= 1 \/ FirstTakeover => rash \/ Sharing
============================================================================
