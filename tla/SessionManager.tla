-------------------------- MODULE SessionManager ---------------------------
(***************************************************************************)
(* The sessions of several AbiWords (AbiCollabSessionManager): who shares  *)
(* a document, who has joined, and how a session ends, by its master, by a *)
(* slave, or with the connection between them.                             *)
(*                                                                         *)
(* Each AbiWord has a list of session objects (m_vecSessions). To destroy  *)
(* one it waits in a nested main loop until the asynchronous operations of *)
(* that session are over, and it tells the user of a lost session in a     *)
(* modal box, which is a nested main loop as well; packets of other peers  *)
(* are handled meanwhile and may destroy sessions too. The calls that wait *)
(* for one another are a stack of frames.                                  *)
(***************************************************************************)
EXTENDS Naturals, Sequences, FiniteSets, SequencesExt

CONSTANTS
  Peers,           (* the AbiWords *)
  Links,           (* the pairs {p, q} of them that are buddies at first *)
  Sessions,        (* session ids *)
  Stored,          (* those of documents kept on abicollab.net; their members *)
                   (* connect through its realm and are not modelled here *)
  None,
  Impatient,       (* may a user ask again to join before the answer? *)
  MayStart,        (* bound: who may start which session, <<p, s>> *)
  MaxJoins,        (* bound: requests to join *)
  MaxSaves,        (* bound: saves to the service, the asynchronous operations *)
  MaxBreaks,       (* bound: connections that break and users who quit *)
  MaxCalls,        (* bound: calls in progress when a user ends a session *)
  Quitters         (* bound: who may quit *)

ASSUME PeersAssumption == IsFiniteSet(Peers) /\ None \notin Peers \cup Sessions
ASSUME LinksAssumption == Links \subseteq {{p, q} : p, q \in Peers} /\ \A p \in Peers : {p} \notin Links
ASSUME SessionsAssumption == Stored \subseteq Sessions /\ Quitters \subseteq Peers
ASSUME MayStartAssumption == MayStart \subseteq Peers \X Sessions
ASSUME LimitsAssumption == {MaxJoins, MaxSaves, MaxBreaks, MaxCalls} \subseteq Nat /\ Impatient \in BOOLEAN

VARIABLES
  master,          (* who has started each session *)
  list,            (* m_vecSessions of each peer: objects [id, nr] *)
  alive,           (* the session objects of each peer that exist *)
  collaborators,   (* m_vCollaborators of the sessions a peer has started *)
  saving,          (* m_asyncSessionOps: objects with an operation under way *)
  frames,          (* calls in progress of each peer, the innermost last *)
  buddies,         (* whom each peer is connected with *)
  chan,            (* packets between two peers *)
  asked,           (* joins a peer has asked for and has no answer to *)
  joins, saves, breaks,   (* how often so far *)
  ended,           (* is a process over, by "quit" or by "crash"? *)
  nested           (* history: peers that destroyed a session within the wait *)
                   (* for another *)

bounds == <<joins, saves, breaks>>
vars == <<master, list, alive, collaborators, saving, frames, buddies, chan, asked, bounds,
          ended, nested>>

Start(s)        == [type |-> "start",   id |-> s]
JoinRequest(s)  == [type |-> "join",    id |-> s]
JoinResponse(s) == [type |-> "joined",  id |-> s]
Disjoin(s)      == [type |-> "disjoin", id |-> s]
Close(s)        == [type |-> "close",   id |-> s]
Lost            == [type |-> "lost",    id |-> None]

(* getSessionFromSessionId: the first object with this id *)
Known(p, s) == \E i \in DOMAIN list[p] : list[p][i].id = s
Find(p, s)  == list[p][CHOOSE i \in DOMAIN list[p] :
                         list[p][i].id = s /\ \A j \in 1..(i - 1) : list[p][j].id # s]

(* new AbiCollab: an object that is none of those there are. *)
Used(p)         == ToSet(list[p]) \cup alive[p]
NewObject(p, s) ==
  CHOOSE o \in [id : {s}, nr : 1..(Cardinality(Used(p)) + 1)] : o \notin Used(p)

isLocallyControlled(p, s) == master[s] = p

(* AccountHandler::send to every peer of a set *)
SendAll(c, p, to, m) == [c EXCEPT ![p] = [q \in Peers |-> IF q \in to THEN Append(@[q], m) ELSE @[q]]]

(* The end of a connection reaches both sides after the packets before it.  *)
Cut(c, p, q) ==
  [a \in Peers |-> [b \in Peers |-> IF {a, b} = {p, q} THEN Append(c[a][b], Lost) ELSE c[a][b]]]

(* What p does now: nothing, or the innermost call. *)
Runs(p, call)  == ended[p] = "no" /\ frames[p] # <<>> /\ Last(frames[p]).call = call
WaitsSlip(p)   == FALSE          (* slip: destroySession does not wait *)
Waits(p)       == Runs(p, "destroySession") /\ Last(frames[p]).object \in saving[p]

(* The main loop of p runs: no call is in progress, or a nested one. Behind *)
(* a modal box the user can do nothing else.                                *)
UserMayAct(p) == ended[p] = "no" /\ (frames[p] = <<>> \/ Waits(p))
MainLoop(p)   == UserMayAct(p) \/ Runs(p, "messageBox")

(* The next packet of q is handled, unless one of his is being handled: the *)
(* source of events that is being served is not served again.               *)
HeadIs(p, q, type) ==
  /\ MainLoop(p)
  /\ \A i \in DOMAIN frames[p] : frames[p][i].from # q
  /\ chan[q][p] # <<>> /\ Head(chan[q][p]).type = type
Received(p, q) == [chan EXCEPT ![q][p] = Tail(@)]

(* destroySession(o) with the place of o it has found; what is sent to whom *)
(* when it is done; and is there a box then?                                *)
DestroyFrame(p, from, o, to, event, box) ==
  [call |-> "destroySession", from |-> from, object |-> o,
   index |-> CHOOSE i \in DOMAIN list[p] : list[p][i] = o /\ \A j \in 1..(i - 1) : list[p][j] # o,
   to |-> to, event |-> event, box |-> box]
RemoveFrame(q, i)     == [call |-> "removeBuddy", from |-> q, index |-> i]
DisconnectFrame(i)    == [call |-> "disconnectSessions", from |-> None, index |-> i]
MessageBoxFrame(from) == [call |-> "messageBox", from |-> from]

(* p calls destroySession from the frames it is in. *)
Destroy(p, stack, frame) ==
  /\ frames' = [frames EXCEPT ![p] = Append(stack, frame)]
  /\ nested' = IF \E i \in DOMAIN stack : stack[i].call = "destroySession" THEN nested \cup {p} ELSE nested

(* disconnectSession: a master closes, a slave leaves the first session *)
(* with that id.                                                        *)
Disconnect(p, stack, o) ==
  IF isLocallyControlled(p, o.id)
    THEN Destroy(p, stack, DestroyFrame(p, None, o, buddies[p], Close(o.id), FALSE))
    ELSE Destroy(p, stack, DestroyFrame(p, None, Find(p, o.id), {master[o.id]}, Disjoin(o.id), FALSE))

Init ==
  /\ master = [s \in Sessions |-> None]
  /\ list = [p \in Peers |-> <<>>] /\ alive = [p \in Peers |-> {}]
  /\ collaborators = [p \in Peers |-> [s \in Sessions |-> {}]]
  /\ saving = [p \in Peers |-> {}] /\ frames = [p \in Peers |-> <<>>]
  /\ buddies = [p \in Peers |-> {q \in Peers : {p, q} \in Links}]
  /\ chan = [p \in Peers |-> [q \in Peers |-> <<>>]]
  /\ asked = [p \in Peers |-> {}]
  /\ joins = 0 /\ saves = 0 /\ breaks = 0
  /\ ended = [p \in Peers |-> "no"] /\ nested = {}
----------------------------------------------------------------------------
(* What users do *)

(* startSession: "notify all people we are sharing a new document" *)
StartSession(p, s) ==
  /\ UserMayAct(p) /\ master[s] = None /\ <<p, s>> \in MayStart
  /\ master' = [master EXCEPT ![s] = p]
  /\ LET o == NewObject(p, s)
     IN list' = [list EXCEPT ![p] = Append(@, o)] /\ alive' = [alive EXCEPT ![p] = @ \cup {o}]
  /\ chan' = SendAll(chan, p, buddies[p], Start(s))
  /\ UNCHANGED <<collaborators, saving, frames, buddies, asked, bounds, ended, nested>>

(* s_abicollab_join, joinSessionInitiate: "Check if we have already joined  *)
(* this session". Users pick sessions their buddies have told them of.      *)
AskToJoin(p, s) ==
  /\ UserMayAct(p) /\ joins < MaxJoins
  /\ s \notin Stored /\ master[s] \in buddies[p]
  /\ ~Known(p, s)
  /\ s \in asked[p] => Impatient
  /\ joins' = joins + 1
  /\ asked' = [asked EXCEPT ![p] = @ \cup {s}]
  /\ chan' = SendAll(chan, p, {master[s]}, JoinRequest(s))
  /\ UNCHANGED <<master, list, alive, collaborators, saving, frames, buddies, saves, breaks,
                 ended, nested>>

(* The user closes a document or ends its collaboration. *)
DisconnectSession(p, o) ==
  /\ UserMayAct(p) /\ o \in ToSet(list[p])
  /\ Len(frames[p]) < MaxCalls
  /\ Disconnect(p, frames[p], o)
  /\ UNCHANGED <<master, list, alive, collaborators, saving, buddies, chan, asked, bounds, ended>>

(* AbiCollabSaveInterceptor::save begins an asynchronous operation ... *)
Save(p, o) ==
  /\ UserMayAct(p) /\ saves < MaxSaves
  /\ o \in ToSet(list[p]) \ saving[p] /\ o.id \in Stored
  /\ saves' = saves + 1
  /\ saving' = [saving EXCEPT ![p] = @ \cup {o}]
  /\ UNCHANGED <<master, list, alive, collaborators, frames, buddies, chan, asked, joins, breaks,
                 ended, nested>>

(* ... and _save_cb ends it, whether it has saved or not. *)
SaveCb(p, o) ==
  /\ MainLoop(p) /\ o \in saving[p]
  /\ saving' = [saving EXCEPT ![p] = @ \ {o}]
  /\ UNCHANGED <<master, list, alive, collaborators, frames, buddies, chan, asked, bounds,
                 ended, nested>>

(* The user has read that a session is over. *)
Dismiss(p) ==
  /\ Runs(p, "messageBox")
  /\ frames' = [frames EXCEPT ![p] = Front(@)]
  /\ UNCHANGED <<master, list, alive, collaborators, saving, buddies, chan, asked, bounds, ended, nested>>

(* The user quits, abi_plugin_unregister calls disconnectSessions. *)
Quit(p) ==
  /\ ended[p] = "no" /\ frames[p] = <<>>
  /\ p \in Quitters /\ breaks < MaxBreaks
  /\ breaks' = breaks + 1
  /\ frames' = [frames EXCEPT ![p] = <<DisconnectFrame(1)>>]
  /\ UNCHANGED <<master, list, alive, collaborators, saving, buddies, chan, asked, joins, saves, ended, nested>>

(* A connection breaks, or one of the two accounts disconnects. *)
Break(p, q) ==
  /\ breaks < MaxBreaks
  /\ q \in buddies[p] /\ p \in buddies[q]
  /\ breaks' = breaks + 1
  /\ buddies' = [buddies EXCEPT ![p] = @ \ {q}, ![q] = @ \ {p}]
  /\ chan' = Cut(chan, p, q)
  /\ UNCHANGED <<master, list, alive, collaborators, saving, frames, asked, joins, saves, ended, nested>>

(* So do the connections of a process that is over. *)
Gone(p, q) ==
  /\ ended[p] # "no" /\ q \in buddies[p]
  /\ buddies' = [buddies EXCEPT ![p] = @ \ {q}, ![q] = @ \ {p}]
  /\ chan' = Cut(chan, p, q)
  /\ UNCHANGED <<master, list, alive, collaborators, saving, frames, asked, bounds, ended, nested>>
----------------------------------------------------------------------------
(* Packets *)

(* slip: to all buddies *)
HandleStartSlip(p, q) ==
  /\ HeadIs(p, q, "start")
  /\ chan' = SendAll(Received(p, q), p, buddies[p], Head(chan[q][p]))
  /\ UNCHANGED <<master, list, alive, collaborators, saving, frames, buddies, asked, bounds,
                 ended, nested>>

(* processPacket, StartSessionEvent: forwarded to all buddies but its sender *)
HandleStart(p, q) ==
  /\ HeadIs(p, q, "start")
  /\ chan' = SendAll(Received(p, q), p, buddies[p] \ {q}, Head(chan[q][p]))
  /\ UNCHANGED <<master, list, alive, collaborators, saving, frames, buddies, asked, bounds,
                 ended, nested>>

(* slip: whether or not the session is there *)
HandleJoinRequestSlip(p, q) ==
  /\ HeadIs(p, q, "join")
  /\ LET s == Head(chan[q][p]).id
     IN /\ chan' = SendAll(Received(p, q), p, {q} \cap buddies[p], JoinResponse(s))
        /\ collaborators' = [collaborators EXCEPT ![p][s] = @ \cup {q}]
  /\ UNCHANGED <<master, list, alive, saving, frames, buddies, asked, bounds, ended, nested>>

(* AccountHandler::_handlePacket, JoinSessionRequestEvent: the answer, then *)
(* addCollaborator                                                          *)
HandleJoinRequest(p, q) ==
  /\ HeadIs(p, q, "join")
  /\ LET s == Head(chan[q][p]).id
     IN IF Known(p, s)
          THEN /\ chan' = SendAll(Received(p, q), p, {q} \cap buddies[p], JoinResponse(s))
               /\ collaborators' = [collaborators EXCEPT ![p][s] = @ \cup {q}]
          ELSE /\ chan' = Received(p, q)
               /\ UNCHANGED collaborators
  /\ UNCHANGED <<master, list, alive, saving, frames, buddies, asked, bounds, ended, nested>>

(* JoinSessionRequestResponseEvent, joinSession: a new session, whether or  *)
(* not there is one with this id. The JoinSessionEvent sent back changes   *)
(* nothing at the master (processPacket) and is left out.                  *)
HandleJoinResponse(p, q) ==
  /\ HeadIs(p, q, "joined")
  /\ LET s == Head(chan[q][p]).id
         o == NewObject(p, s)
     IN /\ list' = [list EXCEPT ![p] = Append(@, o)]
        /\ alive' = [alive EXCEPT ![p] = @ \cup {o}]
        /\ asked' = [asked EXCEPT ![p] = @ \ {s}]
  /\ chan' = Received(p, q)
  /\ UNCHANGED <<master, collaborators, saving, frames, buddies, bounds, ended, nested>>

(* slip: the event is only forwarded *)
HandleDisjoinSlip(p, q) ==
  /\ HeadIs(p, q, "disjoin")
  /\ chan' = Received(p, q)
  /\ UNCHANGED <<master, list, alive, collaborators, saving, frames, buddies, asked, bounds, ended, nested>>

(* processPacket, DisjoinSessionEvent *)
HandleDisjoin(p, q) ==
  /\ HeadIs(p, q, "disjoin")
  /\ LET s == Head(chan[q][p]).id
     IN collaborators' = IF Known(p, s) THEN [collaborators EXCEPT ![p][s] = @ \ {q}] ELSE collaborators
  /\ chan' = Received(p, q)
  /\ UNCHANGED <<master, list, alive, saving, frames, buddies, asked, bounds, ended, nested>>

(* slip: not while another call waits *)
HandleCloseSlip(p, q) ==
  /\ HeadIs(p, q, "close")
  /\ chan' = Received(p, q)
  /\ LET s == Head(chan[q][p]).id
     IN IF Known(p, s) /\ ~isLocallyControlled(p, s) /\ frames[p] = <<>>
          THEN Destroy(p, frames[p], DestroyFrame(p, q, Find(p, s), {}, Close(s), TRUE))
          ELSE UNCHANGED <<frames, nested>>
  /\ UNCHANGED <<master, list, alive, collaborators, saving, buddies, asked, bounds, ended>>

(* processPacket, CloseSessionEvent: a slave destroys the session and tells *)
(* the user.                                                                *)
HandleClose(p, q) ==
  /\ HeadIs(p, q, "close")
  /\ chan' = Received(p, q)
  /\ LET s == Head(chan[q][p]).id
     IN IF Known(p, s) /\ ~isLocallyControlled(p, s)
          THEN Destroy(p, frames[p], DestroyFrame(p, q, Find(p, s), {}, Close(s), TRUE))
          ELSE UNCHANGED <<frames, nested>>
  /\ UNCHANGED <<master, list, alive, collaborators, saving, buddies, asked, bounds, ended>>

(* handleEvent of a closed connection: removeBuddy walks m_vecSessions back  *)
HandleLost(p, q) ==
  /\ HeadIs(p, q, "lost")
  /\ chan' = Received(p, q)
  /\ asked' = [asked EXCEPT ![p] = {s \in @ : master[s] # q}]
  /\ frames' = [frames EXCEPT ![p] = Append(@, RemoveFrame(q, Len(list[p])))]
  /\ UNCHANGED <<master, list, alive, collaborators, saving, buddies, bounds, ended, nested>>
----------------------------------------------------------------------------
(* Calls in progress *)

(* One turn of the loop in removeBuddy: a session of ours loses the buddy,  *)
(* a session of his is destroyed. An entry that is not there any more is    *)
(* passed over.                                                             *)
RemoveBuddy(p) ==
  /\ Runs(p, "removeBuddy") /\ Last(frames[p]).index > 0
  /\ LET q == Last(frames[p]).from
         i == Last(frames[p]).index
         o == list[p][i]
         stack == Append(Front(frames[p]), RemoveFrame(q, i - 1))
     IN \/ /\ i \in DOMAIN list[p] /\ master[o.id] = p
           /\ collaborators' = [collaborators EXCEPT ![p][o.id] = @ \ {q}]
           /\ frames' = [frames EXCEPT ![p] = stack]
           /\ UNCHANGED nested
        \/ /\ i \in DOMAIN list[p] /\ master[o.id] = q
           /\ Destroy(p, stack, DestroyFrame(p, q, o, {}, Lost, TRUE))
           /\ UNCHANGED collaborators
        \/ /\ i \in DOMAIN list[p] => master[o.id] \notin {p, q}
           /\ frames' = [frames EXCEPT ![p] = stack]
           /\ UNCHANGED <<collaborators, nested>>
  /\ UNCHANGED <<master, list, alive, saving, buddies, chan, asked, bounds, ended>>

RemoveBuddyReturns(p) ==
  /\ Runs(p, "removeBuddy") /\ Last(frames[p]).index = 0
  /\ frames' = [frames EXCEPT ![p] = Front(@)]
  /\ UNCHANGED <<master, list, alive, collaborators, saving, buddies, chan, asked, bounds, ended, nested>>

(* One turn of the loop in disconnectSessions; then the process is over. *)
DisconnectSessions(p) ==
  /\ Runs(p, "disconnectSessions")
  /\ LET i == Last(frames[p]).index
     IN \/ /\ i \in DOMAIN list[p]
           /\ Disconnect(p, Append(Front(frames[p]), DisconnectFrame(i + 1)), list[p][i])
           /\ UNCHANGED ended
        \/ /\ i \notin DOMAIN list[p]
           /\ ended' = [ended EXCEPT ![p] = "quit"]
           /\ UNCHANGED <<frames, nested>>
  /\ UNCHANGED <<master, list, alive, collaborators, saving, buddies, chan, asked, bounds>>

(* The rest of destroySession, when no operation is left: DELETEP(pSession) *)
(* and deleteNthItem(i), with the i found before the wait; then the event   *)
(* or the box. Deleting an object twice, or an item past the end, is the    *)
(* end of the process.                                                      *)
DestroySession(p) ==
  /\ Runs(p, "destroySession") /\ ~Waits(p)
  /\ LET f == Last(frames[p])
         box == IF f.box THEN <<MessageBoxFrame(f.from)>> ELSE <<>>
     IN IF f.object \in alive[p] /\ f.index \in DOMAIN list[p]
          THEN /\ alive' = [alive EXCEPT ![p] = @ \ {f.object}]
               /\ list' = [list EXCEPT ![p] = RemoveAt(@, f.index)]
               /\ collaborators' = IF isLocallyControlled(p, f.object.id)
                                     THEN [collaborators EXCEPT ![p][f.object.id] = {}]
                                     ELSE collaborators
               /\ chan' = SendAll(chan, p, f.to \cap buddies[p], f.event)
               /\ frames' = [frames EXCEPT ![p] = Front(@) \o box]
               /\ UNCHANGED ended
          ELSE /\ ended' = [ended EXCEPT ![p] = "crash"]
               /\ UNCHANGED <<alive, list, collaborators, chan, frames>>
  /\ UNCHANGED <<master, saving, buddies, asked, bounds, nested>>
----------------------------------------------------------------------------
Users(p) ==
  \/ \E s \in Sessions : StartSession(p, s) \/ AskToJoin(p, s)
  \/ \E o \in ToSet(list[p]) : DisconnectSession(p, o) \/ Save(p, o)
  \/ Quit(p)

Handle(p, q) ==
  \/ HandleStart(p, q) \/ HandleJoinRequest(p, q) \/ HandleJoinResponse(p, q)
  \/ HandleDisjoin(p, q) \/ HandleClose(p, q) \/ HandleLost(p, q)

Calls(p) == RemoveBuddy(p) \/ RemoveBuddyReturns(p) \/ DisconnectSessions(p) \/ DestroySession(p)

(* A call that does not wait runs to its end: it shares nothing with other  *)
(* processes but the channels and the connections.                          *)
Busy(p) == Runs(p, "removeBuddy") \/ Runs(p, "disconnectSessions") \/ (Runs(p, "destroySession") /\ ~Waits(p))

(* Main loops serve packets and timers, calls run on, saves end, users      *)
(* close the boxes that ask for it, the connections of the dead are cut.    *)
System ==
  \/ \E p \in Peers : Calls(p)
  \/ /\ \A p \in Peers : ~Busy(p)
     /\ \/ \E p \in Peers : Dismiss(p) \/ \E o \in saving[p] : SaveCb(p, o)
        \/ \E p, q \in Peers : Handle(p, q)
  \/ \E p, q \in Peers : Gone(p, q)

Next ==
  \/ System
  \/ \E p \in Peers : Users(p) /\ \A r \in Peers : ~Busy(r)
  \/ \E p, q \in Peers : Break(p, q)

Spec == Init /\ [][Next]_vars

(* What users start on their own is bounded, so it is enough that the rest  *)
(* does not stop.                                                           *)
FairSpec == Spec /\ WF_vars(System)
----------------------------------------------------------------------------
(* Properties *)

Objects == [id : Sessions, nr : Nat \ {0}]
Packets == [type : {"start", "join", "joined", "disjoin", "close"}, id : Sessions] \cup {Lost}

Farewells == [type : {"disjoin", "close"}, id : Sessions] \cup {Lost}
DestroyFrames == [call : {"destroySession"}, from : Peers \cup {None}, object : Objects, index : Nat,
                  to : SUBSET (Peers \cup {None}), event : Farewells, box : BOOLEAN]
Frames == DestroyFrames
          \cup [call : {"removeBuddy"}, from : Peers, index : Nat]
          \cup [call : {"disconnectSessions"}, from : {None}, index : Nat]
          \cup [call : {"messageBox"}, from : Peers \cup {None}]

(* The invariant of the module: types, and a session that a peer does not   *)
(* have has no collaborators there.                                         *)
TypeOK ==
  /\ \A p \in Peers \ nested, s \in Sessions : collaborators[p][s] # {} => Known(p, s)
  /\ master \in [Sessions -> Peers \cup {None}]
  /\ list \in [Peers -> Seq(Objects)] /\ alive \in [Peers -> SUBSET Objects]
  /\ collaborators \in [Peers -> [Sessions -> SUBSET Peers]]
  /\ saving \in [Peers -> SUBSET Objects]
  /\ frames \in [Peers -> Seq(Frames)]
  /\ buddies \in [Peers -> SUBSET Peers] /\ chan \in [Peers -> [Peers -> Seq(Packets)]]
  /\ asked \in [Peers -> SUBSET Sessions]
  /\ joins \in 0..MaxJoins /\ saves \in 0..MaxSaves /\ breaks \in 0..MaxBreaks
  /\ ended \in [Peers -> {"no", "quit", "crash"}] /\ nested \subseteq Peers

(* Destroying sessions from nested main loops, in the middle of the walks   *)
(* over m_vecSessions, keeps the vector and the objects together, and no    *)
(* operation outlives the session its callback is going to use: unless one  *)
(* session is destroyed within the wait for another (:568, the index found  *)
(* before the wait is stale after it).                                      *)
SessionsExist ==
  \A p \in Peers \ nested :
    /\ ended[p] # "crash"
    /\ ToSet(list[p]) = alive[p] /\ Len(list[p]) = Cardinality(alive[p])
    /\ saving[p] \subseteq alive[p]

(* What it needs to be inductive. Only masters have collaborators, and are  *)
(* asked to join. Unless a peer has destroyed one session within the wait   *)
(* for another, at most one of its calls in progress is a destroySession,   *)
(* and what that has found before the wait is still in its place.           *)
OnlyMastersAsked ==
  /\ \A p \in Peers, s \in Sessions : collaborators[p][s] # {} => master[s] = p
  /\ \A p, q \in Peers : \A m \in ToSet(chan[q][p]) : m.type = "join" => master[m.id] = p

Destroys(p) == {i \in DOMAIN frames[p] : frames[p][i].call = "destroySession"}

ListInv(p) ==
  /\ \A i, j \in DOMAIN list[p] : list[p][i] = list[p][j] => i = j
  /\ ToSet(list[p]) = alive[p] /\ saving[p] \subseteq alive[p]

FramesInv(p) ==
  /\ \A i, j \in Destroys(p) : i = j
  /\ \A i \in Destroys(p) : LET f == frames[p][i] IN
       f.index \in DOMAIN list[p] /\ list[p][f.index] = f.object

IInv ==
  /\ TypeOK /\ OnlyMastersAsked
  /\ \A p \in Peers : IsFiniteSet(alive[p])
  /\ \A p \in Peers \ nested : ended[p] # "crash" /\ ListInv(p) /\ FramesInv(p)

(* When nothing is under way between a master and a slave, the slave is a   *)
(* collaborator of exactly the sessions he has joined, and of none once     *)
(* they are not connected: however joining, leaving, closing and losing the *)
(* connection cross on the wire, nobody sends changes to a ghost and nobody *)
(* edits a document whose session is over.                                  *)
Settled(p) == ended[p] = "no" /\ frames[p] = <<>>
NoGhosts ==
  \A p, q \in Peers \ nested :
    p # q /\ Settled(p) /\ Settled(q) /\ chan[p][q] = <<>> /\ chan[q][p] = <<>> =>
      \A s \in Sessions : master[s] = p =>
        /\ q \in collaborators[p][s] <=> \E o \in alive[q] : o.id = s
        /\ q \in collaborators[p][s] => q \in buddies[p]

(* What NoGhosts needs to be inductive, of two peers first. A connection    *)
(* that is cut says so in its last packet, and none comes after.            *)
At(queue, m) == {i \in DOMAIN queue : queue[i] = m}
Line(queue, linked) ==
  IF linked THEN At(queue, Lost) = {} ELSE queue = <<>> \/ At(queue, Lost) = {Len(queue)}

LinesInv ==
  /\ \A p \in Peers : p \notin buddies[p] /\ chan[p][p] = <<>>
  /\ \A p, q \in Peers : /\ q \in buddies[p] => p \in buddies[q]
                         /\ Line(chan[p][q], q \in buddies[p])

(* The packets about a session are between its master and the others.       *)
Addressed(m, from, to) ==
  /\ m.type \in {"join", "disjoin"} => master[m.id] = to
  /\ m.type \in {"joined", "close"} => master[m.id] = from

(* What a peer is going to say when it has destroyed a session.             *)
Farewell(p, f) ==
  /\ f.call = "removeBuddy" => f.from # p /\ f.from \notin buddies[p]
  /\ f.call = "destroySession" =>
       LET s == f.object.id
       IN  /\ master[s] # None
           /\ IF master[s] = p THEN f.event = Close(s) /\ buddies[p] \subseteq f.to
              ELSE f.to = {} \/ (f.event = Disjoin(s) /\ f.to = {master[s]})

StartedInv ==
  /\ \A p, q \in Peers : \A m \in ToSet(chan[p][q]) : Addressed(m, p, q)
  /\ \A p \in Peers : \A o \in ToSet(list[p]) : master[o.id] # None
  /\ \A p \in Peers : \A f \in ToSet(frames[p]) : Farewell(p, f)
  /\ \A p \in Peers \ nested : \A i, j \in DOMAIN list[p] :
       list[p][i].id = list[p][j].id /\ master[list[p][i].id] = p => i = j

(* There is one request, one answer to it or one session at a time, "up"    *)
(* from a slave to the master, "down" from the master, and at the slave.    *)
(* A slave that has left says so before it asks again.                      *)
Once(up, down, sessions, s) ==
  /\ \A i, j \in At(up, JoinRequest(s)) : i = j
  /\ \A i, j \in At(down, JoinResponse(s)) : i = j
  /\ \A o1, o2 \in sessions : o1 = o2
  /\ At(up, JoinRequest(s)) # {} => At(down, JoinResponse(s)) = {} /\ sessions = {}
  /\ At(up, Disjoin(s)) # {} \/ At(down, JoinResponse(s)) # {} => sessions = {}
  /\ At(up, Disjoin(s)) # {} => At(down, JoinResponse(s)) = {}
  /\ \A i \in At(up, Disjoin(s)), j \in At(up, JoinRequest(s)) : i < j

Awaiting(up, down, linked, waits, s) ==
  /\ At(up, JoinRequest(s)) # {} => waits \/ ~linked
  /\ At(down, JoinResponse(s)) # {} => waits

(* Of two that are connected: a collaborator has the session, or is going   *)
(* to, or has left; a slave in it is a collaborator, or is going to hear    *)
(* that the session is closed, or is leaving. Of two that are not: whoever  *)
(* still counts with the other has the end of the connection before him.    *)
Member(up, down, sessions, is, linked, leaves, s) ==
  linked =>
    /\ is => sessions # {} \/ At(down, JoinResponse(s)) # {} \/ At(up, Disjoin(s)) # {}
    /\ sessions # {} => is \/ At(down, Close(s)) # {} \/ leaves
    /\ \A i \in At(down, JoinResponse(s)) : is \/ \E j \in At(down, Close(s)) : i < j

Parted(up, down, sessions, is, linked, leaves, hers, his) ==
  ~linked =>
    /\ is => At(up, Lost) # {} \/ hers
    /\ sessions # {} => At(down, Lost) # {} \/ leaves \/ his

(* A walk of p over its sessions for the lost buddy q that comes to s yet;  *)
(* the calls of q that are going to destroy s.                              *)
Walks(p, q, s) ==
  \E f \in ToSet(frames[p]) :
    /\ f.call = "removeBuddy" /\ f.from = q
    /\ \E k \in DOMAIN list[p] : k <= f.index /\ list[p][k].id = s
Leaving(q, s) == {f \in ToSet(frames[q]) : f.call = "destroySession" /\ f.object.id = s}

GhostFree(p, q, s) ==
  LET up       == chan[q][p]
      down     == chan[p][q]
      sessions == {o \in alive[q] : o.id = s}
      is       == q \in collaborators[p][s]
      linked   == q \in buddies[p]
      leaves   == Leaving(q, s) # {}
  IN  /\ Once(up, down, sessions, s)
      /\ Awaiting(up, down, linked, s \in asked[q], s)
      /\ Member(up, down, sessions, is, linked, leaves, s)
      /\ Parted(up, down, sessions, is, linked, leaves, Walks(p, q, s), Walks(q, p, s))
      /\ At(down, Close(s)) # {} => ~Known(p, s)
      /\ \A f \in Leaving(q, s) : f.to = {} => ~linked \/ ~Known(p, s)

(* What a master and a slave make of one another differs by what is under   *)
(* way between them only, unless one of them has destroyed a session within *)
(* the wait for another (joinSession, destroySession, removeBuddy,          *)
(* processPacket).                                                          *)
GhostInv ==
  /\ IInv /\ LinesInv /\ StartedInv
  /\ \A p, q \in Peers \ nested, s \in Sessions :
       p # q /\ master[s] = p => GhostFree(p, q, s)

(* "make sure not to send it back to him, as it would result in a broadcast *)
(* storm": the announcement of a session does not come back to its master.  *)
NoEcho == \A s \in Sessions : master[s] # None =>
            \A q \in Peers : Start(s) \notin ToSet(chan[q][master[s]])

(* Whatever ends a session at its master, his user, his quitting or his     *)
(* crash, in the end nobody has it any more.                                *)
Over(s) == master[s] # None /\ (ended[master[s]] # "no" \/ \A o \in alive[master[s]] : o.id # s)
EndIsKnown ==
  \A s \in Sessions \ Stored :
    Over(s) ~> \A p \in Peers \ nested : ended[p] = "no" => \A o \in alive[p] : o.id # s
============================================================================
