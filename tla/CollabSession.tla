--------------------------- MODULE CollabSession ---------------------------
(***************************************************************************)
(* One AbiCollab session: a master (the peer that controls the session)    *)
(* and its slaves edit copies of one document.  Every change is applied    *)
(* locally at once and pushed; the master imports the changes of the       *)
(* slaves, forwards them, and is the referee when two changes collide.     *)
(*                                                                         *)
(* AbiCollab.cpp (push, import), AbiCollab_Export.cpp (the stack of        *)
(* outgoing changes), AbiCollab_Import.cpp (collision, revert, import),    *)
(* AccountHandler.cpp (join).  Session takeover is in SessionTakeover.     *)
(***************************************************************************)
EXTENDS ChangeHistory, FiniteSets

CONSTANTS
  Master, Slaves,
  NoDoc,          \* the UUID of the file the document was loaded from
  Saved,          \* the shared document was loaded from a file
  InitLen,        \* number of characters of the shared document
  Kinds,          \* what the users do: change spans or properties, undo or redo (slaves)
  Lengths,        \* the lengths of the spans they insert or delete
  MasterEdits, SlaveEdits,  \* bounds on the number of changes made by each user
  Redos,          \* bound: redos a slave may try beyond them
  EarlySlaves,    \* the slaves that have joined before the first step
  KnownAuthors    \* the slaves whose authors the document has when they join

ASSUME PeersAssumption == Master \notin Slaves /\ NoDoc \notin Slaves \cup {Master}
ASSUME EarlyAssumption == EarlySlaves \subseteq Slaves /\ KnownAuthors \subseteq Slaves
ASSUME BoundsAssumption ==
  /\ InitLen \in Nat /\ MasterEdits \in Nat /\ SlaveEdits \in Nat /\ Redos \in Nat
  /\ Lengths \subseteq Nat \ {0}
  /\ Kinds \subseteq {"insert", "delete", "docprop", "undo", "redo"}
  /\ Saved \in BOOLEAN

Peers == Slaves \cup {Master}

VARIABLES
  doc,          \* the tokens of the document of each peer
  crn,          \* PD_Document::m_iCRCounter: the revision of its last change
  edits,        \* how many changes the user of each peer has made
  adjusts,      \* ABI_Collab_Export::m_vecAdjusts
  remoteRevs,   \* ABI_Collab_Import::m_remoteRevs
  revertSet,    \* m_revertSet of the master
  reverted,     \* m_iAlreadyRevertedRevs of each slave
  hist,         \* the undo history of each slave
  members,      \* m_vCollaborators of the master
  phase,        \* "out", "joining" or "in": how far each slave has joined
  chan,         \* chan[p][q]: the packets from p to q under way
  asserts       \* the assertions of the import code that have failed

vars == <<doc, crn, edits, adjusts, remoteRevs, revertSet, reverted, hist, members,
          phase, chan, asserts>>
----------------------------------------------------------------------------
(* Packets.  The sender names the UUID (getOrigDocUUIDString) in them.     *)

ChangePacket(kind, pos, len, toks, rev, remoteRev) ==
  [type |-> "change", kind |-> kind, pos |-> pos, len |-> len, toks |-> toks,
   rev |-> rev, remoteRev |-> remoteRev]
RevertPacket(rev)    == [type |-> "revert", rev |-> rev]
RevertAckPacket(rev) == [type |-> "revertAck", rev |-> rev]
JoinRequest          == [type |-> "joinRequest"]
JoinResponse(d, rev) == [type |-> "joinResponse", doc |-> d, rev |-> rev]

LocalAdjust(kind, len) ==
  CASE kind = "insert" -> len [] kind = "delete" -> -len [] OTHER -> 0

(* ChangeAdjust: what the exporter remembers of a change it has pushed.    *)
ChangeAdjust(rev, kind, pos, len, remotePos, origin) ==
  [rev |-> rev, pos |-> pos, len |-> len, adjust |-> LocalAdjust(kind, len),
   remotePos |-> remotePos, origin |-> origin]

(* slaveInit: a void change with the revision of the master at the bottom.  *)
(* The document id in the answer is the id of the file, which is the UUID   *)
(* of the master's document only when that document is not from a file.    *)
VoidAdjust(rev) ==
  ChangeAdjust(rev, "docprop", 0, 0, 0, IF Saved THEN NoDoc ELSE Master)

(* push(pPacket): to every collaborator, with the revision of his that we   *)
(* have seen last (_fillRemoteRev).                                        *)
PushTo(c, p, targets, kind, pos, len, toks, rev) ==
  [c EXCEPT ![p] = [q \in Peers |->
     IF q \in targets
     THEN Append(@[q], ChangePacket(kind, pos, len, toks, rev, remoteRevs[p][q]))
     ELSE @[q]]]

SendTo(c, p, q, m) == [c EXCEPT ![p][q] = Append(@, m)]
Received(c, p, q)  == [c EXCEPT ![p][q] = Tail(@)]
HeadIs(p, q, type) == chan[p][q] # <<>> /\ Head(chan[p][q]).type = type

(* The pre-acknowledgement of a revert in _handleCollision (slip: none).    *)
PreAckSlip(c, s, rev) == c
PreAck(c, s, rev)     == SendTo(c, s, Master, RevertAckPacket(rev))

(* Whom import forwards a change of slave s to (slip: to s as well).        *)
ForwardTargetsSlip(s) == members
ForwardTargets(s)     == members \ {s}
----------------------------------------------------------------------------
(* Collisions *)

(* (a slip to test the properties with: changes at one position pass)       *)
IsOverlappingSlip(pos1, len1, pos2, len2) ==
  \/ pos1 < pos2 /\ pos1 + len1 - 1 >= pos2
  \/ pos1 > pos2 /\ pos2 + len2 - 1 >= pos1

IsOverlapping(pos1, len1, pos2, len2) ==
  \/ pos1 = pos2
  \/ pos1 < pos2 /\ pos1 + len1 - 1 >= pos2
  \/ pos1 > pos2 /\ pos2 + len2 - 1 >= pos1

(* Whether the sender of a change had seen entry c of the stack (slip: not  *)
(* the last one it had seen).                                              *)
SeenSlip(remoteRev, c) == remoteRev > c.rev
Seen(remoteRev, c) == remoteRev >= c.rev

(* _calculateCollisionSeqence: the first entry of the stack the remote side *)
(* may not have seen, past the ones that are its own.                      *)
CollisionStart(stack, remoteRev, origin) ==
  LET seen  == {i \in DOMAIN stack : Seen(remoteRev, stack[i])}
      above == IF seen = {} THEN 1 ELSE 1 + CHOOSE i \in seen : \A j \in seen : j <= i
      alien == {i \in above..Len(stack) : stack[i].origin # origin}
  IN  IF alien = {} THEN Len(stack) + 1 ELSE CHOOSE i \in alien : \A j \in alien : i <= j

(* _getIncomingAdjustmentForState undoes, newest first, the shifts that the *)
(* sender's own changes c made, so that its position can be compared with   *)
(* the state the collision sequence starts from, and lists the shifts to be *)
(* made again.  A position inside an earlier insertion goes back to its     *)
(* start, and the shift to be made again is computed only after that: 0.    *)
Inside(c, at, len) == c.adjust > 0 /\ IsOverlapping(c.remotePos, c.len, at, len)

TakenBack(c, at, len) ==
  IF c.remotePos >= at THEN 0 ELSE IF Inside(c, at, len) THEN at - c.remotePos ELSE c.adjust

MadeAgain(c, at, len) == IF c.remotePos >= at \/ Inside(c, at, len) THEN 0 ELSE c.adjust

(* _checkForCollision: walk the collision sequence upward, comparing with   *)
(* the changes of others and making the sender's own shifts again.  The    *)
(* rule set allows no overlap (isOverlapAllowed is a conjunction with a    *)
(* rule that is always false).  "rev" is the first change that overlaps,   *)
(* "adj" the shift of the incoming position.                               *)
CheckForCollision(stack, m, origin) ==
  LET seq    == SubSeq(stack, CollisionStart(stack, m.remoteRev, origin), Len(stack))
      n      == Len(seq)
      Own(i) == seq[i].origin = origin
      back[i \in 1..(n + 1)] ==
        IF i = n + 1 THEN 0
        ELSE back[i + 1] - IF Own(i) THEN TakenBack(seq[i], m.pos + back[i + 1], m.len) ELSE 0
      again  == [i \in 1..n |-> IF Own(i) THEN MadeAgain(seq[i], m.pos + back[i + 1], m.len) ELSE 0]
      shift[i \in 0..n] ==
        IF i = 0 THEN back[1]
        ELSE LET below == shift[i - 1]
             IN  IF Own(i) THEN below + again[i]
                 ELSE IF seq[i].pos < m.pos + below THEN below + seq[i].adjust ELSE below
      hits   == {i \in 1..n : /\ ~Own(i)
                              /\ IsOverlapping(m.pos + shift[i - 1], m.len, seq[i].pos, seq[i].len)}
      first  == Min(hits)
  IN  IF hits = {} THEN [denied |-> FALSE, rev |-> 0, adj |-> shift[n]]
      ELSE [denied |-> TRUE, rev |-> seq[first].rev,
            adj |-> FoldFunctionOnSet(+, shift[first - 1], again, first..n)]

(* The numbers of a finite set, in ascending order. *)
Ascending(S) ==
  [k \in 1..Cardinality(S) |-> CHOOSE i \in S : Cardinality({j \in S : j < i}) = k - 1]

(* Which entries of its stack slave s reverts: its own changes from         *)
(* revision rev on, looked for from the top.                               *)
Reverts(stack, s, rev) ==
  LET kept == {i \in DOMAIN stack : stack[i].rev < rev}
  IN  {i \in DOMAIN stack : stack[i].origin = s /\ \A k \in kept : k < i}

(* The position of entry i without the shifts of the entries "mine" below. *)
MovedBack(stack, mine, i) ==
  LET Back(pos, j) == IF stack[j].pos < pos THEN pos - stack[j].adjust ELSE pos
  IN  FoldLeft(Back, stack[i].pos, SetToSortSeq({j \in mine : j < i}, >))

(* A stack from which the entries "mine" are dropped. *)
Dropped(stack, mine) ==
  LET left == Ascending(DOMAIN stack \ mine)
  IN  [k \in DOMAIN left |-> [stack[left[k]] EXCEPT !.pos = MovedBack(stack, mine, left[k])]]

(* _handleCollision on slave s: undo the own changes from revision rev on,  *)
(* newest first, by one undo of the document each, which takes what is on  *)
(* top of the undo history and, if it finds anything, a revision number;   *)
(* drop them from the stack and move the entries above them back.          *)
RevertLocal(s, rev) ==
  LET mine == Reverts(adjusts[s], s, rev)
      undone[k \in 0..Cardinality(mine)] ==
        IF k = 0 THEN [doc |-> doc[s], h |-> hist[s], ix |-> 0]
        ELSE UndoCmd(undone[k - 1].doc, undone[k - 1].h)
      last == undone[Cardinality(mine)]
  IN  [doc   |-> last.doc,
       hist  |-> last.h,
       crn   |-> crn[s] + Cardinality({k \in 1..Cardinality(mine) : undone[k].ix # 0}),
       stack |-> Dropped(adjusts[s], mine)]
----------------------------------------------------------------------------
(* Applying a change to a document, and to the undo history of a slave.    *)

Applies(d, kind, pos, len) ==
  CASE kind = "insert" -> InBounds(d, pos, 0)
    [] kind = "delete" -> InBounds(d, pos, len)
    [] OTHER           -> TRUE

Applied(d, kind, pos, len, toks) ==
  CASE kind = "insert" -> Splice(d, pos, 0, toks)
    [] kind = "delete" -> Splice(d, pos, len, <<>>)
    [] OTHER           -> d

(* A span change enters the undo history after a look at its top (can it be *)
(* coalesced?  no: that is masked on the document of a slave); a document   *)
(* property is announced without entering it.                               *)
Recorded(h, d, kind, pos, len, toks, local) ==
  CASE kind = "insert" -> AddRecord(Peek(h), Change(kind, pos, toks, local))
    [] kind = "delete" -> AddRecord(Peek(h),
                            Change(kind, pos, SubSeq(d, pos - FirstPos + 1, pos - FirstPos + len), local))
    [] OTHER           -> h
----------------------------------------------------------------------------
InitDoc == [i \in 1..InitLen |-> <<Master, 0, i>>]

Init ==
  /\ doc        = [p \in Peers |-> IF p = Master \/ p \in EarlySlaves THEN InitDoc ELSE <<>>]
  /\ crn        = [p \in Peers |-> 0]
  /\ edits      = [p \in Peers |-> 0]
  /\ adjusts    = [p \in Peers |-> IF p \in EarlySlaves THEN <<VoidAdjust(0)>> ELSE <<>>]
  /\ remoteRevs = [p \in Peers |-> [q \in Peers |-> 0]]
  /\ revertSet  = <<>>
  /\ reverted   = [s \in Slaves |-> <<>>]
  /\ hist       = [s \in Slaves |-> EmptyHistory]
  /\ members    = EarlySlaves
  /\ phase      = [s \in Slaves |-> IF s \in EarlySlaves THEN "in" ELSE "out"]
  /\ chan       = [p \in Peers |-> [q \in Peers |-> <<>>]]
  /\ asserts    = {}

(* The peers p pushes its own changes to. *)
Collaborators(p) == IF p = Master THEN members ELSE {Master}
InSession        == {Master} \cup {s \in Slaves : phase[s] = "in"}

MayEdit(p) == p \in InSession /\ edits[p] < (IF p = Master THEN MasterEdits ELSE SlaveEdits)

(* ABI_Collab_Export::change for a change the user of p made: it is pushed  *)
(* to every collaborator and then remembered.                              *)
Export(p, kind, pos, len, toks) ==
  /\ chan'    = PushTo(chan, p, Collaborators(p), kind, pos, len, toks, crn[p] + 1)
  /\ adjusts' = [adjusts EXCEPT ![p] = Append(@, ChangeAdjust(crn[p] + 1, kind, pos, len, -1, p))]

(* The user of p changes the document. *)
Edit(p, kind, pos, len) ==
  LET toks == IF kind = "insert" THEN [i \in 1..len |-> <<p, crn[p] + 1, i>>] ELSE <<>>
  IN  /\ MayEdit(p)
      /\ Applies(doc[p], kind, pos, len)
      /\ Export(p, kind, pos, len, toks)
      /\ edits' = [edits EXCEPT ![p] = @ + 1]
      /\ doc'   = [doc EXCEPT ![p] = Applied(@, kind, pos, len, toks)]
      /\ crn'   = [crn EXCEPT ![p] = @ + 1]
      /\ hist'  = IF p = Master THEN hist
                  ELSE [hist EXCEPT ![p] = Recorded(@, doc[p], kind, pos, len, toks, TRUE)]
      /\ UNCHANGED <<remoteRevs, revertSet, reverted, members, phase, asserts>>

EditSpan(p) ==
  \E kind \in Kinds \cap {"insert", "delete"}, len \in Lengths,
     pos \in FirstPos..(FirstPos + Len(doc[p])) : Edit(p, kind, pos, len)

EditDocProp(p) == "docprop" \in Kinds /\ Edit(p, "docprop", 0, 0)

(* The user of a slave undoes his last change, or makes again what was      *)
(* undone last, by himself or by a revert: to the others it is a change     *)
(* like any other.  A fruitless try still leaves its marks on the history.  *)
Replay(s, u, undo) ==
  LET r    == u.h.recs[u.ix]
      kind == IF (r.kind = "insert") = undo THEN "delete" ELSE "insert"
  IN  /\ edits' = [edits EXCEPT ![s] = @ + 1]
      /\ doc'   = [doc EXCEPT ![s] = u.doc]
      /\ hist'  = [hist EXCEPT ![s] = u.h]
      /\ crn'   = [crn EXCEPT ![s] = IF u.ix = 0 THEN @ ELSE @ + 1]
      /\ IF u.done
         THEN Export(s, kind, Position(r), Len(r.toks), IF kind = "insert" THEN r.toks ELSE <<>>)
         ELSE UNCHANGED <<chan, adjusts>>
      /\ UNCHANGED <<remoteRevs, revertSet, reverted, members, phase, asserts>>

UserUndo(s) == "undo" \in Kinds /\ MayEdit(s) /\ Replay(s, UndoCmd(doc[s], hist[s]), TRUE)

UserRedo(s) ==
  /\ "redo" \in Kinds /\ s \in InSession /\ edits[s] < SlaveEdits + Redos
  /\ Replay(s, RedoCmd(doc[s], hist[s]), FALSE)

(* A slave asks to join. *)
Join(s) ==
  /\ phase[s] = "out"
  /\ phase' = [phase EXCEPT ![s] = "joining"]
  /\ chan'  = SendTo(chan, s, Master, JoinRequest)
  /\ UNCHANGED <<doc, crn, edits, adjusts, remoteRevs, revertSet, reverted, hist, members, asserts>>

(* AccountHandler::_handlePacket, JoinSessionRequestEvent: an author the    *)
(* document does not know is announced to the present collaborators as a   *)
(* document property; then the document is sent, and only then is the      *)
(* slave a collaborator.                                                   *)
HandleJoinRequest(s) ==
  LET known == s \in KnownAuthors
      rev   == IF known THEN crn[Master] ELSE crn[Master] + 1
      heard == Received(chan, s, Master)
      told  == IF known THEN heard
               ELSE PushTo(heard, Master, members, "docprop", 0, 0, <<>>, rev)
  IN  /\ HeadIs(s, Master, "joinRequest")
      /\ crn'     = [crn EXCEPT ![Master] = rev]
      /\ adjusts' = IF known THEN adjusts
                    ELSE [adjusts EXCEPT ![Master] =
                            Append(@, ChangeAdjust(rev, "docprop", 0, 0, -1, Master))]
      /\ chan'    = SendTo(told, Master, s, JoinResponse(doc[Master], rev))
      /\ members' = members \cup {s}
      /\ UNCHANGED <<doc, edits, remoteRevs, revertSet, reverted, hist, phase, asserts>>

(* JoinSessionRequestResponseEvent, and the slave constructor of AbiCollab *)
HandleJoinResponse(s) ==
  LET m == Head(chan[Master][s])
  IN  /\ HeadIs(Master, s, "joinResponse")
      /\ doc'        = [doc EXCEPT ![s] = m.doc]
      /\ adjusts'    = [adjusts EXCEPT ![s] = <<VoidAdjust(m.rev)>>]
      /\ remoteRevs' = [remoteRevs EXCEPT ![s] = [q \in Peers |-> IF q = Master THEN m.rev ELSE 0]]
      /\ reverted'   = [reverted EXCEPT ![s] = <<>>]
      /\ hist'       = [hist EXCEPT ![s] = EmptyHistory]
      /\ phase'      = [phase EXCEPT ![s] = "in"]
      /\ chan'       = Received(chan, Master, s)
      /\ UNCHANGED <<crn, edits, revertSet, members, asserts>>

(* _shouldIgnore: the changes of a slave the master waits for are dropped   *)
(* (slip: they are not).                                                    *)
AwaitedSlip(s) == FALSE
Awaited(s) == \E i \in DOMAIN revertSet : revertSet[i][1] = s

ImportIgnored(s) ==
  /\ HeadIs(s, Master, "change") /\ Awaited(s)
  /\ chan'    = Received(chan, s, Master)
  /\ members' = members \cup {s}
  /\ UNCHANGED <<doc, crn, edits, adjusts, remoteRevs, revertSet, reverted, hist, phase, asserts>>

(* _handleCollision on the master: refuse the change, tell the slave. *)
ImportRefused(s) ==
  LET m == Head(chan[s][Master])
  IN  /\ HeadIs(s, Master, "change") /\ ~Awaited(s)
      /\ CheckForCollision(adjusts[Master], m, s).denied
      /\ revertSet' = Append(revertSet, <<s, m.rev>>)
      /\ chan'      = SendTo(Received(chan, s, Master), Master, s, RevertPacket(m.rev))
      /\ members'   = members \cup {s}
      /\ UNCHANGED <<doc, crn, edits, adjusts, remoteRevs, reverted, hist, phase, asserts>>

(* ABI_Collab_Import::_import on peer p of the change m from q, at its      *)
(* adjusted position, in the state left by the collision handling. Past the *)
(* end of the document an assertion fails, and the change is tried.         *)
ImportAt(p, q, m, pos, d, h, stack, last) ==
  LET fits   == Applies(d, m.kind, pos, m.len)
      inside == Unsigned(pos) <= FirstPos + Len(d)
      rev    == last + 1
  IN  /\ remoteRevs' = [remoteRevs EXCEPT ![p][q] = m.rev]
      /\ doc'     = [doc EXCEPT ![p] = IF fits THEN Applied(d, m.kind, pos, m.len, m.toks) ELSE d]
      /\ crn'     = [crn EXCEPT ![p] = IF fits THEN rev ELSE last]
      /\ adjusts' = [adjusts EXCEPT ![p] =
                       IF fits THEN Append(stack, ChangeAdjust(rev, m.kind, pos, m.len, m.pos, q))
                       ELSE stack]
      /\ hist'    = IF p = Master THEN hist
                    ELSE [hist EXCEPT ![p] =
                            IF fits THEN Recorded(h, d, m.kind, pos, m.len, m.toks, FALSE) ELSE h]
      /\ asserts' = IF fits /\ inside THEN asserts ELSE asserts \cup {"position"}

(* The master takes the change of a slave and forwards what it made of it  *)
(* to everyone else.                                                       *)
ImportAccepted(s) ==
  LET m    == Head(chan[s][Master])
      coll == CheckForCollision(adjusts[Master], m, s)
      pos  == m.pos + coll.adj
  IN  /\ HeadIs(s, Master, "change") /\ ~Awaited(s)
      /\ ~coll.denied
      /\ ImportAt(Master, s, m, pos, doc[Master], EmptyHistory, adjusts[Master], crn[Master])
      /\ members' = members \cup {s}
      /\ chan'    = IF Applies(doc[Master], m.kind, pos, m.len)
                    THEN PushTo(Received(chan, s, Master), Master, ForwardTargets(s),
                                m.kind, pos, m.len, m.toks, crn[Master] + 1)
                    ELSE Received(chan, s, Master)
      /\ UNCHANGED <<edits, revertSet, reverted, phase>>

(* A slave takes a change of the master, that overlaps none of its own. *)
ImportFromMaster(s) ==
  LET m    == Head(chan[Master][s])
      coll == CheckForCollision(adjusts[s], m, Master)
  IN  /\ HeadIs(Master, s, "change")
      /\ ~coll.denied
      /\ ImportAt(s, Master, m, m.pos + coll.adj, doc[s], hist[s], adjusts[s], crn[s])
      /\ chan' = Received(chan, Master, s)
      /\ UNCHANGED <<edits, revertSet, reverted, members, phase>>

(* A slave whose own change is in the way undoes it, acknowledges that      *)
(* before it is told to, and takes the change of the master.               *)
ImportReverting(s) ==
  LET m    == Head(chan[Master][s])
      coll == CheckForCollision(adjusts[s], m, Master)
      back == RevertLocal(s, coll.rev)
  IN  /\ HeadIs(Master, s, "change")
      /\ coll.denied
      /\ ImportAt(s, Master, m, m.pos + coll.adj, back.doc, back.hist, back.stack, back.crn)
      /\ chan' = PreAck(Received(chan, Master, s), s, coll.rev)
      /\ reverted' = [reverted EXCEPT ![s] = Append(@, coll.rev)]
      /\ UNCHANGED <<edits, revertSet, members, phase>>

(* A slave is told to revert: it must have found the collision itself.     *)
ImportRevert(s) ==
  LET m     == Head(chan[Master][s])
      known == reverted[s] # <<>> /\ Head(reverted[s]) = m.rev
  IN  /\ HeadIs(Master, s, "revert")
      /\ reverted' = IF known THEN [reverted EXCEPT ![s] = Tail(@)] ELSE reverted
      /\ asserts'  = IF known THEN asserts ELSE asserts \cup {"outOfSync"}
      /\ chan'     = Received(chan, Master, s)
      /\ UNCHANGED <<doc, crn, edits, adjusts, remoteRevs, revertSet, hist, members, phase>>

(* The master gets an acknowledgement: it ends the first wait for s. *)
ImportRevertAck(s) ==
  LET m     == Head(chan[s][Master])
      waits == {i \in DOMAIN revertSet : revertSet[i][1] = s}
      first == CHOOSE i \in waits : \A j \in waits : i <= j
  IN  /\ HeadIs(s, Master, "revertAck")
      /\ revertSet' = IF waits = {} THEN revertSet ELSE RemoveAt(revertSet, first)
      /\ asserts'   = IF waits = {} THEN asserts \cup {"ackUnasked"}
                      ELSE IF revertSet[first][2] # m.rev THEN asserts \cup {"ackRev"} ELSE asserts
      /\ members'   = members \cup {s}
      /\ chan'      = Received(chan, s, Master)
      /\ UNCHANGED <<doc, crn, edits, adjusts, remoteRevs, reverted, hist, phase>>

UserStep ==
  \/ \E p \in Peers : EditSpan(p) \/ EditDocProp(p)
  \/ \E s \in Slaves : UserUndo(s) \/ UserRedo(s) \/ Join(s)

(* The main loop of the master takes the next packet from slave s ... *)
DeliverToMaster(s) ==
  \/ HandleJoinRequest(s)
  \/ ImportIgnored(s) \/ ImportRefused(s) \/ ImportAccepted(s) \/ ImportRevertAck(s)

(* ... and that of slave s the next one from the master. *)
DeliverToSlave(s) ==
  HandleJoinResponse(s) \/ ImportFromMaster(s) \/ ImportReverting(s) \/ ImportRevert(s)

Next == UserStep \/ \E s \in Slaves : DeliverToMaster(s) \/ DeliverToSlave(s)

Spec == Init /\ [][Next]_vars

(* The backends deliver what they were given, in order, and every delivery *)
(* is handled from the main loop; nobody has to edit or to join.  This is  *)
(* weak fairness of every delivery, written out: one is possible just when *)
(* a packet waits, and is the only step that takes a packet from a queue.  *)
Delivers(p, q)  == chan[p][q] # <<>> /\ chan'[p][q] = Tail(chan[p][q])
FairQueue(p, q) == []<>(chan[p][q] = <<>>) \/ []<><<Delivers(p, q)>>_vars

Fairness == \A s \in Slaves : FairQueue(s, Master) /\ FairQueue(Master, s)

FairSpec == Spec /\ Fairness
----------------------------------------------------------------------------
(* Properties *)

Revs    == 0..(2 * Cardinality(Peers) * (MasterEdits + SlaveEdits + Redos + Cardinality(Slaves)))
Chars   == Peers \X Nat \X Nat
Entries == [rev : Revs, pos : Int, len : Nat, adjust : Int, remotePos : Int,
            origin : Peers \cup {NoDoc}]
Records == [kind : {"insert", "delete"}, pos : Nat, adj : Int, toks : Seq(Chars), local : BOOLEAN]

(* The state has its types.  In particular the undo point of a slave stays  *)
(* within its history and the records skipped below it (getUndo indexes    *)
(* the vector with their difference), and revisions stay bounded.          *)
TypeOK ==
  /\ \A p \in Peers : /\ doc[p] \in Seq(Chars) /\ adjusts[p] \in Seq(Entries)
                      /\ crn[p] \in Revs /\ edits[p] \in 0..(MasterEdits + SlaveEdits + Redos)
  /\ remoteRevs \in [Peers -> [Peers -> Revs]]
  /\ revertSet \in Seq(Slaves \X Revs) /\ reverted \in [Slaves -> Seq(Revs)]
  /\ \A s \in Slaves : LET h == hist[s] IN
       /\ h.recs \in Seq(Records)
       /\ h.undoPos \in 0..Len(h.recs) /\ h.adjOff \in 0..h.undoPos /\ h.minUndo \in 0..h.undoPos
       /\ h.overlap \in BOOLEAN
  /\ members \subseteq Slaves /\ phase \in [Slaves -> {"out", "joining", "in"}]
  /\ \A p, q \in Peers : \A i \in DOMAIN chan[p][q] :
       chan[p][q][i].type \in {"change", "revert", "revertAck", "joinRequest", "joinResponse"}
  /\ asserts \subseteq {"position", "outOfSync", "ackUnasked", "ackRev"}

(* The changes in a queue, their revisions, and whether they are in order.  *)
Changes(queue)  == {i \in DOMAIN queue : queue[i].type = "change"}
RevsIn(queue)   == {queue[i].rev : i \in Changes(queue)}
InOrder(queue)  == \A i, j \in Changes(queue) : i < j => queue[i].rev < queue[j].rev

(* The revisions of the changes on a stack that s did not make and that are *)
(* newer than "seen"; and the revision of the master that s has come to,   *)
(* the first of which is in the answer to its join.                        *)
Newer(stack, s, seen) ==
  {stack[k].rev : k \in {j \in DOMAIN stack : stack[j].origin # s /\ stack[j].rev > seen}}
Answered(s) == chan[Master][s] # <<>> /\ chan[Master][s][1].type = "joinResponse"
SeenBy(s)   == IF Answered(s) THEN chan[Master][s][1].rev ELSE remoteRevs[s][Master]

(* Nothing is lost, repeated or reordered between the master and a slave in *)
(* the session, from the answer to its join on: the changes on their way   *)
(* to it are, in order, the ones on the stack of the master that are not   *)
(* its own and newer than the last it has seen.  (The collision sequence   *)
(* of both sides is computed from these revisions.  push, import, the join *)
(* handling of AccountHandler.)                                            *)
NothingLost ==
  \A s \in members :
    /\ RevsIn(chan[Master][s]) = Newer(adjusts[Master], s, SeenBy(s))
    /\ InOrder(chan[Master][s])

Quiet == \A p, q \in Peers : chan[p][q] = <<>>

Agreed == Quiet => \A s \in Slaves : phase[s] = "in" => doc[s] = doc[Master]
OneChangeEach == \A p \in Peers : edits[p] <= 1

(* As long as nobody has made more than one change, everyone has the same   *)
(* document when every packet has been handled: the master arbitrates.     *)
Converged == OneChangeEach => Agreed

(* Until then no assertion of the import code fails: every refusal of the   *)
(* master meets a collision the slave has found by itself, and every       *)
(* acknowledgement a refusal of the same revision (_import, the cases      *)
(* Revert and RevertAck).                                                   *)
NoFailedAssertion == OneChangeEach => asserts = {}

(* However many changes there are, documents that differ when nothing is    *)
(* under way have been noticed: some assertion of the import code has      *)
(* failed before.                                                           *)
NeverSilentlyApart == asserts = {} => Agreed

(* The entries of a stack that s has made, and those it has not; and what   *)
(* the chosen entries have done to the text, from the oldest on.            *)
From(stack, s)  == {i \in DOMAIN stack : stack[i].origin = s}
Alien(stack, s) == {i \in DOMAIN stack : stack[i].origin # s}
Shape(stack, chosen) ==
  LET at == Ascending(chosen)
  IN  [k \in DOMAIN at |-> <<stack[at[k]].len, stack[at[k]].adjust>>]

(* When nothing is under way and no assertion has failed, the stacks of a   *)
(* slave and the master hold the same changes: those of the slave, and     *)
(* those of others since it joined, in the same order.                     *)
Agree(s) ==
  LET mine   == adjusts[s]
      his    == adjusts[Master]
      theirs == {i \in Alien(his, s) : his[i].rev > mine[1].rev}
  IN  /\ Shape(mine, From(mine, s)) = Shape(his, From(his, s))
      /\ Shape(mine, Alien(mine, s) \ {1}) = Shape(his, theirs)

StacksAgree == Quiet /\ asserts = {} => \A s \in Slaves : phase[s] = "in" => Agree(s)

(* The revisions that a step takes off the stack of s. *)
Nuked(s) == {c.rev : c \in ToSet(adjusts[s])} \ {c.rev : c \in ToSet(adjusts'[s])}

(* With insertions only: a revert takes back exactly the changes it takes   *)
(* off the stack, whatever others have inserted since, and nothing else    *)
(* (_handleCollision drives the undo history of the document blindly).     *)
RevertIsExact ==
  [][\A s \in Slaves : ImportReverting(s) =>
       LET own  == {<<s, rev, i>> : rev \in Nuked(s), i \in Lengths}
           new  == ToSet(Head(chan[Master][s]).toks)
       IN  SelectSeq(doc[s], LAMBDA t : t \notin own) = SelectSeq(doc'[s], LAMBDA t : t \notin new)
    ]_vars

(* What the changes of a stack with these revisions have added to the text. *)
Growth(stack, revs) ==
  FoldFunctionOnSet(+, 0, [i \in DOMAIN stack |-> stack[i].adjust],
                    {i \in DOMAIN stack : stack[i].rev \in revs})

(* With insertions only, a revert undoes the changes it takes off the       *)
(* stack: the document shrinks by what they had added ("undo the change     *)
(* locally" in _handleCollision), then grows by the incoming change.        *)
RevertBalances ==
  [][\A s \in Slaves : ImportReverting(s) /\ asserts' = asserts =>
       Len(doc'[s]) = Len(doc[s]) - Growth(adjusts[s], Nuked(s)) + Last(adjusts'[s]).adjust
    ]_vars

(* Undoing and redoing are inverses, whatever others have changed since:    *)
(* a redo right after an undo gives back the document, and can be undone    *)
(* again (getUndo and getRedo correct a record each in its own way).        *)
RedoUndoes ==
  \A s \in Slaves :
    LET undo  == UndoCmd(doc[s], hist[s])
        redo  == RedoCmd(undo.doc, undo.h)
        again == UndoCmd(redo.doc, redo.h)
    IN  undo.done => /\ redo.done /\ redo.doc = doc[s]
                     /\ again.done /\ again.doc = undo.doc

(* As long as nobody makes a second change, a slave whose change was        *)
(* refused is listened to again: the wait of the master for its            *)
(* acknowledgement ends.                                                    *)
AwaitEnds == \A s \in Slaves : Awaited(s) ~> ~Awaited(s) \/ ~OneChangeEach

(* The master never waits for an acknowledgement that nobody will send: the *)
(* queues are not all empty while it drops the packets of a slave ("until   *)
(* we see it", _shouldIgnore).                                              *)
NoVainWait == Quiet => \A s \in Slaves : ~Awaited(s)
----------------------------------------------------------------------------
(* The invariant that NothingLost needs to be inductive. *)

IsSeq(c) == Len(c) \in Nat /\ c = [i \in 1..Len(c) |-> c[i]]

NoType(queue, type) == \A i \in 1..Len(queue) : queue[i].type # type

(* The queues of the peers, and a stack none of whose entries is newer than *)
(* the revision "top" of the document.                                     *)
Net(c) ==
  /\ DOMAIN c = Peers
  /\ \A p \in Peers : DOMAIN c[p] = Peers /\ \A q \in Peers : IsSeq(c[p][q])

StackOK(stack, top) ==
  /\ top \in Nat /\ IsSeq(stack)
  /\ \A i \in 1..Len(stack) : stack[i].rev \in Nat /\ stack[i].rev <= top

(* NothingLost for one slave s and the queue of the master to it, where    *)
(* "seen" is the last revision of the master that it has imported.         *)
SeenUpTo(queue, seen) ==
  IF queue # <<>> /\ queue[1].type = "joinResponse" THEN queue[1].rev ELSE seen

Flow(queue, stack, s, seen, top) ==
  /\ SeenUpTo(queue, seen) \in Nat /\ SeenUpTo(queue, seen) <= top
  /\ RevsIn(queue) = Newer(stack, s, SeenUpTo(queue, seen))
  /\ InOrder(queue)

(* How far s has joined, in step with what waits in both queues. *)
JoinStage(s) ==
  \/ /\ phase[s] = "out" /\ s \notin members
     /\ chan[s][Master] = <<>> /\ chan[Master][s] = <<>>
  \/ /\ phase[s] = "joining" /\ s \notin members
     /\ chan[s][Master] = <<JoinRequest>> /\ chan[Master][s] = <<>>
  \/ /\ phase[s] = "joining" /\ s \in members
     /\ chan[s][Master] = <<>>
     /\ Answered(s) /\ NoType(Tail(chan[Master][s]), "joinResponse")
  \/ /\ phase[s] = "in" /\ s \in members
     /\ NoType(chan[s][Master], "joinRequest")
     /\ NoType(chan[Master][s], "joinResponse")

SlaveInv(s) ==
  /\ JoinStage(s)
  /\ s \in members => Flow(chan[Master][s], adjusts[Master], s, remoteRevs[s][Master], crn[Master])

(* The join of every slave goes through its stages with one request and one *)
(* answer, which comes before every change; the revisions of the master    *)
(* grow; and nothing is lost (push, import, AccountHandler::_handlePacket). *)
IInv ==
  /\ DOMAIN crn = Peers /\ DOMAIN adjusts = Peers
  /\ DOMAIN remoteRevs = Peers /\ \A p \in Peers : DOMAIN remoteRevs[p] = Peers
  /\ DOMAIN phase = Slaves /\ members \subseteq Slaves
  /\ Net(chan)
  /\ StackOK(adjusts[Master], crn[Master])
  /\ \A s \in Slaves : SlaveInv(s)
----------------------------------------------------------------------------
(* The invariant that StacksAgree needs to be inductive: what the queues    *)
(* say of the changes that one side has on its stack and the other has not. *)

(* The acknowledgements in the queue of a slave; the revisions of s that    *)
(* the master waits to see reverted.                                        *)
Acks(queue) == {i \in DOMAIN queue : queue[i].type = "revertAck"}
Waits(s)    == {revertSet[i][2] : i \in {j \in DOMAIN revertSet : revertSet[j][1] = s}}

(* An acknowledgement that the master can expect: the first one in the      *)
(* queue answers what he waits for; before any other, and before the first  *)
(* when he does not wait, there is the change that he has to refuse. If one *)
(* is in the queue that he cannot expect, an assertion is going to fail.    *)
Expected(queue, wait, a) ==
  \/ (\A b \in Acks(queue) : b >= a) /\ wait = {queue[a].rev}
  \/ \E j \in Changes(queue) :
       /\ j < a /\ queue[j].rev = queue[a].rev
       /\ \A b \in Acks(queue) : b < j \/ b >= a
       /\ wait # {} => \E b \in Acks(queue) : b < j

InStep(queue, wait) == \A a \in Acks(queue) : Expected(queue, wait, a)

(* The changes in the queue of a slave that it has not reverted since, and  *)
(* those on its stack that the master has not imported.  When he waits and  *)
(* the slave has not answered, they are all from the refused one on.        *)
Survivors(queue) ==
  {i \in Changes(queue) : \A a \in Acks(queue) : i < a => queue[i].rev < queue[a].rev}
Pending(stack, s, queue, wait) ==
  {k \in From(stack, s) :
     IF wait # {} /\ Acks(queue) = {} THEN \E w \in wait : stack[k].rev >= w
     ELSE \E i \in Survivors(queue) : queue[i].rev = stack[k].rev}

(* Packet m is about the change that entry e remembers. *)
SameChange(m, e) == m.len = e.len /\ LocalAdjust(m.kind, m.len) = e.adjust

(* The stack of a slave: a change that is not its own at the bottom, the    *)
(* revisions of its document above it; no revision in its queue is newer    *)
(* than the document, and none is as old as one the master waits for.       *)
IsEntry(e) ==
  e = [rev |-> e.rev, pos |-> e.pos, len |-> e.len, adjust |-> e.adjust,
       remotePos |-> e.remotePos, origin |-> e.origin]

SlaveStack(stack, s, top) ==
  /\ top \in Nat /\ IsSeq(stack) /\ Len(stack) >= 1
  /\ stack[1].origin # s /\ stack[1].rev \in Nat
  /\ \A i \in 1..Len(stack) : IsEntry(stack[i])
  /\ \A i \in 2..Len(stack) : stack[i].rev \in Nat /\ stack[i].rev <= top
  /\ \A i, j \in 2..Len(stack) : i < j => stack[i].rev < stack[j].rev

SlaveQueue(queue, wait, top) ==
  /\ InOrder(queue)
  /\ \A i \in Changes(queue) : queue[i].rev \in Nat /\ queue[i].rev <= top
  /\ \A w \in wait : /\ w \in Nat /\ w <= top
                     /\ \A i \in Changes(queue) : w < queue[i].rev

(* The master has, in order, the changes of s that are not pending; those   *)
(* that survive in its queue are on its stack.                              *)
OwnAgree(stack, his, s, queue, wait) ==
  LET pending == Pending(stack, s, queue, wait)
  IN  /\ \A i \in Survivors(queue) :
           \E k \in From(stack, s) : stack[k].rev = queue[i].rev /\ SameChange(queue[i], stack[k])
      /\ \A k \in From(stack, s) \ pending : \A i \in Changes(queue) : stack[k].rev < queue[i].rev
      /\ Shape(his, From(his, s)) = Shape(stack, From(stack, s) \ pending)

(* What a slave has reverted and not been told to is behind every change in *)
(* its queue, or acknowledged there; while the master waits in vain, the    *)
(* slave has yet to be told.                                                *)
RevertsOK(done, queue, back, wait, top) ==
  /\ IsSeq(done)
  /\ \A n \in 1..Len(done) :
       /\ done[n] \in Nat /\ done[n] <= top
       /\ \A i \in Changes(queue) :
            done[n] = queue[i].rev => \E a \in Acks(queue) : i < a /\ queue[a].rev = queue[i].rev
       /\ Acks(queue) = {} => done[n] \notin wait
  /\ Acks(queue) = {} =>
       \A w \in wait : \E i \in DOMAIN back : back[i].type = "revert" /\ back[i].rev = w

(* The slave has, in order, the changes of others since it joined that it   *)
(* has seen.                                                                *)
AlienAgree(stack, his, s, seen) ==
  /\ seen \in Nat /\ stack[1].rev <= seen
  /\ Shape(stack, Alien(stack, s) \ {1}) =
     Shape(his, {i \in Alien(his, s) : his[i].rev > stack[1].rev /\ his[i].rev <= seen})

MasterStack(stack) ==
  /\ \A i, j \in 1..Len(stack) : i < j => stack[i].rev < stack[j].rev

(* The packets to s say what the stack of the master says. *)
Told(s) ==
  \A i \in Changes(chan[Master][s]) : \A j \in Alien(adjusts[Master], s) :
    chan[Master][s][i].rev = adjusts[Master][j].rev =>
      SameChange(chan[Master][s][i], adjusts[Master][j])

SyncedInv(s) ==
  LET stack == adjusts[s]
      queue == chan[s][Master]
  IN  /\ SlaveStack(stack, s, crn[s])
      /\ SlaveQueue(queue, Waits(s), crn[s])
      /\ asserts = {} =>
           /\ AlienAgree(stack, adjusts[Master], s, remoteRevs[s][Master])
           /\ InStep(queue, Waits(s)) =>
                /\ OwnAgree(stack, adjusts[Master], s, queue, Waits(s))
                /\ RevertsOK(reverted[s], queue, chan[Master][s], Waits(s), crn[s])

(* The stack of the master agrees with those of the slaves up to what the   *)
(* queues hold, or an assertion has failed, or is going to (push, import,   *)
(* _handleCollision, _shouldIgnore).                                        *)
SyncInv ==
  /\ IInv
  /\ MasterStack(adjusts[Master])
  /\ DOMAIN reverted = Slaves
  /\ IsSeq(revertSet)
  /\ \A i \in 1..Len(revertSet) : revertSet[i][1] \in Slaves
  /\ \A i, j \in 1..Len(revertSet) : revertSet[i][1] = revertSet[j][1] => i = j
  /\ \A s \in Slaves :
       /\ crn[s] \in Nat
       /\ s \in members => Told(s)
       /\ phase[s] # "in" => Waits(s) = {} /\ From(adjusts[Master], s) = {}
       /\ phase[s] = "in" => SyncedInv(s)
============================================================================
