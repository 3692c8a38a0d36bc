# AbiWord collaboration: specifications, checks and proofs

This directory verifies the collaboration core of AbiWord (`plugins/collab/core`, the TCP backend under it, and
the parts of the piece table under `src/text/ptbl` it drives), and the tracked changes of the piece table, the
other machinery that takes back what a user did. Several people edit copies of one document; every change
is applied at once where it is made and sent to the others, and one peer, the *master* of the session,
is the referee when two changes collide. There is no operational transformation and no locking: a
change that collides is refused, and its author takes it back by driving the *undo history* of his
document. Whether the copies stay equal hangs on the order of packets and on revision numbers, which is
what unit tests hardly reach and what the modules here are about.

## 1. Inventory

| component | state it keeps | operations | hard behaviours | what makes it correct |
|---|---|---|---|---|
| `ABI_Collab_Export` | `m_vecAdjusts`, the stack of outgoing changes (`ChangeAdjust`); the glob being built | `change` (listener of the document), `slaveInit`, `masterInit` | the stack is read while packets of others are under way; globs nest | stack and document agree; master and slaves have the same changes on their stacks |
| `ABI_Collab_Import` | `m_remoteRevs`, `m_revertSet` (refusals not yet acknowledged), `m_iAlreadyRevertedRevs` | `import`, `_checkForCollision`, `_handleCollision`, `_shouldIgnore` | crossing packets, a collision only one side sees, reverts through the undo history, acknowledgements ahead of the question | copies converge; no assertion fails; every refused slave is listened to again |
| `AbiCollab` | collaborators, export mask, mouse-drag and takeover queues, takeover state | `push`, `import` (forwarding), `addCollaborator`, `removeCollaborator`, `initiateSessionTakeover`, `_handleSessionTakeover` | forwarding while importing; a session that changes its master while changes are under way | nothing lost, repeated or reordered; one master; a takeover ends |
| `AccountHandler`, `AbiCollabSessionManager` | accounts, sessions, asynchronous operations | `_handlePacket` (join), `joinSession`, `startSession`, `closeSession`, `disconnectSession(s)`, `removeBuddy`, `processPacket` | joining while others edit; removing sessions while walking them | the document in the answer and the first change after it fit together |
| `px_ChangeHistory` | change records, undo point, offset for remote records, `m_iMinUndo`, save position | `addChangeRecord`, `getUndo`, `getRedo`, `didUndo`, `didRedo`, `coalesceHistory` | local and remote records on one stack; positions corrected with unsigned arithmetic; looks with side effects | undo takes back the right record at the right place; counters stay in range |
| `pt_PieceTable` | fragments, attribute indexes | `insertSpan`, `deleteSpan`, `changeSpanFmt`, `undoCmd`, `redoCmd`, globs | fragments melt together and split under iterators that walk them | documents are what their changes say |
| TCP backend (`Session`, `TCPAccountHandler`) | a queue in each direction, the buffers of the write under way, the socket | `asyncWrite`, the handlers of reads and writes, `push`, `pop`, `handleEvent` | a socket thread and the main loop share a queue without a lock; the end of a connection races the packets before it | packets are handled once and in order; the end is noticed after them |
| other backends (realm service, XMPP, Telepathy, Sugar, SIPSIMPLE) | queues of packets | `send`, `handleMessage` | | as above |
| `Synchronizer`, `SynchronizedQueue` | a pipe, a queue | `signal`, `_consume`, `push`, `pop` | socket thread and main loop | every packet is handled |
| `PP_RevisionAttr` and marking (tracked changes) | for each piece of text a list of what each revision did to it; marking on or off, the current revision | marked `insertSpan`, `deleteSpan`, `changeSpanFmt`; `acceptRejectRevision`, `acceptAllRevisions`, `rejectAllHigherRevisions`, `explodeRevisions` | an editor who changes his mind within one revision; walks over fragments that the walk itself melts together | the attributes show what the user did; rejecting undoes, accepting keeps, versions can be restored |

Interaction: a user command changes the piece table, which appends to the undo history and notifies the
document's listeners; the exporter is one of them and calls `AbiCollab::push`, which hands packets to the
backend of every collaborator. A backend delivers from the main loop to `AccountHandler::handleMessage`,
which gives session packets to `AbiCollab::import`; there the export is *masked*, the importer checks for
a collision and applies the change to the piece table, the exporter hears of it as of any change and its
packets are collected; after the import a master forwards what was collected to everyone else.
Everything in the core runs on the main loop of one process, so the interleavings that matter are those
of packets between processes; only the backends have threads. But the main loop nests: the session manager
waits for a save in a loop of its own, and tells the user that a session is over in a modal box, and both
handle packets meanwhile.

## 2. Modules

| module | what it is |
|---|---|
| `ChangeHistory` | the undo history as operators on a record, and `UndoCmd`, one undo on a document |
| `CollabSession` | a session: state, one action per user command and per packet handler, properties, inductive invariant |
| `MCCollabSession` | `CollabSession` for TLC; the `.cfg` files choose peers, lengths and bounds |
| `CollabSession_proofs` | proofs: nothing is lost between a master and a slave |
| `OwnChanges_proofs` | lemmas for the next: ascending numbers, shapes of stacks, packets in queues, the changes of a slave itself |
| `StacksAgree_proofs` | proofs: the stacks of a slave and the master agree, for any slaves and changes, refused and reverted ones included |
| `SessionTakeover` | a master that leaves its session and hands it over, while everybody goes on editing |
| `MCSessionTakeover` | `SessionTakeover` for TLC |
| `SessionTakeover_proofs` | proofs: one master, nobody refused, the old session flushed, for any number of slaves |
| `TakeoverLossless_proofs` | proofs: a takeover in which nobody edits between the sessions loses nothing, for any number of slaves |
| `SessionManager` | who shares, joins and leaves which session, and how sessions end, with nested main loops |
| `MCSessionManager` | `SessionManager` for TLC |
| `SessionManager_proofs` | proofs: the list of sessions and the objects stay together, for any peers and sessions |
| `NoGhosts_proofs` | proofs: a master and a slave agree on who is in a session, for any peers, sessions and failures |
| `FifoChannel` | what the session code assumes of a backend: an abstract channel |
| `TcpSession` | one direction of a TCP connection: two main loops and two socket threads; implements `FifoChannel` |
| `MCTcpSession` | `TcpSession` for TLC |
| `TcpSession_proofs` | proofs: the refinement of `FifoChannel` and the invariants of `TcpSession`, for any packets |
| `RevisionAttr` | the revision attribute of a piece of text, as operators on a sequence |
| `TrackedChanges` | a paragraph with change marking: typing, deleting, formatting, accepting, rejecting |
| `MCTrackedChanges` | `TrackedChanges` for TLC |

The queues `chan[p][q]` of `CollabSession` and `SessionTakeover` are the channel that `FifoChannel` describes, up to
the moment its receiver drops the sender; `TcpSession` shows that the TCP backend provides it.
A definition with a name that ends in `Slip` is not part of a specification: it is the mutated form of the
definition after it, a plausible mistake, kept to see that the properties notice it.

### State of `CollabSession` and the code

`doc` and `crn` are the text and `m_iCRCounter` of each copy; `adjusts` is `m_vecAdjusts`; `remoteRevs`,
`revertSet` and `reverted` are `m_remoteRevs`, `m_revertSet` and `m_iAlreadyRevertedRevs`; `hist` is the
`px_ChangeHistory` of each slave (a master never reverts, so his is left out); `members` is
`m_vCollaborators` of the master; `chan[p][q]` are the packets under way. `asserts` collects the
assertions of the import code that have failed: they are `UT_ASSERT_HARMLESS`, after which a release
build goes on, and so does the model.

| action | code |
|---|---|
| `EditSpan`, `EditDocProp` | a user command up to the end of `ABI_Collab_Export::change` and `AbiCollab::push` |
| `UserUndo`, `UserRedo` | `PD_Document::undoCmd` and `redoCmd` on a slave; what they change is exported like any other change |
| `Join`, `HandleJoinRequest`, `HandleJoinResponse` | `AccountHandler::_handlePacket` and the slave constructor of `AbiCollab` |
| `ImportIgnored` | `_shouldIgnore` says yes: a change of a slave that owes an acknowledgement |
| `ImportRefused` | `_handleCollision` on the master |
| `ImportAccepted` | `import` on the master, with the forwarding in `AbiCollab::import` |
| `ImportFromMaster`, `ImportReverting` | `import` on a slave without and with `_handleCollision` |
| `ImportRevert`, `ImportRevertAck` | the two cases of `_import` |

Abstractions of `CollabSession`. A change inserts or deletes a span, or sets a document property (position and length 0, as
`createAndSendDocPropCR` sends it, which is also how an unknown author is announced). Characters carry who
inserted them and when, so that equal documents really are the same edits. A deletion that crosses text
fragments is exported as a glob packet by the code and is one change here. Positions wrap at 2^16 instead
of 2^32, far above any length that occurs. An insertion past the end of the document fails an assertion
(`AbiCollab_Import.cpp:621`) and is appended, as the piece table does. Backends deliver in order and once, which is what TCP and the
message services promise and what the import code assumes; `TcpSession` is about whether the TCP backend does.

### State of `SessionTakeover` and the code

`state`, `controller`, `collaborators`, `proposed`, `promoted`, `acked`, `flushed` and `outgoing` are the members
of `AbiCollab` named beside them in the module; `approved` is `m_vApprovedReconnectBuddies` reduced to the
buddies whose flag is still false. `life` says where the session object is: in use, in the wait of
`_deleteSession` for the asynchronous operation of the takeover, past that wait, or deleted.

| action | code |
|---|---|
| `Edit` | a change by the user, up to the end of `AbiCollab::push` |
| `InitiateSessionTakeover` | `disconnectSession` on a master: `initiateSessionTakeover` and `closeSession` up to the wait |
| `ImportChange` | `AbiCollab::import` of a change, with the forwarding |
| `HandleRequest`, `HandleAck`, `BecomeMaster`, `SwitchMaster`, `HandleReconnectRequest`, `RestartAsSlave` | the cases of `_handleSessionTakeover`, each with the function it calls; `CheckRestartAsMaster` is the end of two of them |
| `Refuse` | one of the checks of the handlers fails, and the packet is dropped |
| `DeleteSession`, `RemoveBuddy`, `DropUnknown` | the wait is over: the session is deleted, the backend leaves, and the others hear of it (`removeBuddy`); later packets for the session find no session |

A change is only a name here. What a collision does is the business of `CollabSession`; what it rests on is
that a peer has on its stack every change the author of a packet had not seen. So each packet carries
`seen`, the document it was made in, and `stack` is a set: `Accounted` compares the two. Three history
variables serve the properties alone: `old` (what the leaving master had when it released the others),
`refused`, and `rash` (somebody has edited between two sessions). Notice of a peer that has left comes after
its packets, as the message bus of the Sugar backend and the realm server deliver it. The leaving master
may still edit between the last acknowledgement and its deletion: `_nullUpdate` runs up to ten events of the
main loop before the wait is looked at again.

### State of `SessionManager` and the code

`list` is `m_vecSessions`, in its order; `alive` the session objects that exist; they are two variables because
`destroySession` deletes an object and then an *index*. `collaborators` is `m_vCollaborators` of the sessions a peer
has started, `saving` is `m_asyncSessionOps`. `frames[p]` is the stack of calls in progress in process p: a
`destroySession` that waits in `_deleteSession`, a modal box, the walks of `removeBuddy` and `disconnectSessions`.

| action | code |
|---|---|
| `StartSession`, `AskToJoin`, `DisconnectSession`, `Quit` | what users start: `startSession`, `joinSessionInitiate`, `disconnectSession` (which is `closeSession` for a master and `disjoinSession` for a slave), `abi_plugin_unregister` |
| `Save`, `SaveCb` | a save to abicollab.net, from `beginAsyncOperation` to `endAsyncOperation` in its callback |
| `HandleStart`, `HandleJoinRequest`, `HandleJoinResponse`, `HandleDisjoin`, `HandleClose` | the cases of `processPacket` and `_handlePacket`, up to the call of `destroySession` where there is one |
| `HandleLost`, `RemoveBuddy`, `RemoveBuddyReturns` | a connection that is over, and the walk of `removeBuddy` over the sessions, a turn at a time |
| `DisconnectSessions` | a turn of the loop of that name, which a user who quits starts |
| `DestroySession` | the rest of `destroySession` after the wait: the object, the index, the packet or the box that follows |
| `Dismiss` | the user closes a box |
| `Break`, `Gone` | the connection between two peers ends |

The event source that delivers the packets of one peer is not served again while a packet of that peer is being
handled (GLib blocks a source that is dispatching), so a nested main loop handles the *other* peers. A call that
does not wait runs to its end in one go (`Busy`), since nothing in it lets the main loop run. Deleting an object
twice or an index past the end is a crash. `nested` remembers the processes in which one session was
destroyed within the wait for another: there the index found before the wait (:568) is stale after it, and the
properties say nothing about them (section 5). Sessions on abicollab.net (`Stored`) have no members here, since
those connect through its realm; they are there for the save a session has to wait for.

### State of `TcpSession` and the code

`outgoing`, `incoming`, `packetWrite` (`packet_size_write` and `packet_data_write`) are the members of `Session`;
`asyncWrite` and `handleEvent` say where each main loop is in the function of that name; `writes` are the
`async_write` operations under way, `wire` is what the connection holds, `pipe` counts the bytes in the pipe of
the `Synchronizer`. The n-th packet sent is the number n. Nothing in the code keeps `asyncWrite` and `asyncWriteHandler`
apart, and nothing in the model does: their accesses to `outgoing` interleave in every way, single operations of the
deque being atomic. Of all these ways one does harm: the last packet is taken off the queue while `asyncWrite` looks at it, so
that it believes a write is in progress which is not, or the handler finds a packet the other is about to write. The history
variable `raced` records that it has happened. Afterwards sizes and data need not alternate on the wire; the receiver then
takes data for a size, or what follows a size for data (`ReadGarbled`), and gets the packet 0, garbage.
Of the other direction of the connection there is one thing, a write of the receiver that fails
(`ownWrite`): its handler closes the socket, perhaps with a completed read still to be handled.

| action | code |
|---|---|
| `CheckInProgress`, `PushBack`, `StartWrite` | the three steps of `asyncWrite`, on the main loop of the sender |
| `WriteHeaderHandler`, `PopFront`, `WriteNext`, `WriteFails` | the handlers of writes, on the thread of his sockets |
| `ReadHeader`, `ReadBody`, `SignalPacket` | the handlers of reads and `push`, on the socket thread of the receiver |
| `ReadGarbled` | the same two handlers, when they read at the wrong place after a race of the sender |
| `OwnWriteFails`, `SignalOwnFailure` | the handler of a failed write of the receiver, on the same thread: `disconnect` |
| `ReadFails`, `SignalDisconnect` | `disconnect`: the socket is closed, then the main loop is signalled |
| `HandleEvent`, `HandleMessage`, `MessagesDone`, `DropDisconnected` | `callMainloop` and `handleEvent` on the main loop of the receiver |
| `Break` | the connection ends, and only a prefix of what it holds arrives |

A packet of more than 64 MB (`Huge`) is refused by its reader, which disconnects, and a protocol error (`Errors`)
makes the main loop of the receiver close the socket.

### State of `TrackedChanges` and the code

`text` is the paragraph: each character with its place in the buffer, its format and its revision attribute, a
sequence of entries as in `PP_RevisionAttr`. Fragments are not state: `_fmtChangeSpan` and `_unlinkFrag` melt
neighbours with equal attributes whose text is contiguous in the buffer, so a fragment is a maximal run of
`Together` characters, and the walks (`DeleteStep`, `FormatStep`, `ResolveStep`, `SelectionStep`) count in lengths of
fragments just as the code does. `marking` and `level` are `isMarkRevisions` and `getRevisionId`. The program does
not keep `truth`: it records what the user did, for every character and revision, and the properties compare
the attributes with it.

| action | code |
|---|---|
| `Type`, `Delete`, `Format` | `insertSpan`, `deleteSpan`, `changeSpanFmt`; with marking off only the first two |
| `StartRevision`, `ToggleMarking` | `startNewRevision`, `toggleMarkRevisions` |
| `ResolveSelection` | `cmdAcceptRejectRevision`, with every revision the view can be set to |
| `PurgeAllRevisions`, `RestoreVersion` | `acceptAllRevisions`; `rejectAllHigherRevisions` for a version of the history |

Three kinds of characters are excepted from the properties, each because of a defect of its own (section 5):
`stray` were typed with marking off and got the leftover attribute of a neighbour; `marred` were overwritten
together with a fragment they are not part of; and where the iterator of a walk came to stand inside a fragment the
walk is not `clean`. `MarkingKeepsText` and `EveryVersionRestores` are the properties without the last two exceptions, and fail.
After all changes have been accepted the model goes on with the current revision number, as auto-revisioning
does, where the dialog of the menu would start at 1 again. Struxes, undo and paragraph styles are left out.

## 3. Runs

| run | instance | shows |
|---|---|---|
| `Inserts` | a slave and the master, two insertions of one character each | refusals and reverts, with up to two own changes taken back: `NothingLost`, `StacksAgree`, `NeverSilentlyApart`, `RevertIsExact`, `RevertBalances`, and `SyncInv`, the invariant of the proof of `StacksAgree` |
| `Edits` | a document from a file, a slave that joins, one change of the master, two of the slave, inserted, deleted or undone, of one or two characters, and a redo | every overlap of two crossing changes, as long as nobody makes a second one: `Converged`, `NoFailedAssertion`; always: `TypeOK` (the undo point stays in its history), `RedoUndoes` (a redo gives back what an undo took, whatever came in between from the other side) |
| `Referee` | two slaves, one joins while the others edit, one change each, document properties | arbitration, forwarding, joining: `IInv` (the invariant of the proof), `Converged`, `NoFailedAssertion`, `AwaitEnds` |
| `DeafMaster` | as `Inserts` | **violated**: `NoVainWait` |
| `Takeover` | a master leaves two slaves, each of the three edits once, at any time | `OneMaster`, `NoneRefused`, `OldSessionFlushed`, `RestartsFlushed`, `TakeoverEnds`, and, as long as nobody edits between the sessions, `TakeoverIsLossless` and `TakeoverIsAccounted`; and the invariants of the proofs, `IInv` (with `TypeOK`), `FlushInv` and `LosslessInv` |
| `TakeoverLoses` | one slave edits | **violated**: `SameChanges` |
| `Sessions` | a TCP server and two clients; server or client shares a document, the other client has one on abicollab.net; two joins, a save, a lost connection or a user who quits | `SessionsExist`, `NoGhosts`, `NoEcho`, `EndIsKnown`, and `GhostInv`, the invariant of the proofs (with `IInv` and `TypeOK`) |
| `Wire` | three packets, one too big, one a protocol error, every interleaving of the four threads, a connection that may break at any point | until the race, `TcpSession` implements `FifoChannel` (`ChannelSpec`, its liveness included) and `OneWriteUntilRace`; race or not, `HandledBeforeDropped`, `EndIsNoticed`, and `IInv`, the invariant of the proofs (with `TypeOK`) |
| `WriteRace` | three packets, the same | **violated**: `OneWriteInProgress` |
| `Tracked` | two characters, two more typed, three revisions, five commands | `ShownAsEdited`, `NothingLost` (of text), `VersionsRestore`, `RejectUndoes`, `AcceptKeepsText`, `TypeOK` (which says that the entries of a character ascend) |
| `MarkingLoses` | one revision | **violated**: `MarkingKeepsText` |
| `RestoreSkips` | one revision | **violated**: `EveryVersionRestores` |

Bounds. Edits per user are bounded by `MasterEdits` and `SlaveEdits`, to which `Redos` adds tries to redo; everything else is bounded by them.
Two edits on each side is the least with which a slave takes back two changes, a refused slave goes on
editing, and a packet crosses two others. Documents have one to four characters, enough for changes in
front of, next to, inside and behind one another. `EarlySlaves` are in the session from the start,
without a change since; the others join through the protocol.

`Converged`, `NoFailedAssertion` and `AwaitEnds` are about sessions in which nobody has made more than one change
(`OneChangeEach`): with two changes on each side they do *not* hold, as `DeafMaster` shows for the last of them. For more changes
`Inserts` checks the weaker `NeverSilentlyApart` and `StacksAgree`: copies differ only after an assertion has failed.
With deletions and two edits of the slave even that fails: `getUndo` refuses to undo a record a remote
change overlaps, the refusal is not looked at, and the copies differ with no assertion failing. The
same happens when a reverted change was a document property, which is not in the undo history and makes
`undoCmd(1)` undo an unrelated edit, and when a redo of the user was refused, since `m_bOverlap` makes every undo fail until
the next change clears the history. These are for a run of the undo module.

Two slaves are the least with which the handshake of a takeover has all its parts: one is promoted, one reconnects,
and the two race. One edit each, made before, while or after any step, is enough for a change to cross every
packet of the handshake. `RestartsFlushed` is about the first takeover of a session (`FirstTakeover`): the flag it rests on
is never reset on a slave, so that in a second takeover, with four peers, it fails (section 5).

`Sessions`: two joins let both clients join, or one of them join, leave and join again; `MaxCalls` 1 lets a
user end a session while another one waits for its save; one break meets every one of these at any point. `MayStart`
shares from the middle of the star and from one of its ends, so that announcements are forwarded. `Impatient`
is FALSE: a user waits for the answer to a request to join, since without that `NoGhosts` fails at once
(section 5). `Wire`: three packets are the least of which one is pushed while another is written and a third is
read (`SendsAssumption`); one of them is good, one a protocol error and one too big. After a race the receiver takes the
items of the wire one at a time, so that what it reads stays finite.
`Tracked`: two characters of the document and two typed ones make fragments that melt, split and stand between
others; three revisions are the least with one below and one above the one in question; five commands reach every
pair of entries on a character with a selection and a walk after them. Formats are interchangeable, which is the one
symmetry used, in the runs of `TrackedChanges`, whose properties are invariants.

Deadlock is not checked in any run: when everybody has used up his edits, sends or commands, or when users stop,
and every packet is handled, nothing is left to do. That something that waits goes on is what the liveness
properties are for.

Fairness. `Fairness` is weak fairness of every delivery: a packet that waits is handled in the end, because
every backend hands its packets to the main loop (`handleMessage` is called from `_handleMessages` loops
and signal handlers), and handlers do not wait for anything. Nobody is required to edit, undo or join.
It is written with `[]<>` over the queue, since a delivery is enabled just when a packet waits: the
disjuncts of `DeliverToMaster` and `DeliverToSlave` cover every type of packet the other side sends.
`SessionTakeover` asks the same of each queue, and that the wait in `_deleteSession`, which polls, ends
when it may; nobody is required to edit or to leave. `SessionManager` asks only that the system as a whole goes on
(`WF_vars(System)`): main loops serve packets and timers, calls return, saves end, and a box on the screen is
closed at some time; since what users and failures start is bounded, that is enough. `TcpSession` asks that each
of its four threads goes on while it can; that packets come, or that the connection breaks, is not required.

## 4. Proofs

TLC checks the small instances of section 3; the theorems here hold for every value of the constants that the named
`ASSUME`s of the modules allow (TLC evaluates these in every run), and for any number of peers, packets, edits
and sessions. Each module proves first that its inductive invariant `IInv`, which a run checks too, is
preserved by every action, one lemma for each, and derives the properties from it.

**`CollabSession_proofs`** (any set of slaves, any lengths, bounds and initial members): `IInvInductive`,
`AlwaysIInv`, `AlwaysNothingLost`. `NothingLost` compares the packets between the master and a slave with the
stack of the master: the
revisions under way are exactly those of his changes that the slave did not make and has not seen, and they
are in order. This is what both sides' collision sequences rest on. By itself it is not inductive: pushing
keeps it only if the new revision exceeds all before it (`StackOK`: no entry of the stack is newer than
the document), and handling the answer to a join keeps it only if that answer is the first thing the slave
ever gets, once (`JoinStage`). `Flow` is `NothingLost` for one slave with the revision it has come to.
What a collision or a revert computes is irrelevant for it and stays unexpanded, so the theorem holds
whatever `CheckForCollision` answers.

**`StacksAgree_proofs`**, with its lemmas in `OwnChanges_proofs` (the same constants, and whatever `CheckForCollision` and an
undo answer): `SyncInvInductive`, `AlwaysSyncInv`, `AlwaysStacksAgree`, `AlwaysAnswered`. `StacksAgree` says that with nothing
under way and no assertion failed a slave and the master remember the same changes, whatever was refused, reverted and
dropped before. `SyncInv` says what the queues make of the difference in between, in a session no assertion has
failed in. A change of a slave is on both stacks (`OwnAgree`, compared as `Shape`, length and shift in order, since
positions differ by what each side has adjusted); or on its own and under way (`Pending`); or it was refused and is on no
stack once the slave has reverted it with everything after it, of which the packets that were sent before the
acknowledgement remain in the queue to be dropped (`Survivors` are the others). Which acknowledgement answers which refusal is
not recorded anywhere in the code, it follows from the order of the packets: the first one answers the wait of the
master, every other follows a change that he has yet to refuse (`Expected`). The two sides can disagree about a
collision, and then an acknowledgement is in the queue that he will not expect: `InStep` says that there is none, the
agreement is claimed under it, and once it is false it stays so until the assertion has failed. What
`m_iAlreadyRevertedRevs` holds is behind a change the slave has sent and acknowledged (`RevertsOK`), so that a
later `Revert` packet is never taken for one of these. Changes of others agree up to the revision the slave has seen
(`AlienAgree`). One lemma for each action, and before them one for each way in which a packet enters or leaves a queue. As
a corollary, `AlwaysAnswered`: the wait that `DeafMaster` shows to be in vain is so only after an assertion has failed.

**`TcpSession_proofs`** (any number of packets, any of them too big or protocol errors, a connection that breaks at
any point, every interleaving of the threads): `IInvInductive`, `AlwaysIInv`, `AlwaysOneWriteUntilRace`,
`AlwaysHandledBeforeDropped`, and `ImplementsChannel`, that is `Spec => ChannelUntilRace`: every step of the four threads is
a step of `FifoChannel` or none, under the mapping of `TcpSession` (what the code has sent, what it has handled, is the buddy
there), up to the step with which `raced` becomes true. No assumption is made of how the two functions of the sender
interleave: the theorems say that the one race `WriteRace` shows is the only way to go wrong, and `AlwaysHandledBeforeDropped`
that what the receiver does is right even after it. The invariant has a part that always holds and one that holds
until the race. Always: what was pushed is handled or queued (`QueueInv`); the end of the connection is noticed from the
reader on (`EndInv`). Until the race: the sender's queue holds the newest packets, and its first is being written exactly
when nobody is about to start that (`SenderInv`, `Writing`); sizes and data alternate on the wire from what
the reader wants to what the writer writes next (`WireInv`); what the receiver has are the first packets in order (`ReceiverInv`);
and there are never more bytes in the pipe than signals (`PipeInv`).

**`SessionTakeover_proofs`** (any finite set of slaves, any editors and edits): `AlwaysOneMaster`, `AlwaysNoneRefused`,
`AlwaysOldSessionFlushed` for a session that is handed over at most once (`MaxTakeovers <= 1`);
`FirstOneMaster`, the first of these for the time until a second peer leaves, in a session with any number of takeovers;
`AlwaysRestartsFlushed`, `AlwaysFlushInv` and `AlwaysTypeOK` without such an assumption. It is not for want of a proof: the
approved buddies and the flag `m_bSessionFlushed` of the first takeover are still there in a second one, and then a
new master can start too early (section 5). `Handshake` says of each slave which of four things it is
doing (`Stays`, `Answers`, `Leads`, `Follows`), what the leaving and the new master know of it, and for every queue
which packets of the handshake are in it: exactly one, or none, or none after another. None of the three properties is
inductive without all of that. `Flushing` adds the changes: what the leaving master has, every slave has or has
ahead of the packet that says "flushed".

**`TakeoverLossless_proofs`** (any finite set of slaves, any editors and edits): `AlwaysTakeoverIsLossless` and
`AlwaysTakeoverIsAccounted`, for a session that is handed over at most once, and `AlwaysLosslessInv`, the invariant behind
them, for the first takeover of any session. It is about the time until somebody edits between the two sessions
(`rash`); that is what the properties are about, and `TakeoverLoses` shows that they need it. `Sharing` says where a
change can be that a peer has and another does not: under way to the old master until he is done, then nowhere,
since all slaves have acknowledged and sent nothing after that (`AllSaid`); so that everybody who restarts has exactly what
the old master had (`AllStartAlike`), and emptying the stacks loses only what every later author has seen (`Aware`). In the
new session each follower shares with the leader, both ways. Edits and imports are proved case by case; for
every other step `OtherSteps` shows once that it keeps all changes in their queues.

**`SessionManager_proofs`** (any finite set of peers, any links, sessions and users): `AlwaysSessionsExist` and
`AlwaysTypeOK`. `SessionsExist` is not inductive: deleting an object and then the entry at an index keeps the two
together only if that entry is still the object. So `IInv` says of every process that has not destroyed one
session within the wait for another that at most one of its calls in progress is a `destroySession`, and
that the place it found before its wait is right, which is kept because sessions are only added at the end
meanwhile; and that the list has no object twice. A collaborator list
outlives no session because only masters are asked to join (`OnlyMastersAsked`), which hangs on the packets under way.
That a search from the front finds a first item, and that there is always an object not in use, are lemmas on finite
sets there. `NoEchoWithoutCycle` is `NoEcho` for all links without a cycle: these have two sides (`Sides`: a set of
peers for each end of a link, with everything linked beyond that end), and an announcement under way always has its
master behind it (`Outward`). `NoEchoInStar` applies it to a server and its clients, the topology of `Sessions`.

**`NoGhosts_proofs`** (the same, with `~Impatient`): `GhostInvInductive`, `AlwaysGhostInv`, `AlwaysNoGhosts`. The assumption
says that a user waits for the answer to his request before he asks again; the code does not make him, and without it the
property is false (section 5). `NoGhosts` compares a master and a slave when nothing is under way between them, and says
nothing of any other state, so it is far from inductive. `GhostInv` says for every pair of a master and another peer
(`GhostFree`) what the difference between them is made of. There is one request, one answer or one session at a
time, and a slave that has left says so before he asks again (`Once`). Of two that are connected, a collaborator has the session
or the answer or his leave is under way; a slave in a session is a collaborator, or the end of the session is under way to
him, or he has a call in progress that will leave it (`Member`). Of two that are not, whoever still counts with the other has
the end of the connection in his queue, or a walk of `removeBuddy` in progress that has not passed the session yet
(`Parted`, `Walks`). The two facts about calls are the hard ones. The walk goes down by index in a list from which
nested main loops delete: entries only come nearer to the front, so an entry it has yet to visit stays ahead of it (`Stays`,
`WalkTurned`). And a `destroySession` that will send nothing (`f.to = {}`) is begun only when the master has closed the
session or the connection is cut (the last line of `GhostFree`), which stays true however long it waits. `LinesInv` says that
the end of a connection is the last packet in its queue; `StartedInv`, that packets go to or come from the master of their
session, that a master has it once, and what each `destroySession` in progress will say to whom. The lemmas named `Free...` are
about what two peers know of one another as values, one for each thing that can happen to it; each action then only
shows which of these it is for the pair it is about, and that it leaves every other pair alone (`GhostMore`, `GhostStill`).
`AlwaysNoGhosts` excepts peers in `nested`, as `NoGhosts` does: there the object that is deleted and the entry that is
removed may differ, and nothing can be said.

Induction over data. The theorems of the library that take a predicate cannot be instantiated with the provers at hand,
but the least-number principle can be stated about sets (`Least` in `SessionManager_proofs`), and that is enough for a
search in a sequence. What a recursive function computes for every input is not proved anywhere.

Only model-checked: all of `TrackedChanges`; in `CollabSession` `Converged`,
`NoFailedAssertion`, `NeverSilentlyApart`, `RevertIsExact`, `RevertBalances`, `RedoUndoes` and `TypeOK` (they
need what the recursive functions of a collision and a revert compute); and everything that must happen in the end:
`AwaitEnds`, `TakeoverEnds`, `EndIsKnown`, `EndIsNoticed` and the liveness part of `ChannelSpec` (liveness and `ENABLED` are out of the
prover's reach).

## 5. Findings

Shown by a run:

1. `DeafMaster`. The acknowledgement of a refusal is sent only by a slave that finds the collision by
   itself (`AbiCollab_Import.cpp:377`). After two changes on each side the two can disagree; the slave then
   gets a `Revert` packet it did not expect, asserts "DOCUMENT OUT OF SYNC DETECTED!!!!" (:583), reverts
   nothing and acknowledges nothing. The master drops every later packet of this slave (:396), for ever.
2. `TakeoverLoses`. A promoted slave is its own controller once the old master is done, so `push` no longer
   holds back its changes (`AbiCollab.cpp:363`), but the others reconnect later. What it changes in between goes
   to nobody, and the restart announces a revision that includes it (:971).
3. `WriteRace`. `asyncWrite` looks at `outgoing` and appends to it on the main loop (`Session.h:103-109`) while
   `asyncWriteHandler` takes from it on the socket thread (:240-241), both under a comment that says so ("this is a race
   condition, mutex this"). A packet can be written by both threads at once, or by none until the next is sent. `Wire` and the
   proofs show that nothing else can go wrong between the two functions.
4. `MarkingLoses`. A marked deletion really deletes what the same revision has added, but takes the end of that
   fragment to be its length counted from where the selection starts (`pt_PT_DeleteSpan.cpp:977`). A selection that starts inside a fragment
   loses as many characters of the next one for good. `changeSpanFmt` has the same end (`pt_PT_ChangeSpan.cpp:120`).
5. `RestoreSkips`. When a rejected addition is removed, its neighbours melt, and the iterator stands in the middle of
   the result; it then advances by the length of all of it (`pd_Document.cpp:7332`) and passes over what follows.

Met while modelling, and left without a run of their own; the properties named are stated so that they stay out:

- A change inside the sender's own earlier insertion is moved to the start of the insertion: the position is
  corrected first (`AbiCollab_Import.cpp:149`) and the correction to be made again is computed after that (:150) and is always 0.
- "Undo the change locally" (:331) is `undoCmd(1)` (:332): it undoes the newest record of the history, not the
  change being dropped from the stack. If that was itself an undo, the history has no record of it.
  `RevertBalances` is therefore about insertions only.
- The restart after a takeover empties the stacks (`AbiCollab.cpp:900`, :962) and then sends the changes that were held back (:994)
  without putting them back on a stack: two of them that collide meet no comparison. `TakeoverIsAccounted` is about
  takeovers without edits between the sessions.
- `m_bSessionFlushed` stays true on a slave after its first takeover (:553, on the leaving master, is the only reset).
  Promoted in a second one, it restarts as soon as the others have reconnected, before its own master has
  flushed the session, and is left with that master as its controller. `RestartsFlushed` is about the first takeover.
- While a master drags something with the mouse, session packets wait in `m_vIncomingQueue` (`AbiCollab.cpp:440-448`); farewells
  and requests to join do not (`AbiCollabSessionManager.cpp:1249`, :1304). A slave that leaves while a change of his waits is taken
  off the list of collaborators, and put back by `m_vCollaborators[collaborator] = ...` (:489) when the change is imported on
  release: a ghost that is sent every change until his connection ends, and that a takeover waits for (:863). If he has joined again
  meanwhile, he has got the document without the waiting change, and its import sends it to all others but its author (:506): his copy lacks it
  for good. `NoGhosts` is about a manager without session packets, and nobody leaves in `CollabSession`.
- A user can ask twice to join a session (`AbiCollab_Plugin.cpp:758`): both answers make a session object with one id. The first
  to be closed takes him off the list of collaborators while the second is still there.
- The announcement of a session is forwarded to all buddies but its sender (`AbiCollabSessionManager.cpp:1268`), "as it would result in a
  broadcast storm" otherwise (`AccountHandler.cpp:168`). Among buddies of one another it does: `NoEcho` is about links without a cycle.
- `abi_plugin_unregister` disconnects all sessions (`AbiCollab_Plugin.cpp:119`), but the loop goes by index over a vector that loses an
  element in each turn (`AbiCollabSessionManager.cpp:612`): every second session is left. Its master is not told until the connection ends.
- `destroySession` finds an index, waits in a main loop, and deletes the item at that index (:568): when another session was
  destroyed during the wait it is the wrong one, or none. `SessionsExist` excepts processes in which that happened (`nested`).
- Accepting an addition that has a format loses the format (`pd_Document.cpp:7084`): `AcceptKeepsText` leaves out the format of text a
  revision has added. Accepting one of several revisions of a fragment also drops those above it, and accepting
  a deletion on top of another leaves the attribute of the lower one.
- Typing without marking, between a marked fragment and another, takes the revision attribute of its left
  neighbour along (`pt_PT_InsertSpan.cpp:85`): the `stray` characters.
- `acceptRejectRevision` handles the last fragment whole, beyond the end of the selection (`pd_Document.cpp:7414`);
  `RejectUndoes` is about selections of whole fragments.
- The Windows `Synchronizer` counts a signal that arrives while another is handled; `getLastRevision` caches its result
  and `pruneForCumulativeResult` keeps the cache (`pp_Revision.cpp:792`; today's callers ask fresh objects); a failed accept of the TCP
  server is the last one (`IOServerHandler.h:96`). None of these is modelled.

## 6. Plan

In this order:

1. Proofs on `ChangeHistory`: undo points stay in range, for every operation and for the repeated undo of a
   revert. On `RevisionAttr`: entries stay ascending, under every operation of `TrackedChanges`.
2. Slaves that leave or join during a takeover (the FIXME at `AbiCollab.cpp:859`), which `TakeoverEnds` will not survive,
   and an abstract session (every change reaches everyone once) that it implements when nobody edits.
3. `UndoHistory`: coalescing, globs and the save position on top of `ChangeHistory`, the looks of the menu (`canDo` sets
   `m_bOverlap` and raises `m_iMinUndo` as an undo or redo would), with an abstract
   history to implement (what is undone is what was done last, where it is now), and the silent
   divergences of section 3 as runs.
4. `GlobExport`: nested globs and the packet built from them.
5. In `SessionManager`: the mouse-drag queue with the session packets that wait in it, `destroyAccount`, access lists. In `TcpSession`: accepting and reconnecting.
6. `RealmConnection` (connection states of the service backend), `pf_Fragments` (the tree of fragments).

Theorem worth proving besides these: `NoGhosts` for users who ask twice, once `joinSession` looks for a session with that id.

## 7. Not modelled

In `SessionTakeover`: slaves that leave or join during a takeover, the access check of `addCollaborator`, a master
without collaborators (it simply closes its session), and acknowledgements of reverts, which
`push(SessionPacket*, BuddyPtr)` sends at once also during a takeover.

In `SessionManager`: `destroyAccount`, `destroySession` for a document, profiles, the choice between closing and handing over a session (that is
`SessionTakeover`), session packets and with them the mouse-drag queue (section 5), and access lists: a peer whose rights ended when he left
(`AbiCollab.cpp:221-241`) is answered here when he asks again, where the TCP backend keeps silent (`AccountHandler.cpp:315`), so the model has more
behaviours than the code. `m_asyncSessionOps` is a counter, here an object has one save under way at a time, which is all that one save allows.
In `CollabSession`: drags, too; without anybody leaving they only delay packets, which its queues do anyway.
In `TcpSession`: accepting and resolving connections, the packets of the other direction, reconnecting, and what a deque does to itself when
two threads are inside it at once.
In `TrackedChanges`: struxes (paragraph ends, tables), styles and attributes other than one property, formatting with marking off, undo
of these commands, `mergeAll`, and the change tracking attributes of ODF.

Encoding of packets, SOAP and TLS of the service backend, messaging libraries, the disk recorder and
regression tool, layout, views and dialogs, file formats, other plugins: I/O, libraries or presentation,
without state the session depends on. They are by far the larger part of the repository, which is a whole
word processor; what is modelled here is the part whose correctness hangs on order and on state kept in several places. `PROJECT.json` lists every component with its status, every hazard
with the property that covers it, and for every definition the lines it was translated from.
