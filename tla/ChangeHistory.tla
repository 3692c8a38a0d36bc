--------------------------- MODULE ChangeHistory ---------------------------
(***************************************************************************)
(* The undo stack of one document: px_ChangeHistory, as operators on a     *)
(* record                                                                  *)
(*   recs     m_vecChangeRecords, oldest first                             *)
(*   undoPos  m_undoPosition, adjOff  m_iAdjustOffset                      *)
(*   minUndo  m_iMinUndo                                                   *)
(*   overlap  m_bOverlap: a redo was refused, and the history is to go     *)
(* The C++ vector counts from 0: getNthItem(k) is recs[k + 1].  The save   *)
(* position plays no part in an undo or redo.                              *)
(*                                                                         *)
(* A document is a sequence of characters, the first one at FirstPos; a    *)
(* change record inserts or deletes the characters "toks" at "pos"         *)
(* (m_position); "adj" is m_iAdjust and "local" is isFromThisDoc().  The   *)
(* histories here hold no glob markers, so getUndo's walk through a glob   *)
(* is not needed.                                                          *)
(***************************************************************************)
EXTENDS Integers, Sequences, SequencesExt

(* The text of a document starts behind its first section and paragraph.   *)
FirstPos == 2

(* Positions in the piece table are unsigned: one that is moved below zero *)
(* becomes a huge one.  The width is smaller here, far above any length.   *)
Unsigned(n) == n % 65536

(* A change record as addChangeRecord receives it. *)
Change(kind, pos, toks, local) ==
  [kind |-> kind, pos |-> pos, adj |-> 0, toks |-> toks, local |-> local]

EmptyHistory == [recs |-> <<>>, undoPos |-> 0, adjOff |-> 0, minUndo |-> 0,
                 overlap |-> FALSE]

(* getPosition(): the recorded position shifted by the adjustment (slip:    *)
(* not shifted).                                                            *)
PositionSlip(r) == r.pos
Position(r) == Unsigned(r.pos + r.adj)

(* PD_Document::getAdjustmentForCR *)
Adjustment(r) == IF r.kind = "insert" THEN Len(r.toks) ELSE -Len(r.toks)

(* doesOverlap against getCRRange(r), which is [Position, Position + |adjustment|] *)
(* (slip: adjacent ranges overlap).                                                *)
DoesOverlapSlip(r, low, high) ==
  LET crLow  == Position(r)
      crHigh == Unsigned(crLow + Len(r.toks))
  IN  \/ crLow >= low /\ crLow <= high
      \/ crHigh >= low /\ crHigh <= high

DoesOverlap(r, low, high) ==
  LET crLow  == Position(r)
      crHigh == Unsigned(crLow + Len(r.toks))
  IN  \/ crLow >= low /\ crLow < high
      \/ crHigh > low /\ crHigh <= high

(* _invalidateRedo: drop the local records from the undo point on. *)
InvalidateRedo(h) ==
  LET point == h.undoPos - h.adjOff
      kept  == SubSeq(h.recs, 1, point)
                 \o SelectSeq(SubSeq(h.recs, point + 1, Len(h.recs)), LAMBDA r : ~r.local)
  IN  [h EXCEPT !.recs = kept, !.undoPos = Len(kept), !.adjOff = 0]

(* addChangeRecord, outside of an undo or redo: a remote record goes on top *)
(* and leaves the undo point where it was, adjOff records below undoPos.    *)
(* After a refused redo the history starts anew.                            *)
AddRecord(h, r) ==
  LET old == IF h.overlap THEN EmptyHistory ELSE h
      g   == InvalidateRedo(old)
      n   == Len(old.recs) + 1
  IN  IF r.local
      THEN [g EXCEPT !.recs = Append(@, r), !.undoPos = @ + 1]
      ELSE [old EXCEPT !.recs    = Append(@, r),
                       !.undoPos = n,
                       !.adjOff  = n - (old.undoPos - old.adjOff)]

(* The shift the remote records recs[from], ..., recs[to] put on the local  *)
(* record r, taken oldest first, and whether one of them overlaps r: the    *)
(* correction loop of getUndo, left at the first overlap.                   *)
Shift(recs, r, from, to) ==
  LET Step(acc, s) ==
        LET cur    == Adjustment(s)
            moved  == IF Position(s) <= Unsigned(r.pos + acc.adj + cur)
                      THEN acc.adj + cur ELSE acc.adj
            low    == Unsigned(r.pos + moved)
            high   == Unsigned(low + Len(r.toks))
        IN  IF acc.hit \/ s.local THEN acc
            ELSE [adj |-> moved, hit |-> DoesOverlap(s, low, high)]
  IN  FoldLeft(Step, [adj |-> 0, hit |-> FALSE], SubSeq(recs, from, to))

(* getUndo: the number of the record to undo (0: none) and the history with *)
(* the side effects of looking for it.  "hit" is set when a remote record   *)
(* overlaps the local one that should be undone.                            *)
NoUndo(h) ==
  LET top == h.undoPos - h.adjOff
  IN  [ix |-> 0, hit |-> FALSE,
       h  |-> [h EXCEPT !.adjOff = IF top > h.minUndo THEN h.undoPos - h.minUndo ELSE @]]

(* The local record ix with remote ones on top of it. *)
Corrected(h, ix, shift) ==
  LET off == h.undoPos - ix
  IN  IF shift.hit
      THEN [ix |-> 0, hit |-> TRUE, h |-> [h EXCEPT !.adjOff = off, !.minUndo = ix - 1]]
      ELSE [ix |-> ix, hit |-> FALSE,
            h  |-> [h EXCEPT !.adjOff = off + 1, !.recs[ix].adj = shift.adj]]

(* The newest local record below the undo point. *)
UndoAt(h, ix) ==
  CASE ix <= h.minUndo -> NoUndo(h)
    [] ix = h.undoPos  -> [ix |-> ix, hit |-> FALSE, h |-> h]
    [] OTHER           -> Corrected(h, ix, Shift(h.recs, h.recs[ix], ix + 1, h.undoPos))

GetUndo(h) ==
  LET mine == {k \in 1..(h.undoPos - h.adjOff) : h.recs[k].local}
  IN  IF h.overlap THEN [ix |-> 0, hit |-> FALSE, h |-> h]
      ELSE IF mine = {} THEN NoUndo(h) ELSE UndoAt(h, Max(mine))

(* getUndo(.., bStatic): what is left of the side effects when the caller   *)
(* only looks, as _canCoalesceInsertSpan and _canCoalesceDeleteSpan do      *)
(* before a change is recorded; adjOff is put back except on an overlap.    *)
Peek(h) ==
  LET g == GetUndo(h)
  IN  IF g.hit THEN g.h ELSE [g.h EXCEPT !.adjOff = h.adjOff]

(* didUndo: with no remote record on top the undo point moves down; with   *)
(* one, getUndo has already counted the record in adjOff (slip: it moves   *)
(* down all the same).                                                     *)
DidUndoSlip(h) == [h EXCEPT !.undoPos = @ - 1]

DidUndo(h) == IF h.adjOff = 0 THEN [h EXCEPT !.undoPos = @ - 1] ELSE h

(* getRedo: the oldest local record from the undo point on, corrected by    *)
(* the remote ones above it like that of an undo; an overlap sets           *)
(* m_bOverlap (slip: the loop over them begins one too late).               *)
NoRedo(h) == [ix |-> 0, h |-> h]

RedoAtSlip(h, ix) ==
  LET shift == Shift(h.recs, h.recs[ix], ix + 2, h.undoPos)
      off   == h.undoPos - ix
  IN  IF h.adjOff = 0 THEN [ix |-> ix, h |-> h]
      ELSE IF shift.hit THEN NoRedo([h EXCEPT !.adjOff = off, !.overlap = TRUE])
      ELSE [ix |-> ix, h |-> [h EXCEPT !.adjOff = off + 1, !.recs[ix].adj = shift.adj]]

RedoAt(h, ix) ==
  LET shift == Shift(h.recs, h.recs[ix], ix + 1, h.undoPos)
      off   == h.undoPos - ix
  IN  IF h.adjOff = 0 THEN [ix |-> ix, h |-> h]
      ELSE IF shift.hit THEN NoRedo([h EXCEPT !.adjOff = off, !.overlap = TRUE])
      ELSE [ix |-> ix, h |-> [h EXCEPT !.adjOff = off + 1, !.recs[ix].adj = shift.adj]]

(* With only remote records above the undo point it moves past them.        *)
GetRedo(h) ==
  LET point  == h.undoPos - h.adjOff
      undone == {k \in (point + 1)..(IF h.adjOff = 0 THEN point + 1 ELSE h.undoPos) : h.recs[k].local}
  IN  IF h.overlap \/ (h.adjOff = 0 /\ h.undoPos >= Len(h.recs)) THEN NoRedo(h)
      ELSE IF undone = {} THEN NoRedo([h EXCEPT !.adjOff = 0])
      ELSE RedoAt(h, Min(undone))

(* didRedo: the undo point moves up by the record that was made again.       *)
DidRedo(h) ==
  IF h.adjOff > 0 THEN [h EXCEPT !.adjOff = @ - 1] ELSE [h EXCEPT !.undoPos = @ + 1]

(* The document with n characters replaced by toks at pos; a position past  *)
(* the end is that of the end (getFragFromPosition stops at the last        *)
(* fragment, _insertSpan appends there).  Whether the piece table does it:  *)
(* nothing goes before the first character, and no range past the end goes. *)
Splice(doc, pos, n, toks) ==
  LET at == Min({Unsigned(pos) - FirstPos, Len(doc)})
  IN  SubSeq(doc, 1, at) \o toks \o SubSeq(doc, at + n + 1, Len(doc))
InBounds(doc, pos, n) ==
  LET at == Unsigned(pos) - FirstPos
  IN  at >= 0 /\ (n = 0 \/ at + n <= Len(doc))

(* pt_PieceTable::undoCmd and redoCmd for histories without globs.  "ix" is *)
(* the record taken from the history (0: none), which costs a revision     *)
(* number; "done" says that it, or for an undo its reverse, was applied at  *)
(* its adjusted position, which needs such a range in the document: only    *)
(* then didUndo or didRedo runs.                                            *)
DoTheDo(doc, g, r, undo) ==
  LET gone  == (r.kind = "insert") = undo
      taken == IF gone THEN Len(r.toks) ELSE 0
      given == IF gone THEN <<>> ELSE r.toks
  IN  IF InBounds(doc, Position(r), taken)
      THEN [ix |-> g.ix, done |-> TRUE, h |-> IF undo THEN DidUndo(g.h) ELSE DidRedo(g.h),
            doc |-> Splice(doc, Position(r), taken, given)]
      ELSE [ix |-> g.ix, done |-> FALSE, h |-> g.h, doc |-> doc]

Found(doc, g, undo) ==
  IF g.ix = 0 THEN [ix |-> 0, done |-> FALSE, h |-> g.h, doc |-> doc]
  ELSE DoTheDo(doc, g, g.h.recs[g.ix], undo)

UndoCmd(doc, h) == Found(doc, GetUndo(h), TRUE)

(* The loop of redoCmd asks getRedo a second time, which finds the same.    *)
RedoCmd(doc, h) == Found(doc, GetRedo(h), FALSE)

============================================================================
