--------------------------- MODULE TrackedChanges ---------------------------
(***************************************************************************)
(* Revisions of a paragraph: typing, deleting and formatting with change   *)
(* marking on and off, and the commands that accept or reject what was     *)
(* marked.  The text is a sequence of characters, each with its place in   *)
(* the buffer of the piece table, its format and its revision attribute.   *)
(* Fragments are not state: the piece table melts neighbours of the same   *)
(* attributes whose text is contiguous in the buffer, so a fragment is a   *)
(* maximal such run.                                                       *)
(*                                                                         *)
(* truth is what the user did: for every character ever typed and every    *)
(* revision, whether the text is there after that revision, and how it     *)
(* looks.  The program does not have it; the properties compare the two.   *)
(***************************************************************************)
EXTENDS RevisionAttr, FiniteSetsExt

CONSTANTS
    InitText,     \* characters of the document before the first revision
    MaxText,      \* bound: characters ever typed, those of the document included
    MaxLevel,     \* bound: revisions
    MaxCommands   \* bound: commands of the user

ASSUME TrackedAssumption ==
    /\ {InitText, MaxText, MaxLevel, MaxCommands} \subseteq Nat
    /\ InitText <= MaxText /\ 0 < MaxLevel
    /\ None \notin Formats

VARIABLES
    text,      \* the paragraph
    typed,     \* how many characters the buffer has
    marking,   \* isMarkRevisions
    level,     \* getRevisionId: the current revision
    truth,     \* what the user did
    stray,     \* typed without marking, and marked all the same
    marred,    \* changed together with a fragment they are not part of
    commands   \* how many commands so far

vars == <<text, typed, marking, level, truth, stray, marred, commands>>
-----------------------------------------------------------------------------
Levels == 0..MaxLevel
Hidden == "hidden"
Char(buf, fmt, revs) == [buf |-> buf, fmt |-> fmt, revs |-> revs]

\* What a character looks like after all of its revisions: the loop over the
\* revisions in explodeRevisions
Look(c) ==
    LET step(seen, id) ==
            IF WithId(c.revs, id) = << >> THEN seen
            ELSE LET r == Head(WithId(c.revs, id))
                 IN  CASE r.type = "del" -> [gone |-> TRUE, fmt |-> c.fmt]
                       [] r.type = "add" /\ r.fmt = None ->
                              [seen EXCEPT !.gone = FALSE]
                       [] r.type = "fmt" /\ seen.gone -> seen
                       [] OTHER -> [seen EXCEPT !.fmt = Over(@, r.fmt)]
        last == FoldLeft(step, [gone |-> FALSE, fmt |-> c.fmt],
                         [i \in 1..MaxLevel |-> i])
    IN  IF last.gone THEN Hidden ELSE last.fmt

\* explodeRevisions for a document shown as it was before the first revision
LookBefore(c) ==
    IF c.revs # << >> /\ Head(Lowest(c.revs)).type = "add" THEN Hidden ELSE c.fmt

\* A character that is part of the fragment of its left neighbour
Together(a, b) == b.buf = a.buf + 1 /\ a.fmt = b.fmt /\ a.revs = b.revs

FirstOf(t, p) == Max({f \in 1..p : f = 1 \/ ~Together(t[f - 1], t[f])})
AfterOf(t, p) == Min({e \in (p + 1)..(Len(t) + 1) :
                          e > Len(t) \/ ~Together(t[e - 1], t[e])})
FragLength(t, p) == AfterOf(t, p) - FirstOf(t, p)

\* The text from p up to e with something done to each character of it, or cut
\* out of it
Changed(t, p, e, Op(_)) ==
    [i \in DOMAIN t |-> IF p <= i /\ i < e THEN Op(t[i]) ELSE t[i]]
Cut(t, p, e) == SubSeq(t, 1, p - 1) \o SubSeq(t, e, Len(t))
SetRevs(t, p, e, revs) == Changed(t, p, e, LAMBDA c : [c EXCEPT !.revs = revs])

\* A loop over the fragments: every step passes or deletes a character
Walk(Step(_), start) ==
    LET w[n \in 0..MaxText] == IF n = 0 THEN start ELSE Step(w[n - 1])
    IN  w[MaxText]

(***************************************************************************)
(* deleteSpan and changeSpanFmt while changes are marked.  Each round      *)
(* takes the revisions of the fragment at pos and as many characters as    *)
(* that fragment is long, counted from pos and not from its beginning.     *)
(* hit collects the characters of other fragments that are taken along.    *)
(***************************************************************************)
Strangers(t, p, e) == {t[i].buf : i \in {j \in DOMAIN t : AfterOf(t, p) <= j /\ j < e}}

(* slip: whatever the current revision did, the text goes for good *)
DeleteStepSlip(w) ==
    LET stop == Min({w.end, w.pos + FragLength(w.text, w.pos)})
        revs == w.text[w.pos].revs
        mine == GreatestUpTo(revs, level)
        marks == SetRevs(w.text, w.pos, stop, AddRevision(revs, level, "del", None))
    IN  IF w.pos >= w.end THEN w
        ELSE IF mine # << >> /\ mine[1].id = level
        THEN [text |-> Cut(w.text, w.pos, stop), pos |-> w.pos,
              end  |-> w.end - (stop - w.pos),
              hit  |-> w.hit \cup Strangers(w.text, w.pos, stop)]
        ELSE [text |-> marks, pos |-> AfterOf(marks, w.pos), end |-> w.end,
              hit  |-> w.hit \cup Strangers(w.text, w.pos, stop)]

DeleteStep(w) ==
    LET stop == Min({w.end, w.pos + FragLength(w.text, w.pos)})
        revs == w.text[w.pos].revs
        mine == GreatestUpTo(revs, level)
        marks == SetRevs(w.text, w.pos, stop, AddRevision(revs, level, "del", None))
    IN  IF w.pos >= w.end THEN w
        ELSE IF mine # << >> /\ mine[1].id = level /\ mine[1].type = "add"
        THEN [text |-> Cut(w.text, w.pos, stop), pos |-> w.pos,
              end  |-> w.end - (stop - w.pos),
              hit  |-> w.hit \cup Strangers(w.text, w.pos, stop)]
        ELSE [text |-> marks, pos |-> AfterOf(marks, w.pos), end |-> w.end,
              hit  |-> w.hit \cup Strangers(w.text, w.pos, stop)]

FormatStep(w, f) ==
    LET stop == Min({w.end, w.pos + FragLength(w.text, w.pos)})
        revs == AddRevision(w.text[w.pos].revs, level, "fmt", f)
    IN  IF w.pos >= w.end THEN w
        ELSE [w EXCEPT !.text = SetRevs(@, w.pos, stop, revs), !.pos = stop,
                       !.hit  = @ \cup Strangers(w.text, w.pos, stop)]

Span(p, e) == [text |-> text, pos |-> p, end |-> e, hit |-> {}]
MarkedDelete(p, e) == Walk(DeleteStep, Span(p, e))
MarkedFormat(p, e, f) == Walk(LAMBDA w : FormatStep(w, f), Span(p, e))
-----------------------------------------------------------------------------
(***************************************************************************)
(* _acceptRejectRevision: does away with entry r, the revisions of the     *)
(* fragment being revs, for the text from p up to e.                       *)
(***************************************************************************)
Deletes(reject, r) == r.type = IF reject THEN "add" ELSE "del"

(* slip: a rejected change takes everything with it *)
ResolveSlip(t, p, e, reject, r, revs) ==
    CASE Deletes(reject, r) -> Cut(t, p, e)
      [] reject /\ r.type # "add" -> SetRevs(t, p, e, << >>)
      [] ~reject /\ r.type = "add" -> SetRevs(t, p, e, << >>)
      [] ~reject /\ r.type = "fmt" ->
             Changed(t, p, e, LAMBDA c : [c EXCEPT !.revs = Below(revs, r.id),
                                                   !.fmt = Over(@, r.fmt)])

Resolve(t, p, e, reject, r, revs) ==
    CASE Deletes(reject, r) -> Cut(t, p, e)
      [] reject /\ r.type # "add" -> SetRevs(t, p, e, Below(revs, r.id))
      [] ~reject /\ r.type = "add" -> SetRevs(t, p, e, << >>)
      [] ~reject /\ r.type = "fmt" ->
             Changed(t, p, e, LAMBDA c : [c EXCEPT !.revs = Below(revs, r.id),
                                                   !.fmt = Over(@, r.fmt)])

(***************************************************************************)
(* The loops of acceptAllRevisions and rejectAllHigherRevisions.  The      *)
(* iterator advances by the length of the fragment it is in.  After a      *)
(* change it may stand in the middle of one, since neighbours may melt:    *)
(* clean says that it never did.                                           *)
(***************************************************************************)
ResolveStep(w, reject, Choice(_)) ==
    LET revs == w.text[w.pos].revs
        todo == IF revs = << >> THEN << >> ELSE Choice(revs)
        next == w.pos + FragLength(w.text, w.pos)
        whole == w.clean /\ w.pos = FirstOf(w.text, w.pos)
    IN  IF w.pos > Len(w.text) THEN w
        ELSE IF todo = << >> THEN [w EXCEPT !.pos = next, !.clean = whole]
        ELSE [text  |-> Resolve(w.text, w.pos, next, reject, todo[1], revs),
              pos   |-> IF Deletes(reject, todo[1]) THEN w.pos ELSE next,
              clean |-> whole]

Start == [text |-> text, pos |-> 1, clean |-> TRUE]

AcceptAll ==
    LET step(w) == ResolveStep(w, FALSE, LAMBDA revs : <<Prune(revs)>>)
    IN  Walk(step, Start)

RejectAllHigher(k) ==
    LET step(w) == ResolveStep(w, TRUE, LAMBDA revs : LowestFrom(revs, k + 1))
    IN  Walk(step, Start)

(***************************************************************************)
(* acceptRejectRevision for the selection from p up to e: of every         *)
(* fragment the highest revision the view shows (0: all of them).          *)
(***************************************************************************)
SelectionStep(w, p, e, reject, view) ==
    LET size == FragLength(w.text, w.pos)
                - IF w.done = 0 THEN w.pos - FirstOf(w.text, w.pos) ELSE 0
        next == w.pos + size
        revs == w.text[w.pos].revs
        todo == GreatestUpTo(revs, view)
    IN  IF w.pos > Len(w.text) \/ p + w.done >= e THEN w
        ELSE IF todo = << >> THEN [w EXCEPT !.pos = next, !.done = @ + size]
        ELSE [text |-> Resolve(w.text, w.pos, next, reject, todo[1], revs),
              pos  |-> IF Deletes(reject, todo[1]) THEN w.pos ELSE next,
              done |-> w.done + size]

AcceptReject(p, e, reject, view) ==
    Walk(LAMBDA w : SelectionStep(w, p, e, reject, view),
         [text |-> text, pos |-> p, done |-> 0])
-----------------------------------------------------------------------------
Init ==
    /\ text = [i \in 1..InitText |-> Char(i, None, << >>)]
    /\ typed = InitText
    /\ marking = TRUE
    /\ level = 1
    /\ truth = [c \in 1..MaxText |-> [l \in Levels |->
                    IF c <= InitText THEN None ELSE Hidden]]
    /\ stray = {}
    /\ marred = {}
    /\ commands = 0

Command == /\ commands < MaxCommands
           /\ commands' = commands + 1

\* What the user does at a revision shows from that revision on
FromNow(history, look) == [l \in Levels |-> IF l < level THEN history[l] ELSE look]

\* The selections: from p up to e
Selection(p, e) == p \in 1..Len(text) /\ e \in (p + 1)..(Len(text) + 1)
Selected(p, e) == {text[i].buf : i \in p..(e - 1)}
-----------------------------------------------------------------------------
(***************************************************************************)
(* Typing a character after the first i (insertSpan).  The attributes are  *)
(* those of the text to the left, the revisions that count are those of    *)
(* the fragment to the right; at the very end both are to the left.        *)
(***************************************************************************)
LeftOf(i) == IF text = << >> THEN Char(0, None, << >>) ELSE text[Max({i, 1})]
RevsAt(i) == IF i < Len(text) THEN text[i + 1].revs ELSE LeftOf(i).revs

NewChar(i) ==
    IF marking
    THEN Char(typed + 1,
              IF RevsAt(i) = << >> THEN LeftOf(i).fmt
                                   ELSE Over(LeftOf(i).fmt, Prune(RevsAt(i)).fmt),
              AddRevision(<< >>, level, "add", None))
    ELSE Char(typed + 1, LeftOf(i).fmt,
              IF i < Len(text) /\ RevsAt(i) # << >> THEN << >> ELSE LeftOf(i).revs)

Type(i) ==
    /\ Command
    /\ typed < MaxText
    /\ typed' = typed + 1
    /\ text' = InsertAt(text, i + 1, NewChar(i))
    /\ truth' = [truth EXCEPT ![typed + 1] =
                    IF marking THEN FromNow(@, NewChar(i).fmt)
                               ELSE [l \in Levels |-> NewChar(i).fmt]]
    /\ stray' = IF ~marking /\ NewChar(i).revs # << >>
                THEN stray \cup {typed + 1} ELSE stray
    /\ UNCHANGED <<marking, level, marred>>

\* Deleting a selection (deleteSpan)
Delete(p, e) ==
    /\ Command
    /\ Selection(p, e)
    /\ LET done == MarkedDelete(p, e)
           gone == [c \in Selected(p, e) |->
                       IF marking THEN FromNow(truth[c], Hidden)
                                  ELSE [l \in Levels |-> Hidden]]
       IN  /\ text' = IF marking THEN done.text ELSE Cut(text, p, e)
           /\ truth' = gone @@ truth
           /\ marred' = IF marking THEN marred \cup done.hit ELSE marred
    /\ UNCHANGED <<typed, marking, level, stray>>

\* Formatting a selection while changes are marked (changeSpanFmt).  Text that
\* was deleted by the current revision is back; what an earlier one deleted
\* stays deleted.
Format(p, e, f) ==
    /\ Command
    /\ marking
    /\ Selection(p, e)
    /\ LET done == MarkedFormat(p, e, f)
           here(c) == truth[c][level] # Hidden \/ truth[c][level - 1] # Hidden
       IN  /\ text' = done.text
           /\ truth' = [c \in {b \in Selected(p, e) : here(b)} |->
                            FromNow(truth[c], f)] @@ truth
           /\ marred' = marred \cup done.hit
    /\ UNCHANGED <<typed, marking, level, stray>>

\* startNewRevision
StartRevision ==
    /\ Command
    /\ level < MaxLevel
    /\ level' = level + 1
    /\ marking' = TRUE
    /\ UNCHANGED <<text, typed, truth, stray, marred>>

ToggleMarking ==
    /\ Command
    /\ marking' = ~marking
    /\ UNCHANGED <<text, typed, level, truth, stray, marred>>
-----------------------------------------------------------------------------
\* The text as it would be after revision l, by its attributes
LookAt(c, l) ==
    IF \E r \in ToSet(c.revs) : r.type = "add" /\ r.id > l THEN Hidden
    ELSE Look([c EXCEPT !.revs = Below(@, l + 1)])

\* A command that accepts or rejects.  What is left is the new truth.
Resolved(t) ==
    /\ text' = t
    /\ truth' = [c \in 1..MaxText |-> [l \in Levels |->
                    IF \E i \in DOMAIN t : t[i].buf = c
                    THEN LookAt(t[CHOOSE i \in DOMAIN t : t[i].buf = c], l)
                    ELSE Hidden]]
    /\ stray' = {}
    /\ marred' = {}
    /\ UNCHANGED <<typed, level>>

\* cmdAcceptRejectRevision; the menu is grey while changes are marked
ResolveSelection(p, e, reject, view) ==
    /\ Command
    /\ ~marking
    /\ Selection(p, e)
    /\ Resolved(AcceptReject(p, e, reject, view).text)
    /\ UNCHANGED marking

\* purgeAllRevisions, and setAutoRevisioning when it is switched off
PurgeAllRevisions ==
    /\ Command
    /\ Resolved(AcceptAll.text)
    /\ marking' = FALSE

\* restoreVersion: back to the text before revision k + 1
RestoreVersion(k) ==
    /\ Command
    /\ k \in 0..(level - 1)
    /\ Resolved(RejectAllHigher(k).text)
    /\ marking' = FALSE

Next ==
    \/ \E i \in 0..Len(text) : Type(i)
    \/ \E p, e \in 1..(Len(text) + 1) :
          \/ Delete(p, e)
          \/ \E f \in Formats : Format(p, e, f)
          \/ \E reject \in BOOLEAN, view \in 0..level :
                ResolveSelection(p, e, reject, view)
    \/ StartRevision
    \/ ToggleMarking
    \/ PurgeAllRevisions
    \/ \E k \in Levels : RestoreVersion(k)

Spec == Init /\ [][Next]_vars
-----------------------------------------------------------------------------
(* Properties *)

\* The entries of a revision attribute ascend, so that the highest revision is
\* the last entry: deletion, pruning and views rely on it without sorting.
Ascending(revs) == \A i, j \in DOMAIN revs : i < j => revs[i].id < revs[j].id

TypeOK ==
    /\ text \in Seq([buf : 1..typed, fmt : Formats \cup {None},
                     revs : Seq([id : 1..level, type : {"add", "del", "fmt"},
                                 fmt : Formats \cup {None}])])
    /\ \A i \in DOMAIN text : Ascending(text[i].revs)
    /\ typed \in InitText..MaxText
    /\ marking \in BOOLEAN
    /\ level \in 1..MaxLevel
    /\ truth \in [1..MaxText -> [Levels -> Formats \cup {None, Hidden}]]
    /\ stray \subseteq 1..typed
    /\ marred \subseteq 1..typed
    /\ commands \in 0..MaxCommands

\* The characters whose attributes no other change has overwritten
Sound(c) == c.buf \notin stray \cup marred

\* The two views of explodeRevisions: shown without revisions, every character
\* looks as the user left it, and shown as before the first revision, as it was
\* before he marked any change.
ShownAsEdited ==
    \A i \in DOMAIN text : Sound(text[i]) =>
        /\ Look(text[i]) = truth[text[i].buf][level]
        /\ LookBefore(text[i]) = truth[text[i].buf][0]

\* Marking keeps all of the text: deleteSpan really deletes a character only if
\* the user added it in the same revision, so nothing a revision showed is lost.
\* Characters that are taken along with a fragment they are not part of excepted.
LostText == {c \in 1..typed : \A i \in DOMAIN text : text[i].buf # c}

NothingLost == \A c \in LostText \ (marred \cup stray) :
                   \A l \in Levels : truth[c][l] = Hidden

\* restoreVersion: "we therefore have to reject all revisions >= iRevisionId".
\* What rejectAllHigherRevisions leaves looks as the user left it at that
\* revision, unless the pieces melt together under its iterator.
Restores(k) ==
    LET left == RejectAllHigher(k).text
    IN  \A c \in 1..typed : c \notin stray \cup marred =>
            IF \E i \in DOMAIN left : left[i].buf = c
            THEN \A i \in DOMAIN left :
                     left[i].buf = c => Look(left[i]) = truth[c][k]
            ELSE truth[c][k] = Hidden

VersionsRestore ==
    \A k \in 0..(level - 1) : RejectAllHigher(k).clean => Restores(k)

\* acceptRejectRevision: rejecting the last change of a fragment gives back what
\* its text was before that revision, with all that earlier revisions did to it.
RejectUndoes ==
    \A p \in {q \in DOMAIN text : text[q].revs # << >> /\ FirstOf(text, q) = q} :
        LET e == AfterOf(text, p)
            last == Head(Highest(text[p].revs)).id
            left == AcceptReject(p, e, TRUE, 0).text
        IN  \A i \in p..(e - 1) : Sound(text[i]) =>
                LET c == text[i].buf
                    now == SelectSeq(left, LAMBDA x : x.buf = c)
                IN  IF now = << >> THEN truth[c][last - 1] = Hidden
                    ELSE Look(now[1]) = truth[c][last - 1]

\* acceptAllRevisions: what it leaves is the text shown without revisions, none
\* of it has a revision left, and text that was there before the first revision
\* keeps the look it had.  (Text a revision added loses its format.)
AcceptKeepsText ==
    LET left == AcceptAll.text
        shown == SelectSeq(text, LAMBDA c : Look(c) # Hidden)
        kept(c) == Look([c EXCEPT !.revs = << >>])
    IN  AcceptAll.clean =>
            /\ Len(left) = Len(shown)
            /\ \A i \in DOMAIN left :
                  /\ left[i].buf = shown[i].buf
                  /\ left[i].revs = << >>
                  /\ LookBefore(shown[i]) # Hidden => left[i].fmt = Look(shown[i])

\* Marking a deletion loses no text: no exception for what is taken along.
MarkingKeepsText == \A c \in LostText \ stray : \A l \in Levels : truth[c][l] = Hidden

\* Every version can be restored: no exception for pieces that melt together.
EveryVersionRestores == marred = {} => \A k \in 0..(level - 1) : Restores(k)
=============================================================================
