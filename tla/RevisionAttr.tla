---------------------------- MODULE RevisionAttr ----------------------------
(***************************************************************************)
(* The "revision" attribute of a piece of text (PP_RevisionAttr): the list *)
(* of what each revision of the document did to it.  An entry adds the     *)
(* text, deletes it or gives it a format.  An addition may carry a format  *)
(* of its own (PP_REVISION_ADDITION_AND_FMT); that is an entry of type     *)
(* "add" whose fmt is not None.  Formats are one property with a value:    *)
(* what comes later covers what was there.                                 *)
(***************************************************************************)
EXTENDS Naturals, Sequences, SequencesExt

CONSTANTS Formats,   \* values of the property
          None       \* the property is not set

Entry(id, type, fmt) == [id |-> id, type |-> type, fmt |-> fmt]

\* setProperties: a format laid over another
Over(below, above) == IF above = None THEN below ELSE above

\* The entry of a revision, a sequence of at most one entry
WithId(revs, id) == SelectSeq(revs, LAMBDA r : r.id = id)

(***************************************************************************)
(* Adds what revision id did.  An entry of the same revision is replaced,  *)
(* completed or taken away: "the editor just changed his mind".            *)
(***************************************************************************)
(* slip: the old entry stays *)
WithoutSlip(revs, id) == revs

Without(revs, id) == SelectSeq(revs, LAMBDA r : r.id # id)

(* slip: what the revision has deleted stays deleted *)
AddRevisionSlip(revs, id, type, fmt) ==
    IF WithId(revs, id) = << >> THEN Append(revs, Entry(id, type, fmt))
    ELSE IF type = "del" THEN Append(Without(revs, id), Entry(id, type, fmt))
    ELSE revs

AddRevision(revs, id, type, fmt) ==
    IF WithId(revs, id) = << >> THEN Append(revs, Entry(id, type, fmt))
    ELSE LET old == Head(WithId(revs, id)).type
         IN  CASE type # old /\ "del" \in {type, old} /\ type # "add" ->
                      Append(Without(revs, id), Entry(id, type, fmt))
               [] type = "add" /\ old = "del" -> Without(revs, id)
               [] type = "fmt" /\ old # "del" ->
                      [i \in DOMAIN revs |->
                          IF revs[i].id = id
                          THEN [revs[i] EXCEPT !.fmt = Over(@, fmt)]
                          ELSE revs[i]]
               [] OTHER -> revs

(***************************************************************************)
(* The cumulative result: what is below the topmost deletion goes, the     *)
(* rest is merged into its lowest entry, which keeps its type and id.      *)
(***************************************************************************)
(* slip: a deletion does not take what is below it *)
PruneSlip(revs) ==
    [Head(revs) EXCEPT !.fmt = FoldLeft(LAMBDA f, r : Over(f, r.fmt), None, revs)]

Prune(revs) ==
    LET top  == SelectLastInSeq(revs, LAMBDA r : r.type = "del")
        left == IF top = 0 THEN revs ELSE SubSeq(revs, top, Len(revs))
    IN  [Head(left) EXCEPT !.fmt =
            FoldLeft(LAMBDA f, r : Over(f, r.fmt), None, left)]

\* removeAllHigherOrEqualIds
Below(revs, id) == SelectSeq(revs, LAMBDA r : r.id < id)

\* The entries of the highest and of the lowest revision, at most one each
Highest(revs) ==
    SelectSeq(revs, LAMBDA r : \A i \in DOMAIN revs : revs[i].id <= r.id)

Lowest(revs) ==
    SelectSeq(revs, LAMBDA r : \A i \in DOMAIN revs : revs[i].id >= r.id)

\* getGreatestLesserOrEqualRevision; 0 stands for the last revision
GreatestUpTo(revs, id) ==
    IF id = 0 THEN Highest(revs) ELSE Highest(Below(revs, id + 1))

(* slip: only what is greater *)
LowestFromSlip(revs, id) == Lowest(SelectSeq(revs, LAMBDA r : r.id > id))

\* getLowestGreaterOrEqualRevision
LowestFrom(revs, id) == Lowest(SelectSeq(revs, LAMBDA r : r.id >= id))

=============================================================================
