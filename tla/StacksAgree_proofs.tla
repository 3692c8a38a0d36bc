------------------------- MODULE StacksAgree_proofs -------------------------
(***************************************************************************)
(* The stacks of a slave and the master agree when nothing is under way    *)
(* and no assertion has failed (StacksAgree): a proof for any set of       *)
(* slaves, any kinds and numbers of changes, and whatever a comparison of  *)
(* changes or an undo of the document computes.                            *)
(*                                                                         *)
(* SyncInv says what the queues hold of the difference.  A change of a     *)
(* slave is on both stacks, or on its own and under way, or refused and on *)
(* none as soon as the slave has reverted it and all that came after;      *)
(* which acknowledgement answers which refusal follows from their order    *)
(* alone (Expected), or else an assertion is going to fail.                *)
(***************************************************************************)
EXTENDS OwnChanges_proofs, SequenceTheorems
(* The changes of others on both stacks (AlienAgree) *)

(* The master pushes or imports a change that the slave has not seen.       *)
LEMMA AlienHisPush ==
  ASSUME NEW st, NEW his, IsSeq(his), NEW s, NEW seen, AlienAgree(st, his, s, seen),
         NEW e, e.origin = s \/ (e.rev \in Nat /\ seen < e.rev)
  PROVE  AlienAgree(st, Append(his, e), s, seen)
<1> DEFINE b == Append(his, e)
           v == st[1].rev
           x == Len(his) + 1
           A == Alien(his, s)
           I == {i \in A : his[i].rev > v /\ his[i].rev <= seen}
           J == {i \in Alien(b, s) : b[i].rev > v /\ b[i].rev <= seen}
<1>1. /\ seen \in Nat /\ v <= seen /\ Shape(st, Alien(st, s) \ {1}) = Shape(his, I)
  BY DEF AlienAgree
<1>2. /\ Alien(b, s) = A \cup (IF e.origin = s THEN {} ELSE {x})
      /\ b[x] = e /\ \A i \in A : b[i] = his[i]
  <2>1. /\ Alien(b, s) = A \cup (IF e.origin = s THEN {} ELSE {x}) /\ b[x] = e
        /\ \A i \in A : i \in 1..Len(his)
        /\ \A i \in 1..Len(his) : b[i] = his[i]
    BY EntryPushed
  <2> HIDE DEF A, b, x
  <2> QED BY <2>1
<1>3. A \in SUBSET Nat /\ IsFiniteSet(A)
  BY EntriesAre
<1> HIDE DEF b, x, A, v
<1>4. J = I
  BY <1>1, <1>2
<1>5. I \in SUBSET Nat /\ IsFiniteSet(I)
  <2>1. I \in SUBSET A
    OBVIOUS
  <2> QED BY <1>3, <2>1, FS_Subset
<1>6. Shape(b, I) = Shape(his, I)
  <2>1. \A i \in I : Alike(b[i], his[i])
    BY <1>2 DEF Alike
  <2> HIDE DEF I
  <2> QED BY <1>5, <2>1, ShapeSame
<1>7. AlienAgree(st, b, s, seen)
  <2>1. Shape(st, Alien(st, s) \ {1}) = Shape(b, J)
    BY <1>1, <1>4, <1>6
  <2> QED BY <1>1, <2>1 DEF AlienAgree, v
<1> QED BY <1>7 DEF b

(* The slave pushes a change.                                               *)
LEMMA AlienOwnPush ==
  ASSUME NEW st, IsSeq(st), Len(st) >= 1, NEW his, NEW s, NEW seen, AlienAgree(st, his, s, seen),
         NEW e, e.origin = s
  PROVE  AlienAgree(Append(st, e), his, s, seen)
<1> DEFINE b == Append(st, e)
           A == Alien(st, s)
<1>1. Alien(b, s) = A /\ b[1] = st[1] /\ \A i \in A : b[i] = st[i]
  <2>1. /\ IsSeq(b) /\ Len(b) = Len(st) + 1 /\ Len(st) \in Nat
        /\ \A i \in 1..Len(st) : b[i] = st[i]
        /\ b[Len(st) + 1].origin = s
    BY AppendIsSeq DEF IsSeq
  <2>2. A = {i \in 1..Len(st) : st[i].origin # s}
    BY EntriesAre
  <2> HIDE DEF A, b
  <2>3. Alien(b, s) = {i \in 1..Len(b) : b[i].origin # s}
    BY <2>1, EntriesAre
  <2>4. 1..Len(b) = 1..Len(st) \cup {Len(st) + 1}
    BY <2>1
  <2>5. Alien(b, s) = A
    BY <2>1, <2>2, <2>3, <2>4
  <2> QED BY <2>1, <2>2, <2>5
<1>2. A \ {1} \in SUBSET Nat /\ IsFiniteSet(A \ {1})
  <2>1. A \in SUBSET Nat /\ IsFiniteSet(A) /\ A \ {1} \in SUBSET A
    BY EntriesAre
  <2> QED BY <2>1, FS_Subset
<1>3. \A i \in A \ {1} : Alike(b[i], st[i])
  BY <1>1 DEF Alike
<1> HIDE DEF b, A
<1>4. Shape(b, A \ {1}) = Shape(st, A \ {1})
  BY <1>2, <1>3, ShapeSame
<1>5. AlienAgree(b, his, s, seen)
  BY <1>1, <1>4 DEF AlienAgree, A
<1> QED BY <1>5 DEF b

(* The slave takes some of its changes back.                                *)
LEMMA DroppedStack ==
  ASSUME NEW st, NEW s, NEW top, SlaveStack(st, s, top), NEW mine, mine \subseteq From(st, s)
  PROVE  LET b  == Dropped(st, mine)
             A  == Alien(st, s) \ {1}
             L  == Kept(st, mine)
             at == Ascending(L)
         IN  /\ SlaveStack(b, s, top)
             /\ b[1].rev = st[1].rev /\ A \in SUBSET L
             /\ Alien(b, s) \ {1} = {k \in 1..Cardinality(L) : at[k] \in A}
             /\ L \in SUBSET Nat /\ IsFiniteSet(L)
             /\ \A k \in 1..Cardinality(L) : Alike(b[k], st[at[k]])
<1> DEFINE b == Dropped(st, mine)
           A == Alien(st, s)
           L == Kept(st, mine)
           n == Cardinality(L)
           at == Ascending(L)
<1>1. /\ IsSeq(st) /\ Len(st) \in Nat /\ Len(st) >= 1 /\ st[1].origin # s
      /\ \A i \in 1..Len(st) : IsEntry(st[i])
      /\ A = {i \in 1..Len(st) : st[i].origin # s}
      /\ From(st, s) = {i \in 1..Len(st) : st[i].origin = s}
  <2>1. /\ IsSeq(st) /\ Len(st) >= 1 /\ st[1].origin # s
        /\ \A i \in 1..Len(st) : IsEntry(st[i])
    BY DEF SlaveStack
  <2> QED BY <2>1, EntriesAre
<1>2. /\ L \in SUBSET Nat /\ IsFiniteSet(L) /\ n \in Nat
      /\ IsSeq(b) /\ Len(b) = n
      /\ \A k \in 1..n : /\ at[k] \in L
                         /\ b[k].rev = st[at[k]].rev /\ b[k].origin = st[at[k]].origin
                         /\ Alike(b[k], st[at[k]]) /\ IsEntry(b[k])
      /\ \A k, l \in 1..n : k < l => at[k] < at[l]
      /\ \A i \in L : \E k \in 1..n : at[k] = i
  BY <1>1, DroppedIs
<1>3. L = {i \in 1..Len(st) : i \notin mine}
  BY DEF Kept
<1>4. Alien(b, s) = {k \in 1..n : b[k].origin # s}
  BY <1>2, EntriesAre
<1>5. A \in SUBSET L /\ 1 \in L
  BY <1>1, <1>3
<1> HIDE DEF b, A, L, n, at
<1>6. \A k \in 1..n : at[k] \in 1..Len(st) /\ at[k] \in Nat /\ at[k] >= 1
  BY <1>1, <1>2, <1>3
<1>7. 1 \in 1..n /\ at[1] = 1
  <2>1. PICK k \in 1..n : at[k] = 1
    BY <1>2, <1>5
  <2>2. n \in Nat /\ k \in Nat /\ k >= 1 /\ n >= 1 /\ 1 \in 1..n
    BY <1>2, <2>1
  <2>3. CASE k = 1
    BY <2>1, <2>2, <2>3
  <2>4. CASE k # 1
    <3>1. 1 < k
      BY <2>2, <2>4
    <3>2. at[1] < at[k]
      BY <1>2, <2>1, <2>2, <3>1
    <3> QED BY <1>6, <2>1, <2>2, <3>2
  <2> QED BY <2>3, <2>4
<1>8. \A k \in 1..n : k # 1 => at[k] \in 2..Len(st)
  <2> SUFFICES ASSUME NEW k \in 1..n, k # 1 PROVE at[k] \in 2..Len(st)
    OBVIOUS
  <2>1. 1 < k
    OBVIOUS
  <2>2. 1 < at[k]
    BY <1>2, <1>7, <2>1
  <2> QED BY <1>1, <1>6, <2>2
<1>9. SlaveStack(b, s, top)
  <2>1. Len(b) >= 1 /\ b[1].origin # s /\ b[1].rev \in Nat /\ top \in Nat
    BY <1>1, <1>2, <1>7 DEF SlaveStack
  <2>2. \A i \in 1..Len(b) : IsEntry(b[i])
    BY <1>2
  <2>3. \A i \in 2..Len(b) : b[i].rev \in Nat /\ b[i].rev <= top
    <3> TAKE i \in 2..Len(b)
    <3>1. i \in 1..n /\ at[i] \in 2..Len(st)
      BY <1>2, <1>8
    <3> QED BY <1>2, <3>1 DEF SlaveStack
  <2>4. \A i, j \in 2..Len(b) : i < j => b[i].rev < b[j].rev
    <3> SUFFICES ASSUME NEW i \in 2..Len(b), NEW j \in 2..Len(b), i < j
                 PROVE  b[i].rev < b[j].rev
      OBVIOUS
    <3>1. /\ i \in 1..n /\ at[i] \in 2..Len(st) /\ j \in 1..n /\ at[j] \in 2..Len(st)
      BY <1>2, <1>8
    <3>2. at[i] < at[j]
      BY <1>2, <3>1
    <3> QED BY <1>2, <3>1, <3>2 DEF SlaveStack
  <2> QED BY <1>2, <2>1, <2>2, <2>3, <2>4 DEF SlaveStack
<1>10. Alien(b, s) \ {1} = {k \in 1..n : at[k] \in A \ {1}}
  <2>1. ASSUME NEW k \in 1..n PROVE k \in Alien(b, s) \ {1} <=> at[k] \in A \ {1}
    <3>1. k = 1 <=> at[k] = 1
      BY <1>7, <1>8
    <3>2. k \in Alien(b, s) <=> at[k] \in A
      BY <1>1, <1>2, <1>4, <1>6
    <3> QED BY <3>1, <3>2
  <2> QED BY <1>4, <2>1
<1>12. b[1].rev = st[1].rev
  BY <1>2, <1>7
<1> QED BY <1>2, <1>5, <1>9, <1>10, <1>12 DEF b, A, L, n, at

(* What it has seen of the others is the same after that.                   *)
LEMMA AlienDropped ==
  ASSUME NEW st, NEW his, NEW s, NEW top, SlaveStack(st, s, top), NEW seen,
         AlienAgree(st, his, s, seen), NEW mine, mine \subseteq From(st, s)
  PROVE  AlienAgree(Dropped(st, mine), his, s, seen)
<1> DEFINE b == Dropped(st, mine)
           I == Alien(st, s) \ {1}
           J == Alien(b, s) \ {1}
           L == Kept(st, mine)
<1>1. /\ b[1].rev = st[1].rev /\ I \in SUBSET L
      /\ J = {k \in 1..Cardinality(L) : Ascending(L)[k] \in I}
      /\ L \in SUBSET Nat /\ IsFiniteSet(L)
      /\ \A k \in 1..Cardinality(L) : Alike(b[k], st[Ascending(L)[k]])
  BY DroppedStack
<1> HIDE DEF b, I, J, L
<1>2. Shape(b, J) = Shape(st, I)
  BY <1>1, ShapeMoved
<1>3. AlienAgree(b, his, s, seen)
  BY <1>1, <1>2 DEF AlienAgree, I, J
<1> QED BY <1>3 DEF b

(* The slave imports the next change of the master.                         *)
LEMMA AlienImported ==
  ASSUME NEW st, IsSeq(st), Len(st) >= 1, st[1].rev \in Nat, NEW his, NEW top, StackOK(his, top), MasterStack(his),
         NEW s, NEW seen, AlienAgree(st, his, s, seen), NEW c, IsSeq(c), c # <<>>,
         c[1].type = "change", RevsIn(c) = Newer(his, s, seen), InOrder(c),
         \A j \in Alien(his, s) : c[1].rev = his[j].rev => SameChange(c[1], his[j]),
         NEW e, e.origin # s, SameChange(c[1], e)
  PROVE  AlienAgree(Append(st, e), his, s, c[1].rev)
<1> DEFINE b == Append(st, e)
           v == st[1].rev
           r == c[1].rev
           x == Len(st) + 1
           A == Alien(his, s)
           B == Alien(st, s) \ {1}
           I == {i \in A : his[i].rev > v /\ his[i].rev <= seen}
           J == {i \in A : his[i].rev > v /\ his[i].rev <= r}
<1>1. /\ seen \in Nat /\ v \in Nat /\ v <= seen /\ Shape(st, B) = Shape(his, I)
  BY DEF AlienAgree
<1>2. /\ IsSeq(his) /\ A = {i \in 1..Len(his) : his[i].origin # s} /\ A \in SUBSET Nat /\ IsFiniteSet(A)
      /\ Len(his) \in Nat
      /\ \A i \in A : his[i].rev \in Nat
      /\ \A i, j \in A : i < j => his[i].rev < his[j].rev
  <2>1. IsSeq(his)
    BY DEF StackOK
  <2>2. A = {i \in 1..Len(his) : his[i].origin # s} /\ A \in SUBSET Nat /\ IsFiniteSet(A) /\ Len(his) \in Nat
    BY <2>1, EntriesAre
  <2>3. \A i \in A : i \in 1..Len(his)
    BY <2>2
  <2> HIDE DEF A
  <2> QED BY <2>1, <2>2, <2>3 DEF StackOK, MasterStack
<1>3. /\ \A q \in Newer(his, s, seen) : q \in Nat /\ q > seen
      /\ Newer(his, s, seen) = {his[k].rev : k \in {j \in A : his[j].rev > seen}}
  <2>1. \A q \in Newer(his, s, seen) : q \in Nat /\ q > seen
    BY <1>1, NewerBounds
  <2>2. {j \in DOMAIN his : his[j].origin # s /\ his[j].rev > seen} = {j \in A : his[j].rev > seen}
    BY DEF Alien
  <2> QED BY <2>1, <2>2 DEF Newer
<1>4. r \in RevsIn(c) /\ \A q \in RevsIn(c) : q = r \/ q > r
  <2>1. RevsIn(c) \subseteq Nat /\ Head(c) = c[1]
    BY <1>3, TailIsSeq
  <2> QED BY <2>1, TakeChange
<1>5. PICK j \in A : his[j].rev = r /\ r > seen /\ r \in Nat
  BY <1>3, <1>4
<1>6. /\ Alien(b, s) = Alien(st, s) \cup {x} /\ b[x] = e /\ b[1] = st[1] /\ x \in Nat /\ x # 1
      /\ \A i \in Alien(st, s) : b[i] = st[i] /\ i < x
  <2>1. /\ Alien(b, s) = Alien(st, s) \cup (IF e.origin = s THEN {} ELSE {x})
        /\ b[x] = e /\ Len(st) \in Nat
        /\ \A i \in 1..Len(st) : b[i] = st[i] /\ i < x
    BY EntryPushed
  <2>3. \A i \in Alien(st, s) : i \in 1..Len(st)
    BY EntriesAre
  <2>2. 1 \in 1..Len(st) /\ x \in Nat /\ x # 1
    BY <2>1
  <2> HIDE DEF b, x
  <2> QED BY <2>1, <2>2, <2>3
<1>7. /\ B \in SUBSET Nat /\ IsFiniteSet(B)
  <2>1. /\ Alien(st, s) \in SUBSET Nat /\ IsFiniteSet(Alien(st, s)) /\ B \in SUBSET Alien(st, s)
    BY EntriesAre
  <2> QED BY <2>1, FS_Subset
<1>8. SameChange(c[1], his[j])
  BY <1>5
<1> HIDE DEF b, v, r, x, A
<1>9. I \in SUBSET Nat /\ IsFiniteSet(I)
  <2>1. I \in SUBSET A
    OBVIOUS
  <2> QED BY <1>2, <2>1, FS_Subset
<1>10. \A i \in A : i < j <=> his[i].rev < r
  <2> TAKE i \in A
  <2>1. i \in Nat /\ j \in Nat /\ his[i].rev \in Nat /\ his[j].rev \in Nat
    BY <1>2
  <2>2. i < j \/ i = j \/ j < i
    BY <2>1
  <2>3. i < j => his[i].rev < his[j].rev
    BY <1>2
  <2>4. j < i => his[j].rev < his[i].rev
    BY <1>2
  <2> QED BY <1>5, <2>1, <2>2, <2>3, <2>4
<1>11. \A i \in A : his[i].rev = r => i = j
  <2> SUFFICES ASSUME NEW i \in A, his[i].rev = r, i # j PROVE FALSE
    OBVIOUS
  <2>1. i \in Nat /\ j \in Nat /\ (i < j \/ j < i)
    BY <1>2
  <2>2. r \in Nat
    BY <1>5
  <2> QED BY <1>2, <1>5, <2>1, <2>2
<1>12. \A i \in I : i < j
  <2> TAKE i \in I
  <2>1. his[i].rev < r
    BY <1>1, <1>2, <1>5
  <2> QED BY <1>10, <2>1
<1>13. J = I \cup {j}
  <2>1. ASSUME NEW i \in J PROVE i \in I \cup {j}
    <3>1. i \in A /\ his[i].rev \in Nat
      BY <1>2
    <3>2. CASE his[i].rev <= seen
      BY <3>2
    <3>3. CASE his[i].rev > seen
      <4>1. his[i].rev \in RevsIn(c)
        BY <1>3, <3>1, <3>3
      <4>2. his[i].rev = r
        BY <1>4, <1>5, <3>1, <4>1
      <4> QED BY <1>11, <3>1, <4>2
    <3> QED BY <1>1, <3>1, <3>2, <3>3
  <2>2. ASSUME NEW i \in I PROVE i \in J
    BY <1>1, <1>2, <1>5
  <2>3. j \in J
    BY <1>1, <1>5
  <2> HIDE DEF I, J
  <2> QED BY <2>1, <2>2, <2>3
<1>14. Alike(b[x], his[j])
  BY <1>6, <1>8 DEF SameChange, Alike
<1>15. Shape(b, B) = Shape(his, I)
  <2>1. \A i \in B : Alike(b[i], st[i])
    BY <1>6 DEF Alike
  <2>2. Shape(b, B) = Shape(st, B)
    BY <1>7, <2>1, ShapeSame
  <2> QED BY <1>1, <2>2
<1>16. (\A i \in B : i < x) /\ j \in Nat /\ x \in Nat /\ Alien(b, s) \ {1} = B \cup {x}
  BY <1>2, <1>6
<1> HIDE DEF B, I, J
<1>17. Shape(b, B \cup {x}) = Shape(his, I \cup {j})
  BY <1>7, <1>9, <1>12, <1>14, <1>15, <1>16, ShapesGrow
<1>18. Shape(b, Alien(b, s) \ {1}) = Shape(his, J)
  BY <1>13, <1>16, <1>17
<1>19. r \in Nat /\ b[1].rev = v /\ v <= r
  BY <1>1, <1>5, <1>6 DEF v
<1>20. AlienAgree(b, his, s, r)
  BY <1>18, <1>19 DEF AlienAgree, J, A
<1> QED BY <1>20 DEF b, r
----------------------------------------------------------------------------
(* What SyncedInv says of one slave, with what it says it of as parameters. *)
Synced(st, c, his, s, W, done, back, top, seen, fails) ==
  /\ SlaveStack(st, s, top)
  /\ SlaveQueue(c, W, top)
  /\ fails = {} =>
       /\ AlienAgree(st, his, s, seen)
       /\ InStep(c, W) => OwnAgree(st, his, s, c, W) /\ RevertsOK(done, c, back, W, top)

(* Every refusal on its way is still on its way.                            *)
StillTold(back, later) ==
  \A i \in DOMAIN back : back[i].type = "revert" =>
    \E j \in DOMAIN later : later[j].type = "revert" /\ later[j].rev = back[i].rev

(* A refusal stays on its way when something is sent after it, or something *)
(* else is taken before it.                                                 *)
LEMMA ToldStays ==
  ASSUME NEW back, IsSeq(back)
  PROVE  /\ StillTold(back, back)
         /\ \A m : StillTold(back, Append(back, m))
         /\ back # <<>> /\ back[1].type # "revert" => StillTold(back, Tail(back))
<1>1. DOMAIN back = 1..Len(back) /\ Len(back) \in Nat
  BY EntriesAre DEF IsSeq
<1>2. StillTold(back, back)
  BY DEF StillTold
<1>3. ASSUME NEW m PROVE StillTold(back, Append(back, m))
  <2>1. /\ IsSeq(Append(back, m)) /\ Len(Append(back, m)) = Len(back) + 1
        /\ \A i \in 1..Len(back) : Append(back, m)[i] = back[i]
    BY AppendIsSeq
  <2> DEFINE b == Append(back, m)
  <2> HIDE DEF b
  <2>2. DOMAIN b = 1..Len(b)
    BY <2>1 DEF IsSeq, b
  <2>3. \A i \in DOMAIN back : i \in DOMAIN b /\ b[i] = back[i]
    BY <1>1, <2>1, <2>2 DEF b
  <2>4. StillTold(back, b)
    BY <2>3 DEF StillTold
  <2> QED BY <2>4 DEF b
<1>4. ASSUME back # <<>>, back[1].type # "revert" PROVE StillTold(back, Tail(back))
  <2> DEFINE b == Tail(back)
  <2>1. /\ IsSeq(b) /\ Len(b) = Len(back) - 1
        /\ \A i \in 1..(Len(back) - 1) : b[i] = back[i + 1]
    BY <1>4, TailIsSeq
  <2> HIDE DEF b
  <2>2. DOMAIN b = 1..Len(b)
    BY <2>1 DEF IsSeq
  <2>3. ASSUME NEW i \in DOMAIN back, back[i].type = "revert"
        PROVE  i - 1 \in DOMAIN b /\ b[i - 1] = back[i]
    <3>1. i # 1 /\ i \in 1..Len(back)
      BY <1>1, <1>4, <2>3
    <3>2. i - 1 \in 1..(Len(back) - 1) /\ (i - 1) + 1 = i
      BY <1>1, <3>1
    <3> QED BY <2>1, <2>2, <3>2
  <2>4. StillTold(back, b)
    BY <2>3 DEF StillTold
  <2> QED BY <2>4 DEF b
<1> QED BY <1>2, <1>3, <1>4
----------------------------------------------------------------------------
(* The stack and the queue of a slave *)

(* A change with a new revision goes on the stack.                          *)
LEMMA SlaveStackPush ==
  ASSUME NEW st, NEW s, NEW top, SlaveStack(st, s, top), NEW e, IsEntry(e), NEW later \in Nat,
         e.rev \in Nat, top < e.rev, e.rev <= later
  PROVE  SlaveStack(Append(st, e), s, later)
<1> DEFINE b == Append(st, e)
           n == Len(st)
<1>1. /\ IsSeq(st) /\ n >= 1 /\ n \in Nat /\ top \in Nat
      /\ st[1].origin # s /\ st[1].rev \in Nat
      /\ \A i \in 1..n : IsEntry(st[i])
      /\ \A i \in 2..n : st[i].rev \in Nat /\ st[i].rev <= top
      /\ \A i, j \in 2..n : i < j => st[i].rev < st[j].rev
  BY DEF SlaveStack, IsSeq
<1>2. /\ IsSeq(b) /\ Len(b) = n + 1 /\ b[n + 1] = e
      /\ \A i \in 1..n : b[i] = st[i]
  BY <1>1, AppendIsSeq
<1> HIDE DEF b, n
<1>3. b[1].origin # s /\ b[1].rev \in Nat /\ Len(b) >= 1
  <2>1. 1 \in 1..n
    BY <1>1
  <2> QED BY <1>1, <1>2, <2>1
<1>4. \A i \in 1..Len(b) : IsEntry(b[i])
  <2> TAKE i \in 1..Len(b)
  <2>1. i = n + 1 \/ i \in 1..n
    BY <1>1, <1>2
  <2> QED BY <1>1, <1>2, <2>1
<1>5. \A i \in 2..Len(b) : i = n + 1 \/ i \in 2..n
  BY <1>1, <1>2
<1>6. \A i \in 2..n : b[i] = st[i] /\ i # n + 1 /\ i < n + 1 /\ i \in Nat
  BY <1>1, <1>2
<1>7. \A i \in 2..Len(b) : b[i].rev \in Nat /\ b[i].rev <= later
  <2> TAKE i \in 2..Len(b)
  <2>1. CASE i = n + 1
    BY <1>2, <2>1
  <2>2. CASE i \in 2..n
    <3>1. b[i].rev \in Nat /\ b[i].rev <= top
      BY <1>1, <1>6, <2>2
    <3> QED BY <1>1, <3>1
  <2> QED BY <1>5, <2>1, <2>2
<1>8. ASSUME NEW i \in 2..Len(b), NEW j \in 2..Len(b), i < j PROVE b[i].rev < b[j].rev
  <2>1. i \in 2..n
    BY <1>1, <1>2, <1>8
  <2>2. b[i].rev = st[i].rev /\ st[i].rev \in Nat /\ st[i].rev <= top
    BY <1>1, <1>6, <2>1
  <2>3. CASE j = n + 1
    BY <1>1, <1>2, <2>2, <2>3
  <2>4. CASE j \in 2..n
    BY <1>1, <1>6, <1>8, <2>1, <2>4
  <2> QED BY <1>5, <2>3, <2>4
<1>9. SlaveStack(b, s, later)
  BY <1>2, <1>3, <1>4, <1>7, <1>8 DEF SlaveStack
<1> QED BY <1>9 DEF b

(* The revision of the document grows.                                      *)
LEMMA SlaveTop ==
  ASSUME NEW st, NEW s, NEW top, SlaveStack(st, s, top), NEW c, NEW W, SlaveQueue(c, W, top),
         NEW later \in Nat, top <= later
  PROVE  SlaveStack(st, s, later) /\ SlaveQueue(c, W, later)
<1>1. top \in Nat
  BY DEF SlaveStack
<1>2. SlaveStack(st, s, later)
  <2>1. \A i \in 2..Len(st) : st[i].rev \in Nat /\ st[i].rev <= later
    <3> TAKE i \in 2..Len(st)
    <3>1. st[i].rev \in Nat /\ st[i].rev <= top
      BY DEF SlaveStack
    <3> QED BY <1>1, <3>1
  <2> QED BY <2>1 DEF SlaveStack
<1>3. SlaveQueue(c, W, later)
  <2>1. \A i \in Changes(c) : c[i].rev \in Nat /\ c[i].rev <= later
    <3> TAKE i \in Changes(c)
    <3>1. c[i].rev \in Nat /\ c[i].rev <= top
      BY DEF SlaveQueue
    <3> QED BY <1>1, <3>1
  <2>2. \A w \in W : w \in Nat /\ w <= later
    <3> TAKE w \in W
    <3>1. w \in Nat /\ w <= top
      BY DEF SlaveQueue
    <3> QED BY <1>1, <3>1
  <2> QED BY <2>1, <2>2 DEF SlaveQueue
<1> QED BY <1>2, <1>3

(* The slave sends a change ...                                             *)
LEMMA SlaveQueuePush ==
  ASSUME NEW c, IsSeq(c), NEW W, NEW top \in Nat, SlaveQueue(c, W, top),
         NEW m, m.type = "change", m.rev = top + 1
  PROVE  SlaveQueue(Append(c, m), W, top + 1)
<1> DEFINE d == Append(c, m)
           y == Len(c) + 1
<1>1. /\ Changes(d) = Changes(c) \cup {y} /\ d[y] = m
      /\ \A i \in Changes(c) : i < y /\ i \in Nat /\ d[i] = c[i]
      /\ y \in Nat
  <2>1. /\ Changes(d) = Changes(c) \cup {y} /\ d[y] = m /\ Len(c) \in Nat
        /\ \A i \in Changes(c) : i \in 1..Len(c) /\ d[i] = c[i]
    BY AppendPackets
  <2> HIDE DEF d
  <2> QED BY <2>1
<1>2. /\ \A i \in Changes(c) : c[i].rev \in Nat /\ c[i].rev <= top
      /\ \A w \in W : w \in Nat /\ w <= top /\ \A i \in Changes(c) : w < c[i].rev
      /\ \A i, j \in Changes(c) : i < j => c[i].rev < c[j].rev
  BY DEF SlaveQueue, InOrder
<1> HIDE DEF d, y
<1>3. ASSUME NEW i \in Changes(d), NEW j \in Changes(d), i < j PROVE d[i].rev < d[j].rev
  <2>1. i \in Changes(c)
    <3>1. CASE i = y
      <4>1. j \in Nat /\ j <= y
        BY <1>1
      <4> QED BY <1>1, <1>3, <3>1, <4>1
    <3> QED BY <1>1, <3>1
  <2>2. CASE j = y
    <3>1. d[i].rev = c[i].rev /\ c[i].rev \in Nat /\ c[i].rev <= top /\ d[j].rev = top + 1
      BY <1>1, <1>2, <2>1, <2>2
    <3> QED BY <3>1
  <2>3. CASE j \in Changes(c)
    BY <1>1, <1>2, <1>3, <2>1, <2>3
  <2> QED BY <1>1, <2>2, <2>3
<1>4. \A i \in Changes(d) : d[i].rev \in Nat /\ d[i].rev <= top + 1
  <2> TAKE i \in Changes(d)
  <2>1. CASE i = y
    BY <1>1, <2>1
  <2>2. CASE i \in Changes(c)
    BY <1>1, <1>2, <2>2
  <2> QED BY <1>1, <2>1, <2>2
<1>5. \A w \in W : w \in Nat /\ w <= top + 1 /\ \A i \in Changes(d) : w < d[i].rev
  <2> TAKE w \in W
  <2>1. w \in Nat /\ w <= top
    BY <1>2
  <2>2. ASSUME NEW i \in Changes(d) PROVE w < d[i].rev
    <3>1. CASE i = y
      BY <1>1, <2>1, <3>1
    <3>2. CASE i \in Changes(c)
      BY <1>1, <1>2, <3>2
    <3> QED BY <1>1, <3>1, <3>2
  <2> QED BY <2>1, <2>2
<1>6. SlaveQueue(d, W, top + 1)
  BY <1>3, <1>4, <1>5 DEF SlaveQueue, InOrder
<1> QED BY <1>6 DEF d

(* ... or an acknowledgement.                                               *)
LEMMA SlaveQueueAck ==
  ASSUME NEW c, IsSeq(c), NEW W, NEW top, SlaveQueue(c, W, top), NEW m, m.type = "revertAck"
  PROVE  SlaveQueue(Append(c, m), W, top)
<1> DEFINE d == Append(c, m)
<1>1. Changes(d) = Changes(c) /\ \A i \in Changes(c) : d[i] = c[i]
  <2>1. Changes(d) = Changes(c)
    BY AppendPackets
  <2>2. \A i \in Changes(c) \cup Acks(c) : d[i] = c[i]
    BY AppendPackets
  <2> QED BY <2>1, <2>2
<1> HIDE DEF d
<1>2. SlaveQueue(d, W, top)
  BY <1>1 DEF SlaveQueue, InOrder
<1> QED BY <1>2 DEF d

(* The master takes a packet, and waits, if he does, for a revision that he *)
(* waited for already or that the packet had.                               *)
LEMMA SlaveQueueTail ==
  ASSUME NEW c, IsSeq(c), c # <<>>, NEW W, NEW top, SlaveQueue(c, W, top), NEW V,
         \/ V \subseteq W
         \/ V = {c[1].rev} /\ c[1].type = "change"
  PROVE  SlaveQueue(Tail(c), V, top)
<1> DEFINE d == Tail(c)
<1>1. \A i \in Changes(d) : i + 1 \in Changes(c) /\ d[i] = c[i + 1] /\ i \in Nat /\ i >= 1
  BY TailPackets
<1>2. 1 \in Changes(c) \/ c[1].type # "change"
  BY AcksAre, TailIsSeq
<1>3. /\ \A i \in Changes(c) : c[i].rev \in Nat /\ c[i].rev <= top
      /\ \A w \in W : w \in Nat /\ w <= top /\ \A i \in Changes(c) : w < c[i].rev
      /\ \A i, j \in Changes(c) : i < j => c[i].rev < c[j].rev
  BY DEF SlaveQueue, InOrder
<1> HIDE DEF d
<1>4. \A i \in Changes(d) : d[i].rev \in Nat /\ d[i].rev <= top
  BY <1>1, <1>3
<1>5. ASSUME NEW i \in Changes(d), NEW j \in Changes(d), i < j PROVE d[i].rev < d[j].rev
  <2>1. i + 1 < j + 1
    BY <1>1, <1>5
  <2> QED BY <1>1, <1>3, <2>1
<1>6. \A w \in V : w \in Nat /\ w <= top /\ \A i \in Changes(d) : w < d[i].rev
  <2>1. CASE V \subseteq W
    BY <1>1, <1>3, <2>1
  <2>2. CASE V = {c[1].rev} /\ c[1].type = "change"
    <3>1. 1 \in Changes(c)
      BY <1>2, <2>2
    <3>2. \A i \in Changes(d) : 1 < i + 1
      BY <1>1
    <3>3. \A i \in Changes(d) : c[1].rev < d[i].rev
      BY <1>1, <1>3, <3>1, <3>2
    <3> QED BY <1>3, <2>2, <3>1, <3>3
  <2> QED BY <2>1, <2>2
<1>7. SlaveQueue(d, V, top)
  BY <1>4, <1>5, <1>6 DEF SlaveQueue, InOrder
<1> QED BY <1>7 DEF d
----------------------------------------------------------------------------
(* What the slave has reverted (RevertsOK) *)

(* A refusal is still on its way, and the revision of the document grows.   *)
LEMMA RevertsStay ==
  ASSUME NEW done, NEW c, NEW back, NEW W, NEW top, RevertsOK(done, c, back, W, top),
         NEW later, StillTold(back, later), top \in Nat, NEW high \in Nat, top <= high
  PROVE  RevertsOK(done, c, later, W, high)
<1>1. \A n \in 1..Len(done) : done[n] \in Nat /\ done[n] <= high
  <2> TAKE n \in 1..Len(done)
  <2>1. done[n] \in Nat /\ done[n] <= top
    BY DEF RevertsOK
  <2> QED BY <2>1
<1>2. Acks(c) = {} =>
        \A w \in W : \E i \in DOMAIN later : later[i].type = "revert" /\ later[i].rev = w
  BY DEF RevertsOK, StillTold
<1> QED BY <1>1, <1>2 DEF RevertsOK

(* The slave sends a change, which it has not reverted.                     *)
LEMMA RevertsPush ==
  ASSUME NEW done, NEW c, IsSeq(c), NEW back, NEW W, NEW top \in Nat,
         RevertsOK(done, c, back, W, top), NEW m, m.type = "change", m.rev = top + 1
  PROVE  RevertsOK(done, Append(c, m), back, W, top + 1)
<1> DEFINE d == Append(c, m)
           y == Len(c) + 1
<1>1. /\ Changes(d) = Changes(c) \cup {y} /\ Acks(d) = Acks(c) /\ d[y] = m
      /\ \A i \in Changes(c) \cup Acks(c) : d[i] = c[i]
  <2>1. Changes(d) = Changes(c) \cup {y} /\ Acks(d) = Acks(c) /\ d[y] = m
    BY AppendPackets
  <2>2. \A i \in Changes(c) \cup Acks(c) : d[i] = c[i]
    BY AppendPackets
  <2> QED BY <2>1, <2>2
<1>2. /\ IsSeq(done)
      /\ \A n \in 1..Len(done) :
           /\ done[n] \in Nat /\ done[n] <= top
           /\ \A i \in Changes(c) :
                done[n] = c[i].rev => \E a \in Acks(c) : i < a /\ c[a].rev = c[i].rev
           /\ Acks(c) = {} => done[n] \notin W
      /\ Acks(c) = {} =>
           \A w \in W : \E i \in DOMAIN back : back[i].type = "revert" /\ back[i].rev = w
  BY DEF RevertsOK
<1> HIDE DEF d, y
<1>3. ASSUME NEW n \in 1..Len(done)
      PROVE  /\ done[n] \in Nat /\ done[n] <= top + 1
             /\ \A i \in Changes(d) :
                  done[n] = d[i].rev => \E a \in Acks(d) : i < a /\ d[a].rev = d[i].rev
             /\ Acks(d) = {} => done[n] \notin W
  <2>1. done[n] \in Nat /\ done[n] <= top
    BY <1>2
  <2>2. ASSUME NEW i \in Changes(d), done[n] = d[i].rev
        PROVE  \E a \in Acks(d) : i < a /\ d[a].rev = d[i].rev
    <3>1. CASE i = y
      BY <1>1, <2>1, <2>2, <3>1
    <3>2. CASE i \in Changes(c)
      BY <1>1, <1>2, <2>2, <3>2
    <3> QED BY <1>1, <3>1, <3>2
  <2> QED BY <1>1, <1>2, <2>1, <2>2
<1>4. RevertsOK(done, d, back, W, top + 1)
  BY <1>1, <1>2, <1>3 DEF RevertsOK
<1> QED BY <1>4 DEF d

(* The master takes a change and waits no more than before, or for that     *)
(* change, and has told so.                                                 *)
LEMMA RevertsTail ==
  ASSUME NEW done, NEW c, IsSeq(c), c # <<>>, c[1].type = "change", NEW back, NEW W, NEW top,
         RevertsOK(done, c, back, W, top), NEW later, StillTold(back, later), NEW V,
         \/ V = W
         \/ /\ V = {c[1].rev}
            /\ \E i \in DOMAIN later : later[i].type = "revert" /\ later[i].rev = c[1].rev
  PROVE  RevertsOK(done, Tail(c), later, V, top)
<1> DEFINE d == Tail(c)
<1>1. /\ \A i \in Changes(d) : i + 1 \in Changes(c) /\ d[i] = c[i + 1] /\ i \in Nat
      /\ \A a \in Acks(c) : a # 1 => a - 1 \in Acks(d) /\ d[a - 1] = c[a]
      /\ Acks(c) \subseteq Nat
      /\ (Acks(d) = {} <=> Acks(c) = {}) /\ 1 \notin Acks(c) /\ 1 \in Changes(c)
  BY TailPackets, AcksTail, AcksAre
<1>2. /\ IsSeq(done)
      /\ \A n \in 1..Len(done) :
           /\ done[n] \in Nat /\ done[n] <= top
           /\ \A i \in Changes(c) :
                done[n] = c[i].rev => \E a \in Acks(c) : i < a /\ c[a].rev = c[i].rev
           /\ Acks(c) = {} => done[n] \notin W
      /\ Acks(c) = {} =>
           \A w \in W : \E i \in DOMAIN back : back[i].type = "revert" /\ back[i].rev = w
  BY DEF RevertsOK
<1> HIDE DEF d
<1>3. ASSUME NEW n \in 1..Len(done), NEW i \in Changes(d), done[n] = d[i].rev
      PROVE  \E a \in Acks(d) : i < a /\ d[a].rev = d[i].rev
  <2>1. PICK a \in Acks(c) : i + 1 < a /\ c[a].rev = c[i + 1].rev
    BY <1>1, <1>2, <1>3
  <2>2. a - 1 \in Acks(d) /\ d[a - 1] = c[a] /\ i < a - 1
    BY <1>1, <2>1
  <2> QED BY <1>1, <2>1, <2>2
<1>4. ASSUME NEW n \in 1..Len(done), Acks(d) = {} PROVE done[n] \notin V
  BY <1>1, <1>2, <1>4
<1>5. ASSUME Acks(d) = {}, NEW w \in V
      PROVE  \E i \in DOMAIN later : later[i].type = "revert" /\ later[i].rev = w
  BY <1>1, <1>2, <1>5 DEF StillTold
<1>6. RevertsOK(done, d, later, V, top)
  BY <1>2, <1>3, <1>4, <1>5 DEF RevertsOK
<1> QED BY <1>6 DEF d

(* The master takes the acknowledgement he waits for.                       *)
LEMMA RevertsAcked ==
  ASSUME NEW done, NEW c, IsSeq(c), c # <<>>, c[1].type = "revertAck", NEW back, NEW W, NEW top,
         RevertsOK(done, c, back, W, top)
  PROVE  RevertsOK(done, Tail(c), back, {}, top)
<1> DEFINE d == Tail(c)
<1>1. /\ \A i \in Changes(d) : i + 1 \in Changes(c) /\ d[i] = c[i + 1] /\ i \in Nat /\ i >= 1
      /\ \A a \in Acks(c) : a # 1 => a - 1 \in Acks(d) /\ d[a - 1] = c[a]
      /\ Acks(c) \subseteq Nat
  BY TailPackets, AcksAre
<1>2. /\ IsSeq(done)
      /\ \A n \in 1..Len(done) :
           /\ done[n] \in Nat /\ done[n] <= top
           /\ \A i \in Changes(c) :
                done[n] = c[i].rev => \E a \in Acks(c) : i < a /\ c[a].rev = c[i].rev
  BY DEF RevertsOK
<1> HIDE DEF d
<1>3. ASSUME NEW n \in 1..Len(done), NEW i \in Changes(d), done[n] = d[i].rev
      PROVE  \E a \in Acks(d) : i < a /\ d[a].rev = d[i].rev
  <2>1. PICK a \in Acks(c) : i + 1 < a /\ c[a].rev = c[i + 1].rev
    BY <1>1, <1>2, <1>3
  <2>2. a - 1 \in Acks(d) /\ d[a - 1] = c[a] /\ i < a - 1
    BY <1>1, <2>1
  <2> QED BY <1>1, <2>1, <2>2
<1>4. RevertsOK(done, d, back, {}, top)
  BY <1>2, <1>3 DEF RevertsOK
<1> QED BY <1>4 DEF d

(* The slave reverts and acknowledges that.                                 *)
LEMMA RevertsMore ==
  ASSUME NEW done, NEW c, IsSeq(c), NEW back, NEW W, NEW top, RevertsOK(done, c, back, W, top),
         NEW m, m.type = "revertAck", m.rev \in Nat, m.rev <= top
  PROVE  RevertsOK(Append(done, m.rev), Append(c, m), back, W, top)
<1> DEFINE d == Append(c, m)
           y == Len(c) + 1
           x == m.rev
           after == Append(done, x)
           n == Len(done)
<1>1. /\ Changes(d) = Changes(c) /\ Acks(d) = Acks(c) \cup {y} /\ d[y].rev = x
      /\ \A i \in Changes(c) \cup Acks(c) : d[i] = c[i] /\ i < y
  <2>1. Changes(d) = Changes(c) /\ Acks(d) = Acks(c) \cup {y} /\ d[y] = m /\ Len(c) \in Nat
    BY AppendPackets
  <2>2. \A i \in Changes(c) \cup Acks(c) : d[i] = c[i] /\ i \in 1..Len(c)
    BY AppendPackets
  <2> HIDE DEF d
  <2> QED BY <2>1, <2>2
<1>2. /\ IsSeq(done) /\ n \in Nat
      /\ \A k \in 1..n :
           /\ done[k] \in Nat /\ done[k] <= top
           /\ \A i \in Changes(c) :
                done[k] = c[i].rev => \E a \in Acks(c) : i < a /\ c[a].rev = c[i].rev
  BY DEF RevertsOK, IsSeq
<1>3. /\ IsSeq(after) /\ Len(after) = n + 1 /\ after[n + 1] = x
      /\ \A k \in 1..n : after[k] = done[k]
  BY <1>2, AppendIsSeq
<1> HIDE DEF d, y, x, after, n
<1>4. ASSUME NEW k \in 1..Len(after)
      PROVE  /\ after[k] \in Nat /\ after[k] <= top
             /\ \A i \in Changes(d) :
                  after[k] = d[i].rev => \E a \in Acks(d) : i < a /\ d[a].rev = d[i].rev
  <2>1. CASE k = n + 1
    <3>1. after[k] = x
      BY <1>3, <2>1
    <3> QED BY <1>1, <3>1 DEF x
  <2>2. CASE k \in 1..n
    <3>1. after[k] = done[k]
      BY <1>3, <2>2
    <3> QED BY <1>1, <1>2, <2>2, <3>1
  <2> QED BY <1>2, <1>3, <2>1, <2>2
<1>5. RevertsOK(after, d, back, W, top)
  BY <1>1, <1>3, <1>4 DEF RevertsOK
<1> QED BY <1>5 DEF d, after, x

(* The slave is told to revert what it has reverted.                        *)
LEMMA RevertsTold ==
  ASSUME NEW done, NEW c, NEW back, IsSeq(back), back # <<>>, NEW W, NEW top,
         RevertsOK(done, c, back, W, top), done # <<>>, done[1] = back[1].rev
  PROVE  RevertsOK(Tail(done), c, Tail(back), W, top)
<1> DEFINE after == Tail(done)
           later == Tail(back)
<1>1. /\ IsSeq(done)
      /\ \A n \in 1..Len(done) :
           /\ done[n] \in Nat /\ done[n] <= top
           /\ \A i \in Changes(c) :
                done[n] = c[i].rev => \E a \in Acks(c) : i < a /\ c[a].rev = c[i].rev
           /\ Acks(c) = {} => done[n] \notin W
      /\ Acks(c) = {} =>
           \A w \in W : \E i \in DOMAIN back : back[i].type = "revert" /\ back[i].rev = w
  BY DEF RevertsOK
<1>2. /\ IsSeq(after) /\ Len(after) = Len(done) - 1 /\ Len(done) \in Nat /\ 1 \in 1..Len(done)
      /\ \A n \in 1..(Len(done) - 1) : after[n] = done[n + 1]
  BY <1>1, TailIsSeq
<1>3. /\ IsSeq(later) /\ Len(later) = Len(back) - 1 /\ Len(back) \in Nat
      /\ \A n \in 1..(Len(back) - 1) : later[n] = back[n + 1]
  BY TailIsSeq
<1>4. DOMAIN back = 1..Len(back)
  BY DEF IsSeq
<1> HIDE DEF after, later
<1>5. DOMAIN later = 1..Len(later)
  BY <1>3 DEF IsSeq
<1>6. ASSUME NEW n \in 1..Len(after)
      PROVE  /\ after[n] \in Nat /\ after[n] <= top
             /\ \A i \in Changes(c) :
                  after[n] = c[i].rev => \E a \in Acks(c) : i < a /\ c[a].rev = c[i].rev
             /\ Acks(c) = {} => after[n] \notin W
  <2>1. n + 1 \in 1..Len(done) /\ after[n] = done[n + 1]
    BY <1>2
  <2> QED BY <1>1, <2>1
<1>7. ASSUME Acks(c) = {}, NEW w \in W
      PROVE  \E i \in DOMAIN later : later[i].type = "revert" /\ later[i].rev = w
  <2>1. PICK i \in DOMAIN back : back[i].type = "revert" /\ back[i].rev = w
    BY <1>1, <1>7
  <2>2. i # 1
    <3>1. done[1] \notin W
      BY <1>1, <1>2, <1>7
    <3> QED BY <2>1, <3>1
  <2>3. i - 1 \in 1..(Len(back) - 1) /\ i - 1 + 1 = i
    BY <1>3, <1>4, <2>1, <2>2
  <2> QED BY <1>3, <1>5, <2>1, <2>3
<1>8. RevertsOK(after, c, later, W, top)
  BY <1>2, <1>6, <1>7 DEF RevertsOK
<1> QED BY <1>8 DEF after, later
----------------------------------------------------------------------------
(* The steps as they concern one slave *)

(* Nothing is said of the agreement once an assertion has failed.           *)
LEMMA SyncedFailed ==
  ASSUME NEW st, NEW s, NEW top, SlaveStack(st, s, top), NEW c, NEW W, SlaveQueue(c, W, top),
         NEW his, NEW done, NEW back, NEW seen, NEW fails, fails # {}
  PROVE  Synced(st, c, his, s, W, done, back, top, seen, fails)
BY DEF Synced

(* A failed assertion takes nothing away.                                   *)
LEMMA SyncedAsserted ==
  ASSUME NEW st, NEW c, NEW his, NEW s, NEW W, NEW done, NEW back, NEW top, NEW seen, NEW fails,
         Synced(st, c, his, s, W, done, back, top, seen, fails),
         NEW fail, fail = {} => fails = {}
  PROVE  Synced(st, c, his, s, W, done, back, top, seen, fail)
BY DEF Synced

(* The slave has a new revision without a change, or is sent something else *)
(* than a change.                                                           *)
LEMMA SyncedStays ==
  ASSUME NEW st, NEW c, NEW his, NEW s, NEW W, NEW done, NEW back, NEW top, NEW seen, NEW fails,
         Synced(st, c, his, s, W, done, back, top, seen, fails),
         NEW later, StillTold(back, later), NEW high \in Nat, top <= high,
         NEW fail, fail = {} => fails = {}
  PROVE  Synced(st, c, his, s, W, done, later, high, seen, fail)
<1>1. SlaveStack(st, s, top) /\ SlaveQueue(c, W, top) /\ top \in Nat
  BY DEF Synced, SlaveStack
<1>2. SlaveStack(st, s, high) /\ SlaveQueue(c, W, high)
  BY <1>1, SlaveTop
<1>3. ASSUME fail = {}, InStep(c, W)
      PROVE  OwnAgree(st, his, s, c, W) /\ RevertsOK(done, c, later, W, high)
  <2>1. OwnAgree(st, his, s, c, W) /\ RevertsOK(done, c, back, W, top)
    BY <1>3 DEF Synced
  <2> QED BY <1>1, <2>1, RevertsStay
<1>4. fail = {} => AlienAgree(st, his, s, seen)
  BY DEF Synced
<1> QED BY <1>2, <1>3, <1>4 DEF Synced

(* The master pushes or forwards a change that the slave did not make.      *)
LEMMA SyncedHears ==
  ASSUME NEW st, NEW c, NEW his, IsSeq(his), NEW s, NEW W, NEW done, NEW back, NEW top, NEW seen,
         NEW fails, Synced(st, c, his, s, W, done, back, top, seen, fails),
         NEW later, StillTold(back, later), NEW e, e.origin # s, e.rev \in Nat, seen < e.rev,
         NEW fail, fail = {} => fails = {}
  PROVE  Synced(st, c, Append(his, e), s, W, done, later, top, seen, fail)
<1>1. SlaveStack(st, s, top) /\ SlaveQueue(c, W, top) /\ top \in Nat /\ top <= top
  BY DEF Synced, SlaveStack
<1>2. ASSUME fail = {}, InStep(c, W)
      PROVE  OwnAgree(st, Append(his, e), s, c, W) /\ RevertsOK(done, c, later, W, top)
  <2>1. OwnAgree(st, his, s, c, W) /\ RevertsOK(done, c, back, W, top)
    BY <1>2 DEF Synced
  <2> QED BY <1>1, <2>1, RevertsStay, OwnHisAlien
<1>3. ASSUME fail = {} PROVE AlienAgree(st, Append(his, e), s, seen)
  <2>1. AlienAgree(st, his, s, seen)
    BY <1>3 DEF Synced
  <2> QED BY <2>1, AlienHisPush
<1> QED BY <1>1, <1>2, <1>3 DEF Synced

(* The user of the slave makes a change.                                    *)
LEMMA SyncedPush ==
  ASSUME NEW st, NEW c, IsSeq(c), NEW his, NEW s, NEW W, NEW done, NEW back, NEW top, NEW seen,
         NEW fails, Synced(st, c, his, s, W, done, back, top, seen, fails),
         NEW m, m.type = "change", m.rev = top + 1,
         NEW e, IsEntry(e), e.origin = s, e.rev = top + 1, SameChange(m, e)
  PROVE  Synced(Append(st, e), Append(c, m), his, s, W, done, back, top + 1, seen, fails)
<1>1. SlaveStack(st, s, top) /\ SlaveQueue(c, W, top)
  BY DEF Synced
<1>2. top \in Nat /\ IsSeq(st) /\ Len(st) >= 1
  BY <1>1 DEF SlaveStack
<1>3. SlaveStack(Append(st, e), s, top + 1)
  <2>1. top + 1 \in Nat /\ top < top + 1 /\ top + 1 <= top + 1
    BY <1>2
  <2> QED BY <1>1, <2>1, SlaveStackPush
<1>4. SlaveQueue(Append(c, m), W, top + 1)
  BY <1>1, <1>2, SlaveQueuePush
<1>5. ASSUME fails = {}, InStep(Append(c, m), W)
      PROVE  /\ OwnAgree(Append(st, e), his, s, Append(c, m), W)
             /\ RevertsOK(done, Append(c, m), back, W, top + 1)
  <2>1. InStep(c, W)
    BY <1>5, InStepSent
  <2>2. OwnAgree(st, his, s, c, W) /\ RevertsOK(done, c, back, W, top)
    BY <1>5, <2>1 DEF Synced
  <2>3. OwnAgree(Append(st, e), his, s, Append(c, m), W)
    BY <1>1, <2>2, OwnPush
  <2> QED BY <1>2, <2>2, <2>3, RevertsPush
<1>6. ASSUME fails = {} PROVE AlienAgree(Append(st, e), his, s, seen)
  <2>1. AlienAgree(st, his, s, seen)
    BY <1>6 DEF Synced
  <2> QED BY <1>2, <2>1, AlienOwnPush
<1> QED BY <1>3, <1>4, <1>5, <1>6 DEF Synced

(* The master drops a change of the slave.                                  *)
LEMMA SyncedIgnored ==
  ASSUME NEW st, NEW c, IsSeq(c), c # <<>>, c[1].type = "change", NEW his, NEW s, NEW w, NEW done,
         NEW back, IsSeq(back), NEW top, NEW seen, NEW fails,
         Synced(st, c, his, s, {w}, done, back, top, seen, fails)
  PROVE  Synced(st, Tail(c), his, s, {w}, done, back, top, seen, fails)
<1>1. SlaveStack(st, s, top) /\ SlaveQueue(c, {w}, top)
  BY DEF Synced
<1>2. SlaveQueue(Tail(c), {w}, top)
  <2>1. {w} \subseteq {w}
    OBVIOUS
  <2> QED BY <1>1, <2>1, SlaveQueueTail
<1>3. ASSUME fails = {}, InStep(Tail(c), {w})
      PROVE  OwnAgree(st, his, s, Tail(c), {w}) /\ RevertsOK(done, Tail(c), back, {w}, top)
  <2>1. InStep(c, {w})
    BY <1>3, InStepChange
  <2>2. OwnAgree(st, his, s, c, {w}) /\ RevertsOK(done, c, back, {w}, top)
    BY <1>3, <2>1 DEF Synced
  <2>3. OwnAgree(st, his, s, Tail(c), {w})
    BY <1>1, <2>1, <2>2, OwnIgnored
  <2>4. StillTold(back, back)
    BY ToldStays
  <2> QED BY <2>2, <2>3, <2>4, RevertsTail
<1>4. fails = {} => AlienAgree(st, his, s, seen)
  BY DEF Synced
<1> QED BY <1>1, <1>2, <1>3, <1>4 DEF Synced

(* The master refuses a change of the slave and tells it so.                *)
LEMMA SyncedRefused ==
  ASSUME NEW st, NEW c, IsSeq(c), c # <<>>, c[1].type = "change", NEW his, NEW s, NEW done,
         NEW back, IsSeq(back), NEW top, NEW seen, NEW fails,
         Synced(st, c, his, s, {}, done, back, top, seen, fails),
         NEW r, r.type = "revert", r.rev = c[1].rev
  PROVE  Synced(st, Tail(c), his, s, {c[1].rev}, done, Append(back, r), top, seen, fails)
<1> DEFINE V == {c[1].rev}
           later == Append(back, r)
<1>1. SlaveStack(st, s, top) /\ SlaveQueue(c, {}, top)
  BY DEF Synced
<1>2. SlaveQueue(Tail(c), V, top)
  BY <1>1, SlaveQueueTail
<1>3. /\ StillTold(back, later)
      /\ \E i \in DOMAIN later : later[i].type = "revert" /\ later[i].rev = c[1].rev
  <2>1. StillTold(back, later)
    BY ToldStays
  <2>2. IsSeq(later) /\ Len(later) = Len(back) + 1 /\ later[Len(back) + 1] = r /\ Len(back) \in Nat
    BY AppendIsSeq DEF IsSeq
  <2> HIDE DEF later
  <2>3. DOMAIN later = 1..Len(later)
    BY <2>2 DEF IsSeq
  <2>4. Len(back) + 1 \in DOMAIN later
    BY <2>2, <2>3
  <2> QED BY <2>1, <2>2, <2>4
<1>4. ASSUME fails = {}, InStep(Tail(c), V)
      PROVE  OwnAgree(st, his, s, Tail(c), V) /\ RevertsOK(done, Tail(c), later, V, top)
  <2>1. InStep(c, {})
    BY <1>4, InStepChange
  <2>2. OwnAgree(st, his, s, c, {}) /\ RevertsOK(done, c, back, {}, top)
    BY <1>4, <2>1 DEF Synced
  <2>3. OwnAgree(st, his, s, Tail(c), V)
    BY <1>1, <1>4, <2>2, OwnRefused
  <2> HIDE DEF later
  <2>4. RevertsOK(done, Tail(c), later, V, top)
    BY <1>3, <2>2, RevertsTail
  <2> QED BY <2>3, <2>4
<1>5. fails = {} => AlienAgree(st, his, s, seen)
  BY DEF Synced
<1> HIDE DEF V, later
<1>6. Synced(st, Tail(c), his, s, V, done, later, top, seen, fails)
  BY <1>1, <1>2, <1>4, <1>5 DEF Synced
<1> QED BY <1>6 DEF V, later

(* The master imports a change of the slave.                                *)
LEMMA SyncedAccepted ==
  ASSUME NEW st, NEW c, IsSeq(c), c # <<>>, c[1].type = "change", NEW his, IsSeq(his), NEW s,
         NEW done, NEW back, IsSeq(back), NEW top, NEW seen, NEW fails,
         Synced(st, c, his, s, {}, done, back, top, seen, fails),
         NEW e, e.origin = s, SameChange(c[1], e)
  PROVE  Synced(st, Tail(c), Append(his, e), s, {}, done, back, top, seen, fails)
<1>1. SlaveStack(st, s, top) /\ SlaveQueue(c, {}, top)
  BY DEF Synced
<1>2. SlaveQueue(Tail(c), {}, top)
  <2>1. {} \subseteq {}
    OBVIOUS
  <2> QED BY <1>1, <2>1, SlaveQueueTail
<1>3. ASSUME fails = {}, InStep(Tail(c), {})
      PROVE  OwnAgree(st, Append(his, e), s, Tail(c), {}) /\ RevertsOK(done, Tail(c), back, {}, top)
  <2>1. InStep(c, {})
    BY <1>3, InStepChange
  <2>2. OwnAgree(st, his, s, c, {}) /\ RevertsOK(done, c, back, {}, top)
    BY <1>3, <2>1 DEF Synced
  <2>3. OwnAgree(st, Append(his, e), s, Tail(c), {})
    BY <1>1, <1>3, <2>2, OwnAccepted
  <2>4. StillTold(back, back)
    BY ToldStays
  <2> QED BY <2>2, <2>3, <2>4, RevertsTail
<1>4. ASSUME fails = {} PROVE AlienAgree(st, Append(his, e), s, seen)
  <2>1. AlienAgree(st, his, s, seen)
    BY <1>4 DEF Synced
  <2> QED BY <2>1, AlienHisPush
<1> QED BY <1>1, <1>2, <1>3, <1>4 DEF Synced

(* The master gets an acknowledgement, and fails if it is not the one he    *)
(* waits for.                                                               *)
LEMMA SyncedAcked ==
  ASSUME NEW st, NEW c, IsSeq(c), c # <<>>, c[1].type = "revertAck", NEW his, NEW s, NEW W,
         NEW done, NEW back, NEW top, NEW seen, NEW fails,
         Synced(st, c, his, s, W, done, back, top, seen, fails),
         NEW fail, fail = {} => fails = {} /\ W = {c[1].rev}
  PROVE  Synced(st, Tail(c), his, s, {}, done, back, top, seen, fail)
<1>1. SlaveStack(st, s, top) /\ SlaveQueue(c, W, top)
  BY DEF Synced
<1>2. SlaveQueue(Tail(c), {}, top)
  <2>1. {} \subseteq W
    OBVIOUS
  <2> QED BY <1>1, <2>1, SlaveQueueTail
<1>3. ASSUME fail = {}, InStep(Tail(c), {})
      PROVE  OwnAgree(st, his, s, Tail(c), {}) /\ RevertsOK(done, Tail(c), back, {}, top)
  <2>1. InStep(c, W) /\ W = {c[1].rev} /\ fails = {}
    BY <1>3, InStepAck
  <2>2. OwnAgree(st, his, s, c, W) /\ RevertsOK(done, c, back, W, top)
    BY <2>1 DEF Synced
  <2>3. OwnAgree(st, his, s, Tail(c), {})
    BY <2>1, <2>2, OwnAcked
  <2> QED BY <2>2, <2>3, RevertsAcked
<1>4. fail = {} => AlienAgree(st, his, s, seen)
  BY DEF Synced
<1> QED BY <1>1, <1>2, <1>3, <1>4 DEF Synced

(* The slave imports the next change of the master.                         *)
LEMMA SyncedImported ==
  ASSUME NEW st, NEW c, NEW his, NEW high, StackOK(his, high), MasterStack(his),
         NEW s, NEW W, NEW done, NEW back, IsSeq(back), back # <<>>, back[1].type = "change",
         NEW top, NEW seen, NEW fails,
         Synced(st, c, his, s, W, done, back, top, seen, fails),
         RevsIn(back) = Newer(his, s, seen), InOrder(back),
         \A j \in Alien(his, s) : back[1].rev = his[j].rev => SameChange(back[1], his[j]),
         NEW e, IsEntry(e), e.origin # s, e.rev = top + 1, SameChange(back[1], e),
         NEW fail, fail = {} => fails = {}
  PROVE  Synced(Append(st, e), c, his, s, W, done, Tail(back), top + 1, back[1].rev, fail)
<1>1. SlaveStack(st, s, top) /\ SlaveQueue(c, W, top)
  BY DEF Synced
<1>2. top \in Nat /\ IsSeq(st) /\ Len(st) >= 1 /\ st[1].rev \in Nat
  BY <1>1 DEF SlaveStack
<1>3. top + 1 \in Nat /\ top < top + 1 /\ top <= top + 1 /\ top + 1 <= top + 1
  BY <1>2
<1>4. SlaveStack(Append(st, e), s, top + 1)
  BY <1>1, <1>3, SlaveStackPush
<1>5. SlaveQueue(c, W, top + 1)
  BY <1>1, <1>3, SlaveTop
<1>6. ASSUME fail = {}, InStep(c, W)
      PROVE  OwnAgree(Append(st, e), his, s, c, W) /\ RevertsOK(done, c, Tail(back), W, top + 1)
  <2>1. OwnAgree(st, his, s, c, W) /\ RevertsOK(done, c, back, W, top)
    BY <1>6 DEF Synced
  <2>2. OwnAgree(Append(st, e), his, s, c, W)
    BY <1>2, <2>1, OwnAlien
  <2>3. StillTold(back, Tail(back))
    BY ToldStays
  <2>4. RevertsOK(done, c, Tail(back), W, top + 1)
    <3> DEFINE up == top + 1
               later == Tail(back)
    <3>1. up \in Nat /\ top <= up /\ StillTold(back, later)
      BY <1>3, <2>3
    <3> HIDE DEF up, later
    <3>2. RevertsOK(done, c, later, W, up)
      BY <1>2, <2>1, <3>1, RevertsStay
    <3> QED BY <3>2 DEF up, later
  <2> QED BY <2>2, <2>4
<1>7. ASSUME fail = {} PROVE AlienAgree(Append(st, e), his, s, back[1].rev)
  <2>1. AlienAgree(st, his, s, seen)
    BY <1>7 DEF Synced
  <2> QED BY <1>2, <2>1, AlienImported
<1> QED BY <1>4, <1>5, <1>6, <1>7 DEF Synced

(* The slave takes back its changes from a revision on and acknowledges.    *)
LEMMA SyncedReverted ==
  ASSUME NEW st, NEW c, IsSeq(c), NEW his, NEW s, NEW W, NEW done, NEW back, IsSeq(back),
         NEW top, NEW seen, NEW fails,
         Synced(st, c, his, s, W, done, back, top, seen, fails),
         NEW m, m.type = "revertAck", NEW high \in Nat, top <= high
  PROVE  Synced(Dropped(st, Reverts(st, s, m.rev)), Append(c, m), his, s, W,
                Append(done, m.rev), back, high, seen, fails)
<1> DEFINE b == Dropped(st, Reverts(st, s, m.rev))
           d == Append(c, m)
<1>1. SlaveStack(st, s, top) /\ SlaveQueue(c, W, top)
  BY DEF Synced
<1>2. top \in Nat
  BY <1>1 DEF SlaveStack
<1>3. Reverts(st, s, m.rev) \subseteq From(st, s)
  BY <1>1, RevertsAre
<1>4. SlaveQueue(d, W, top)
  BY <1>1, SlaveQueueAck
<1>5. SlaveStack(b, s, top)
  BY <1>1, <1>3, DroppedStack
<1>6. ASSUME fails = {}, InStep(d, W)
      PROVE  OwnAgree(b, his, s, d, W) /\ RevertsOK(Append(done, m.rev), d, back, W, top)
  <2>1. InStep(c, W)
    BY <1>6, InStepSent
  <2>2. OwnAgree(st, his, s, c, W) /\ RevertsOK(done, c, back, W, top)
    BY <1>6, <2>1 DEF Synced
  <2>3. OwnAgree(b, his, s, d, W) /\ m.rev \in Nat
    BY <1>1, <1>6, <2>2, OwnReverted
  <2>4. m.rev <= top
    <3>1. W = {m.rev} \/ \E j \in Changes(c) : c[j].rev = m.rev
      BY <1>6, ExpectedSent
    <3> QED BY <1>1, <3>1 DEF SlaveQueue
  <2>5. RevertsOK(Append(done, m.rev), d, back, W, top)
    BY <2>2, <2>3, <2>4, RevertsMore
  <2> QED BY <2>3, <2>5
<1>7. ASSUME fails = {} PROVE AlienAgree(b, his, s, seen)
  <2>1. AlienAgree(st, his, s, seen)
    BY <1>7 DEF Synced
  <2> QED BY <1>1, <1>3, <2>1, AlienDropped
<1> HIDE DEF b, d
<1>8. Synced(b, d, his, s, W, Append(done, m.rev), back, top, seen, fails)
  BY <1>4, <1>5, <1>6, <1>7 DEF Synced
<1>9. Synced(b, d, his, s, W, Append(done, m.rev), back, high, seen, fails)
  <2>1. StillTold(back, back)
    BY ToldStays
  <2> QED BY <1>8, <2>1, SyncedStays
<1> QED BY <1>9 DEF b, d

(* The slave is told to revert, and fails if it has not.                    *)
LEMMA SyncedTold ==
  ASSUME NEW st, NEW c, NEW his, NEW s, NEW W, NEW done, NEW back, IsSeq(back), back # <<>>,
         NEW top, NEW seen, NEW fails,
         Synced(st, c, his, s, W, done, back, top, seen, fails),
         done # <<>>, done[1] = back[1].rev
  PROVE  Synced(st, c, his, s, W, Tail(done), Tail(back), top, seen, fails)
<1>1. ASSUME fails = {}, InStep(c, W)
      PROVE  OwnAgree(st, his, s, c, W) /\ RevertsOK(Tail(done), c, Tail(back), W, top)
  <2>1. OwnAgree(st, his, s, c, W) /\ RevertsOK(done, c, back, W, top)
    BY <1>1 DEF Synced
  <2> QED BY <2>1, RevertsTold
<1> QED BY <1>1 DEF Synced
----------------------------------------------------------------------------
(* The revisions the master waits for *)

Waiting(r, s) == {r[i][2] : i \in {j \in DOMAIN r : r[j][1] = s}}

OneWaitEach(r) ==
  /\ IsSeq(r)
  /\ \A i \in 1..Len(r) : r[i][1] \in Slaves
  /\ \A i, j \in 1..Len(r) : r[i][1] = r[j][1] => i = j

(* He waits for one revision of a slave, or for none.                       *)
LEMMA WaitingIs ==
  ASSUME NEW r, OneWaitEach(r), NEW s
  PROVE  /\ DOMAIN r = 1..Len(r) /\ Len(r) \in Nat
         /\ \A i \in 1..Len(r) : r[i][1] = s => Waiting(r, s) = {r[i][2]}
         /\ (\A i \in 1..Len(r) : r[i][1] # s) => Waiting(r, s) = {}
<1>1. DOMAIN r = 1..Len(r) /\ Len(r) \in Nat
  BY DEF OneWaitEach, IsSeq
<1>2. \A i, j \in 1..Len(r) : r[i][1] = r[j][1] => i = j
  BY DEF OneWaitEach
<1> QED BY <1>1, <1>2 DEF Waiting

(* A wait begins.                                                           *)
LEMMA WaitingMore ==
  ASSUME NEW r, OneWaitEach(r), NEW s \in Slaves, \A i \in 1..Len(r) : r[i][1] # s, NEW rev
  PROVE  /\ OneWaitEach(Append(r, <<s, rev>>))
         /\ Waiting(Append(r, <<s, rev>>), s) = {rev}
         /\ \A t : t # s => Waiting(Append(r, <<s, rev>>), t) = Waiting(r, t)
<1> DEFINE q == Append(r, <<s, rev>>)
           n == Len(r)
<1>1. /\ n \in Nat /\ IsSeq(r) /\ DOMAIN r = 1..n
      /\ \A i \in 1..n : r[i][1] \in Slaves
      /\ \A i, j \in 1..n : r[i][1] = r[j][1] => i = j
  BY WaitingIs DEF OneWaitEach
<1>2. /\ IsSeq(q) /\ Len(q) = n + 1 /\ q[n + 1] = <<s, rev>>
      /\ \A i \in 1..n : q[i] = r[i]
  BY <1>1, AppendIsSeq
<1> HIDE DEF q, n
<1>3. DOMAIN q = 1..(n + 1) /\ \A i \in 1..(n + 1) : i = n + 1 \/ i \in 1..n
  BY <1>1, <1>2 DEF IsSeq
<1>4. q[n + 1][1] = s /\ q[n + 1][2] = rev
  BY <1>2
<1>5. \A i \in 1..n : q[i][1] # s
  BY <1>2 DEF n
<1>6. OneWaitEach(q)
  <2>1. \A i \in 1..(n + 1) : q[i][1] \in Slaves
    BY <1>1, <1>2, <1>3, <1>4
  <2>2. \A i, j \in 1..(n + 1) : q[i][1] = q[j][1] => i = j
    <3> SUFFICES ASSUME NEW i \in 1..(n + 1), NEW j \in 1..(n + 1), q[i][1] = q[j][1] PROVE i = j
      OBVIOUS
    <3>1. CASE i = n + 1
      BY <1>3, <1>4, <1>5, <3>1
    <3>2. CASE j = n + 1
      BY <1>3, <1>4, <1>5, <3>2
    <3>3. CASE i \in 1..n /\ j \in 1..n
      BY <1>1, <1>2, <3>3
    <3> QED BY <1>3, <3>1, <3>2, <3>3
  <2> QED BY <1>2, <2>1, <2>2 DEF OneWaitEach
<1>7. Waiting(q, s) = {rev}
  <2>1. n + 1 \in 1..Len(q)
    BY <1>1, <1>2
  <2> QED BY <1>4, <1>6, <2>1, WaitingIs
<1>8. ASSUME NEW t, t # s PROVE Waiting(q, t) = Waiting(r, t)
  <2>1. \A i \in DOMAIN q : q[i][1] = t => i \in DOMAIN r /\ q[i] = r[i]
    BY <1>1, <1>2, <1>3, <1>4, <1>8
  <2>2. \A i \in DOMAIN r : i \in DOMAIN q /\ q[i] = r[i]
    BY <1>1, <1>2, <1>3
  <2> QED BY <2>1, <2>2 DEF Waiting
<1> QED BY <1>6, <1>7, <1>8 DEF q

(* A sequence without one of its elements.                                  *)
LEMMA RemovedIs ==
  ASSUME NEW r, IsSeq(r), NEW i \in 1..Len(r)
  PROVE  /\ IsSeq(RemoveAt(r, i)) /\ Len(RemoveAt(r, i)) = Len(r) - 1
         /\ \A k \in 1..(Len(r) - 1) : RemoveAt(r, i)[k] = IF k < i THEN r[k] ELSE r[k + 1]
<1> DEFINE S == {r[k] : k \in 1..Len(r)}
           a == SubSeq(r, 1, i - 1)
           b == SubSeq(r, i + 1, Len(r))
           n == Len(r)
<1>1. r \in Seq(S) /\ n \in Nat /\ i \in 1..n
  BY IsSeqInSeq DEF IsSeq
<1> HIDE DEF S, n
<1>2. a \in Seq(S) /\ Len(a) = i - 1 /\ \A k \in 1..(i - 1) : a[k] = r[k]
  BY <1>1 DEF n
<1>3. b \in Seq(S) /\ Len(b) = n - i /\ \A k \in 1..(n - i) : b[k] = r[i + k]
  BY <1>1 DEF n
<1> HIDE DEF a, b
<1>4. /\ a \o b \in Seq(S) /\ Len(a \o b) = n - 1
      /\ \A k \in 1..(i - 1) : (a \o b)[k] = a[k]
      /\ \A k \in i..(n - 1) : (a \o b)[k] = b[k - (i - 1)]
  <2>1. /\ Len(a) \in Nat /\ Len(b) \in Nat /\ Len(a) + Len(b) = n - 1
    BY <1>1, <1>2, <1>3
  <2>2. a \o b \in Seq(S) /\ Len(a \o b) = Len(a) + Len(b)
    BY <1>2, <1>3, ConcatProperties
  <2>3. \A k \in 1..Len(a) : (a \o b)[k] = a[k]
    BY <1>2, <1>3, <2>1
  <2>4. \A k \in 1..Len(b) : (a \o b)[Len(a) + k] = b[k]
    BY <1>2, <1>3, <2>1
  <2>5. ASSUME NEW k \in i..(n - 1) PROVE (a \o b)[k] = b[k - (i - 1)]
    <3>1. k - (i - 1) \in 1..Len(b) /\ Len(a) + (k - (i - 1)) = k
      BY <1>1, <1>2, <1>3
    <3> QED BY <2>4, <3>1
  <2> QED BY <1>2, <2>1, <2>2, <2>3, <2>5
<1>5. \A k \in 1..(n - 1) : (a \o b)[k] = IF k < i THEN r[k] ELSE r[k + 1]
  <2> TAKE k \in 1..(n - 1)
  <2>1. CASE k < i
    <3>1. k \in 1..(i - 1)
      BY <1>1, <2>1
    <3> QED BY <1>2, <1>4, <2>1, <3>1
  <2>2. CASE ~(k < i)
    <3>1. k \in i..(n - 1) /\ k - (i - 1) \in 1..(n - i) /\ i + (k - (i - 1)) = k + 1
      BY <1>1, <2>2
    <3> QED BY <1>3, <1>4, <2>2, <3>1
  <2> QED BY <2>1, <2>2
<1>6. RemoveAt(r, i) = a \o b
  BY DEF RemoveAt, a, b
<1> QED BY <1>4, <1>5, <1>6, SeqIsSeq DEF n

(* A wait ends.                                                             *)
LEMMA WaitingLess ==
  ASSUME NEW r, OneWaitEach(r), NEW i \in 1..Len(r)
  PROVE  /\ OneWaitEach(RemoveAt(r, i))
         /\ Waiting(RemoveAt(r, i), r[i][1]) = {}
         /\ \A t : t # r[i][1] => Waiting(RemoveAt(r, i), t) = Waiting(r, t)
<1> DEFINE q == RemoveAt(r, i)
           n == Len(r)
           s == r[i][1]
           O(k) == IF k < i THEN k ELSE k + 1
<1>1. /\ n \in Nat /\ i \in 1..n /\ IsSeq(r) /\ DOMAIN r = 1..n
      /\ \A k \in 1..n : r[k][1] \in Slaves
      /\ \A k, l \in 1..n : r[k][1] = r[l][1] => k = l
  BY WaitingIs DEF OneWaitEach
<1>2. /\ IsSeq(q) /\ Len(q) = n - 1
      /\ \A k \in 1..(n - 1) : q[k] = IF k < i THEN r[k] ELSE r[k + 1]
  BY <1>1, RemovedIs
<1> HIDE DEF q, n, s
<1>3. \A k \in 1..(n - 1) : O(k) \in 1..n /\ O(k) # i /\ q[k] = r[O(k)]
  BY <1>1, <1>2
<1>4. \A k, l \in 1..(n - 1) : O(k) = O(l) => k = l
  BY <1>1
<1>5. \A l \in 1..n : l # i => \E k \in 1..(n - 1) : O(k) = l
  <2> SUFFICES ASSUME NEW l \in 1..n, l # i PROVE \E k \in 1..(n - 1) : O(k) = l
    OBVIOUS
  <2>1. CASE l < i
    <3>1. l \in 1..(n - 1) /\ O(l) = l
      BY <1>1, <2>1
    <3> QED BY <3>1
  <2>2. CASE ~(l < i)
    <3>1. l - 1 \in 1..(n - 1) /\ O(l - 1) = l
      BY <1>1, <2>2
    <3> QED BY <3>1
  <2> QED BY <2>1, <2>2
<1>6. DOMAIN q = 1..(n - 1)
  BY <1>2 DEF IsSeq
<1> HIDE DEF O
<1>7. OneWaitEach(q)
  <2>1. \A k \in 1..Len(q) : q[k][1] \in Slaves
    BY <1>1, <1>2, <1>3
  <2>2. \A k, l \in 1..Len(q) : q[k][1] = q[l][1] => k = l
    BY <1>1, <1>2, <1>3, <1>4
  <2> QED BY <1>2, <2>1, <2>2 DEF OneWaitEach
<1>8. Waiting(q, s) = {}
  <2>1. \A k \in 1..Len(q) : q[k][1] # s
    <3> TAKE k \in 1..Len(q)
    <3>1. O(k) \in 1..n /\ O(k) # i /\ q[k] = r[O(k)]
      BY <1>2, <1>3
    <3> QED BY <1>1, <3>1 DEF s
  <2> QED BY <1>7, <2>1, WaitingIs
<1>9. ASSUME NEW t, t # s PROVE Waiting(q, t) = Waiting(r, t)
  <2>1. \A k \in DOMAIN q : O(k) \in DOMAIN r /\ q[k] = r[O(k)]
    BY <1>1, <1>3, <1>6
  <2>2. \A l \in DOMAIN r : r[l][1] = t => \E k \in DOMAIN q : q[k] = r[l]
    <3> SUFFICES ASSUME NEW l \in DOMAIN r, r[l][1] = t PROVE \E k \in DOMAIN q : q[k] = r[l]
      OBVIOUS
    <3>1. l \in 1..n /\ l # i
      BY <1>1, <1>9 DEF s
    <3>2. PICK k \in 1..(n - 1) : O(k) = l
      BY <1>5, <3>1
    <3> QED BY <1>3, <1>6, <3>2
  <2> QED BY <2>1, <2>2 DEF Waiting
<1> QED BY <1>7, <1>8, <1>9 DEF q, s
----------------------------------------------------------------------------
(* The packets of the master *)

(* The packets in a queue say what the entries of a stack say.              *)
ToldSame(c, his, s) ==
  \A i \in Changes(c) : \A j \in Alien(his, s) :
    c[i].rev = his[j].rev => SameChange(c[i], his[j])

(* A new change goes on the stack and into the queue, or only on the stack  *)
(* when it is of the slave.                                                 *)
LEMMA ToldPush ==
  ASSUME NEW c, IsSeq(c), NEW his, NEW top, StackOK(his, top), NEW s, ToldSame(c, his, s),
         \A r \in RevsIn(c) : r \in Nat /\ r <= top,
         NEW m, m.type = "change", m.rev = top + 1,
         NEW e, e.rev = top + 1, SameChange(m, e)
  PROVE  ToldSame(Append(c, m), Append(his, e), s)
<1> DEFINE d == Append(c, m)
           b == Append(his, e)
           x == Len(his) + 1
           y == Len(c) + 1
<1>1. /\ IsSeq(his) /\ top \in Nat
      /\ \A j \in 1..Len(his) : his[j].rev \in Nat /\ his[j].rev <= top
  BY DEF StackOK
<1>2. /\ Changes(d) = Changes(c) \cup {y} /\ d[y] = m
      /\ \A i \in Changes(c) : d[i] = c[i]
  <2>1. Changes(d) = Changes(c) \cup {y} /\ d[y] = m
    BY AppendPackets
  <2>2. \A i \in Changes(c) : i \in 1..Len(c)
    BY AcksAre
  <2>3. \A i \in 1..Len(c) : d[i] = c[i]
    BY AppendIsSeq
  <2> QED BY <2>1, <2>2, <2>3
<1>3. /\ \A j \in Alien(b, s) : j \in Alien(his, s) \/ j = x
      /\ \A j \in Alien(his, s) : b[j] = his[j] /\ j \in 1..Len(his)
      /\ b[x] = e
  <2>1. /\ Alien(b, s) = Alien(his, s) \cup (IF e.origin = s THEN {} ELSE {x}) /\ b[x] = e
        /\ \A j \in 1..Len(his) : b[j] = his[j]
    BY <1>1, EntryPushed
  <2>2. \A j \in Alien(his, s) : j \in 1..Len(his)
    BY <1>1, EntriesAre
  <2> HIDE DEF b, x
  <2> QED BY <2>1, <2>2
<1>4. \A i \in Changes(c) : c[i].rev \in Nat /\ c[i].rev <= top
  BY DEF RevsIn
<1> HIDE DEF b, d, x, y
<1>5. ASSUME NEW i \in Changes(d), NEW j \in Alien(b, s), d[i].rev = b[j].rev
      PROVE  SameChange(d[i], b[j])
  <2>1. CASE i = y /\ j = x
    BY <1>2, <1>3, <2>1
  <2>2. CASE i = y /\ j \in Alien(his, s)
    BY <1>1, <1>2, <1>3, <1>5, <2>2
  <2>3. CASE i \in Changes(c) /\ j = x
    BY <1>1, <1>2, <1>3, <1>4, <1>5, <2>3
  <2>4. CASE i \in Changes(c) /\ j \in Alien(his, s)
    BY <1>2, <1>3, <1>5, <2>4 DEF ToldSame
  <2> QED BY <1>2, <1>3, <2>1, <2>2, <2>3, <2>4
<1>6. ToldSame(d, b, s)
  BY <1>5 DEF ToldSame
<1> QED BY <1>6 DEF d, b

LEMMA ToldOwn ==
  ASSUME NEW c, NEW his, IsSeq(his), NEW s, ToldSame(c, his, s), NEW e, e.origin = s
  PROVE  ToldSame(c, Append(his, e), s)
<1> DEFINE b == Append(his, e)
<1>1. /\ IsSeq(b) /\ Len(b) = Len(his) + 1 /\ Len(his) \in Nat
      /\ \A i \in 1..Len(his) : b[i] = his[i]
      /\ b[Len(his) + 1].origin = s
  BY AppendIsSeq DEF IsSeq
<1>2. Alien(his, s) = {i \in 1..Len(his) : his[i].origin # s}
  BY EntriesAre
<1> HIDE DEF b
<1>3. Alien(b, s) = {i \in 1..Len(b) : b[i].origin # s}
  BY <1>1, EntriesAre
<1>4. 1..Len(b) = 1..Len(his) \cup {Len(his) + 1}
  BY <1>1
<1>5. \A i \in Alien(b, s) : i \in Alien(his, s) /\ b[i] = his[i]
  BY <1>1, <1>2, <1>3, <1>4
<1>6. ToldSame(c, b, s)
  BY <1>5 DEF ToldSame
<1> QED BY <1>6 DEF b

(* A packet goes, or another kind of packet comes.                          *)
LEMMA ToldKeeps ==
  ASSUME NEW c, IsSeq(c), NEW his, NEW s, ToldSame(c, his, s)
  PROVE  /\ c # <<>> => ToldSame(Tail(c), his, s)
         /\ \A m : m.type # "change" => ToldSame(Append(c, m), his, s)
<1>1. ASSUME c # <<>> PROVE ToldSame(Tail(c), his, s)
  <2>1. \A i \in Changes(Tail(c)) : i + 1 \in Changes(c) /\ Tail(c)[i] = c[i + 1]
    BY <1>1, TailPackets
  <2> DEFINE d == Tail(c)
  <2> HIDE DEF d
  <2>2. ToldSame(d, his, s)
    BY <2>1 DEF ToldSame, d
  <2> QED BY <2>2 DEF d
<1>2. ASSUME NEW m, m.type # "change" PROVE ToldSame(Append(c, m), his, s)
  <2> DEFINE d == Append(c, m)
  <2>1. /\ IsSeq(d) /\ Len(d) = Len(c) + 1 /\ d[Len(c) + 1] = m /\ Len(c) \in Nat
        /\ \A i \in 1..Len(c) : d[i] = c[i]
    BY AppendIsSeq DEF IsSeq
  <2>2. Changes(c) = {i \in 1..Len(c) : c[i].type = "change"}
    BY AcksAre
  <2> HIDE DEF d
  <2>3. Changes(d) = {i \in 1..Len(d) : d[i].type = "change"}
    BY <2>1, AcksAre
  <2>4. 1..Len(d) = 1..Len(c) \cup {Len(c) + 1}
    BY <2>1
  <2>5. \A i \in Changes(d) : i \in Changes(c) /\ d[i] = c[i]
    BY <1>2, <2>1, <2>2, <2>3, <2>4
  <2>6. ToldSame(d, his, s)
    BY <2>5 DEF ToldSame
  <2> QED BY <2>6 DEF d
<1> QED BY <1>1, <1>2

(* The revisions on the stack of the master stay in order.                  *)
LEMMA MasterPush ==
  ASSUME NEW his, NEW top, StackOK(his, top), MasterStack(his), NEW e, e.rev = top + 1
  PROVE  MasterStack(Append(his, e))
<1> DEFINE b == Append(his, e)
           n == Len(his)
<1>1. /\ IsSeq(his) /\ top \in Nat /\ n \in Nat
      /\ \A j \in 1..n : his[j].rev \in Nat /\ his[j].rev <= top
      /\ \A i, j \in 1..n : i < j => his[i].rev < his[j].rev
  BY DEF StackOK, MasterStack, IsSeq
<1>2. Len(b) = n + 1 /\ b[n + 1] = e /\ \A i \in 1..n : b[i] = his[i]
  BY <1>1, AppendIsSeq
<1> HIDE DEF b, n
<1>3. ASSUME NEW i \in 1..Len(b), NEW j \in 1..Len(b), i < j PROVE b[i].rev < b[j].rev
  <2>1. i \in 1..n /\ (j = n + 1 \/ j \in 1..n)
    BY <1>1, <1>2, <1>3
  <2>2. CASE j = n + 1
    <3>1. b[j].rev = top + 1 /\ b[i].rev \in Nat /\ b[i].rev <= top
      BY <1>1, <1>2, <2>1, <2>2
    <3> QED BY <1>1, <3>1
  <2>3. CASE j \in 1..n
    BY <1>1, <1>2, <1>3, <2>1, <2>3
  <2> QED BY <2>1, <2>2, <2>3
<1>4. MasterStack(b)
  BY <1>3 DEF MasterStack
<1> QED BY <1>4 DEF b
----------------------------------------------------------------------------
(* The invariant, slave by slave *)

(* What SyncInv says of slave s.                                            *)
SlaveSync(s) ==
  /\ crn[s] \in Nat
  /\ s \in members => ToldSame(chan[Master][s], adjusts[Master], s)
  /\ phase[s] # "in" => Waiting(revertSet, s) = {} /\ From(adjusts[Master], s) = {}
  /\ phase[s] = "in" =>
       Synced(adjusts[s], chan[s][Master], adjusts[Master], s, Waiting(revertSet, s), reverted[s],
              chan[Master][s], crn[s], remoteRevs[s][Master], asserts)

AllSync ==
  /\ MasterStack(adjusts[Master])
  /\ DOMAIN reverted = Slaves
  /\ OneWaitEach(revertSet)
  /\ \A s \in Slaves : SlaveSync(s)

LEMMA SyncInvIs == SyncInv <=> IInv /\ AllSync
<1>1. \A s \in Slaves : Waits(s) = Waiting(revertSet, s)
  BY DEF Waits, Waiting
<1>2. \A s \in Slaves : Told(s) <=> ToldSame(chan[Master][s], adjusts[Master], s)
  BY DEF Told, ToldSame
<1>3. \A s \in Slaves : SyncedInv(s) <=>
        Synced(adjusts[s], chan[s][Master], adjusts[Master], s, Waiting(revertSet, s), reverted[s],
               chan[Master][s], crn[s], remoteRevs[s][Master], asserts)
  BY <1>1 DEF SyncedInv, Synced
<1> QED BY <1>1, <1>2, <1>3 DEF SyncInv, AllSync, SlaveSync, OneWaitEach

(* Nothing that SlaveSync(t) says of the slave t itself changes.            *)
Stays(t) ==
  /\ adjusts'[t] = adjusts[t] /\ chan'[t][Master] = chan[t][Master] /\ crn'[t] = crn[t]
  /\ reverted'[t] = reverted[t] /\ remoteRevs'[t][Master] = remoteRevs[t][Master]
  /\ phase'[t] = phase[t] /\ (t \in members' <=> t \in members)
  /\ Waiting(revertSet', t) = Waiting(revertSet, t)
  /\ asserts' = {} => asserts = {}

LEMMA StaysSync ==
  ASSUME NEW t \in Slaves, SlaveSync(t), Stays(t),
         adjusts'[Master] = adjusts[Master], chan'[Master][t] = chan[Master][t]
  PROVE  SlaveSync(t)'
BY DEF SlaveSync, Stays, Synced

(* The master puts e on its stack, and t, who did not make it, hears of it  *)
(* if it is in the session.                                                 *)
HearsOf(t, e) ==
  \/ t \notin members /\ chan'[Master][t] = chan[Master][t]
  \/ /\ t \in members
     /\ \E m : /\ m.type = "change" /\ m.rev = e.rev /\ SameChange(m, e)
               /\ chan'[Master][t] = Append(chan[Master][t], m)

(* The revisions on their way to a slave are in the document of the master. *)
LEMMA FlowBounds ==
  ASSUME NEW c, NEW his, NEW top, StackOK(his, top), NEW s, NEW seen, Flow(c, his, s, seen, top)
  PROVE  \A r \in RevsIn(c) : r \in Nat /\ r <= top
BY NewerBounds DEF Flow

(* What a slave in the session has seen and has yet to see.                 *)
LEMMA SlaveIn ==
  ASSUME NEW s \in Slaves, SlaveInv(s), Net(chan), phase[s] = "in"
  PROVE  /\ s \in members /\ NoType(chan[Master][s], "joinResponse")
         /\ remoteRevs[s][Master] \in Nat /\ remoteRevs[s][Master] <= crn[Master]
         /\ RevsIn(chan[Master][s]) = Newer(adjusts[Master], s, remoteRevs[s][Master])
         /\ InOrder(chan[Master][s])
<1>1. s \in members /\ NoType(chan[Master][s], "joinResponse")
  BY DEF SlaveInv, JoinStage
<1>2. Flow(chan[Master][s], adjusts[Master], s, remoteRevs[s][Master], crn[Master])
  BY <1>1 DEF SlaveInv
<1>3. IsSeq(chan[Master][s])
  BY PeersFacts DEF Net
<1> QED BY <1>1, <1>2, <1>3, SeenNoAnswer DEF Flow

LEMMA HearsSync ==
  ASSUME NEW t \in Slaves, SlaveSync(t), SlaveInv(t), Net(chan), Stays(t),
         StackOK(adjusts[Master], crn[Master]), NEW e, e.rev = crn[Master] + 1, e.origin # t,
         adjusts'[Master] = Append(adjusts[Master], e), HearsOf(t, e)
  PROVE  SlaveSync(t)'
<1> DEFINE his  == adjusts[Master]
           back == chan[Master][t]
           top  == crn[Master]
<1>1. /\ IsSeq(his) /\ top \in Nat /\ IsSeq(back) /\ e.rev \in Nat
  BY PeersFacts DEF StackOK, Net
<1> HIDE DEF his, back, top
<1>2. t \in members' => ToldSame(chan'[Master][t], adjusts'[Master], t)
  <2> HAVE t \in members'
  <2>1. t \in members
    BY DEF Stays
  <2>2. PICK m : /\ m.type = "change" /\ m.rev = top + 1 /\ SameChange(m, e)
                 /\ chan'[Master][t] = Append(back, m)
    BY <2>1 DEF HearsOf, back, top
  <2>3. ToldSame(back, his, t) /\ Flow(back, his, t, remoteRevs[t][Master], top) /\ StackOK(his, top)
    BY <2>1 DEF SlaveSync, SlaveInv, back, his, top
  <2>4. \A r \in RevsIn(back) : r \in Nat /\ r <= top
    BY <2>3, FlowBounds
  <2>5. ToldSame(Append(back, m), Append(his, e), t)
    BY <1>1, <2>2, <2>3, <2>4, ToldPush DEF top
  <2> QED BY <2>2, <2>5 DEF his
<1>3. phase'[t] # "in" => Waiting(revertSet', t) = {} /\ From(adjusts'[Master], t) = {}
  <2>1. From(Append(his, e), t) = From(his, t) \cup (IF e.origin = t THEN {Len(his) + 1} ELSE {})
    BY <1>1, EntryPushed
  <2> QED BY <2>1 DEF SlaveSync, Stays, his
<1>4. phase'[t] = "in" =>
        Synced(adjusts'[t], chan'[t][Master], adjusts'[Master], t, Waiting(revertSet', t),
               reverted'[t], chan'[Master][t], crn'[t], remoteRevs'[t][Master], asserts')
  <2> HAVE phase'[t] = "in"
  <2>1. phase[t] = "in"
    BY DEF Stays
  <2>2. Synced(adjusts[t], chan[t][Master], his, t, Waiting(revertSet, t), reverted[t],
               back, crn[t], remoteRevs[t][Master], asserts)
    BY <2>1 DEF SlaveSync, his, back
  <2>3. remoteRevs[t][Master] < e.rev
    BY <1>1, <2>1, SlaveIn DEF top
  <2>4. StillTold(back, chan'[Master][t])
    BY <1>1, ToldStays DEF HearsOf, back
  <2>5. Synced(adjusts[t], chan[t][Master], Append(his, e), t, Waiting(revertSet, t), reverted[t],
               chan'[Master][t], crn[t], remoteRevs[t][Master], asserts')
    BY <1>1, <2>2, <2>3, <2>4, SyncedHears DEF Stays
  <2> QED BY <2>5 DEF Stays, his
<1> QED BY <1>2, <1>3, <1>4 DEF SlaveSync, Stays

(* What is pushed to a peer, and what is remembered of it: the same change. *)
LEMMA PushedNet ==
  ASSUME NEW c, Net(c), NEW p \in Peers, NEW targets, NEW kind, NEW pos, NEW len, NEW toks, NEW rev,
         NEW b \in Peers, b \in targets
  PROVE  PushTo(c, p, targets, kind, pos, len, toks, rev)[p][b] =
         Append(c[p][b], ChangePacket(kind, pos, len, toks, rev, remoteRevs[p][b]))
BY DEF PushTo, Net

LEMMA PacketIs ==
  ASSUME NEW kind, NEW pos, NEW len, NEW toks, NEW rev, NEW seen, NEW remotePos, NEW origin
  PROVE  LET m == ChangePacket(kind, pos, len, toks, rev, seen)
         IN  /\ m.type = "change" /\ m.rev = rev
             /\ SameChange(m, ChangeAdjust(rev, kind, pos, len, remotePos, origin))
BY DEF ChangePacket, ChangeAdjust, SameChange

LEMMA AdjustIs ==
  ASSUME NEW rev, NEW kind, NEW pos, NEW len, NEW remotePos, NEW origin
  PROVE  LET e == ChangeAdjust(rev, kind, pos, len, remotePos, origin)
         IN  /\ IsEntry(e) /\ e.rev = rev /\ e.origin = origin
             /\ e.len = len /\ e.adjust = LocalAdjust(kind, len)
BY DEF ChangeAdjust, IsEntry
----------------------------------------------------------------------------
(* The steps of the users *)

(* The user of the master makes a change.                                   *)
LEMMA MasterEditSync ==
  ASSUME IInv, AllSync, NEW kind, NEW pos, NEW len, Edit(Master, kind, pos, len)
  PROVE  AllSync'
<1> DEFINE rev == crn[Master] + 1
           e   == ChangeAdjust(rev, kind, pos, len, -1, Master)
<1> USE PeersFacts
<1>1. /\ Net(chan) /\ StackOK(adjusts[Master], crn[Master])
      /\ \A s \in Slaves : SlaveInv(s) /\ SlaveSync(s)
      /\ DOMAIN crn = Peers /\ DOMAIN adjusts = Peers
  BY DEF IInv, AllSync
<1>2. PICK toks : chan' = PushTo(chan, Master, members, kind, pos, len, toks, crn[Master] + 1)
  BY Zenon DEF Edit, Export, Collaborators
<1>3. /\ adjusts' = [adjusts EXCEPT ![Master] = Append(@, e)]
      /\ crn' = [crn EXCEPT ![Master] = @ + 1]
      /\ UNCHANGED <<remoteRevs, revertSet, reverted, members, phase, asserts>>
  BY DEF Edit, Export
<1>4. IsEntry(e) /\ e.rev = rev /\ e.origin = Master
  BY AdjustIs
<1>5. ASSUME NEW b \in Peers, b \in members
      PROVE  \E m : /\ m.type = "change" /\ m.rev = rev /\ SameChange(m, e)
                    /\ chan'[Master][b] = Append(chan[Master][b], m)
  <2> DEFINE m == ChangePacket(kind, pos, len, toks, rev, remoteRevs[Master][b])
  <2>1. chan'[Master][b] = Append(chan[Master][b], m)
    BY <1>1, <1>2, <1>5, PushedNet
  <2>2. m.type = "change" /\ m.rev = rev /\ SameChange(m, e)
    BY PacketIs
  <2> HIDE DEF m, e
  <2> QED BY <2>1, <2>2
<1>6. \A a, b \in Peers : ~(a = Master /\ b \in members) => chan'[a][b] = chan[a][b]
  BY <1>1, <1>2, PushNet
<1> HIDE DEF e
<1>7. adjusts'[Master] = Append(adjusts[Master], e)
  BY <1>1, <1>3
<1>8. ASSUME NEW t \in Slaves PROVE SlaveSync(t)'
  <2>1. Stays(t)
    BY <1>1, <1>3, <1>6 DEF Stays
  <2>2. HearsOf(t, e)
    BY <1>4, <1>5, <1>6 DEF HearsOf
  <2>3. e.origin # t
    BY <1>4
  <2> QED BY <1>1, <1>4, <1>7, <2>1, <2>2, <2>3, HearsSync
<1>9. MasterStack(adjusts'[Master])
  BY <1>1, <1>4, <1>7, MasterPush DEF AllSync
<1> QED BY <1>3, <1>8, <1>9 DEF AllSync

(* The user of a slave makes a change.                                      *)
LEMMA SlaveExportSync ==
  ASSUME IInv, AllSync, NEW s \in Slaves, phase[s] = "in",
         NEW kind, NEW pos, NEW len, NEW toks, Export(s, kind, pos, len, toks),
         crn' = [crn EXCEPT ![s] = @ + 1],
         UNCHANGED <<remoteRevs, revertSet, reverted, members, phase, asserts>>
  PROVE  AllSync'
<1> DEFINE rev == crn[s] + 1
           e   == ChangeAdjust(rev, kind, pos, len, -1, s)
<1> USE PeersFacts
<1>1. /\ Net(chan) /\ \A t \in Slaves : SlaveSync(t)
      /\ DOMAIN crn = Peers /\ DOMAIN adjusts = Peers
  BY DEF IInv, AllSync
<1>2. /\ chan' = PushTo(chan, s, {Master}, kind, pos, len, toks, rev)
      /\ adjusts' = [adjusts EXCEPT ![s] = Append(@, e)]
  BY DEF Export, Collaborators
<1>3. IsEntry(e) /\ e.rev = rev /\ e.origin = s
  BY AdjustIs
<1>4. PICK m : /\ m.type = "change" /\ m.rev = rev /\ SameChange(m, e)
               /\ chan'[s][Master] = Append(chan[s][Master], m)
  <2> DEFINE x == ChangePacket(kind, pos, len, toks, rev, remoteRevs[s][Master])
  <2>1. chan'[s][Master] = Append(chan[s][Master], x)
    BY <1>1, <1>2, PushedNet
  <2>2. x.type = "change" /\ x.rev = rev /\ SameChange(x, e)
    BY PacketIs
  <2> HIDE DEF x, e
  <2> QED BY <2>1, <2>2
<1>5. \A a, b \in Peers : ~(a = s /\ b = Master) => chan'[a][b] = chan[a][b]
  BY <1>1, <1>2, PushNet
<1> HIDE DEF e
<1>6. /\ adjusts'[Master] = adjusts[Master] /\ adjusts'[s] = Append(adjusts[s], e)
      /\ crn'[s] = rev
      /\ \A t \in Slaves : t # s => adjusts'[t] = adjusts[t] /\ crn'[t] = crn[t]
  BY <1>1, <1>2
<1>7. ASSUME NEW t \in Slaves, t # s PROVE SlaveSync(t)'
  <2>1. Stays(t) /\ chan'[Master][t] = chan[Master][t]
    BY <1>5, <1>6, <1>7 DEF Stays
  <2> QED BY <1>1, <1>6, <2>1, StaysSync
<1>8. SlaveSync(s)'
  <2>1. /\ crn[s] \in Nat /\ IsSeq(chan[s][Master])
        /\ Synced(adjusts[s], chan[s][Master], adjusts[Master], s, Waiting(revertSet, s),
                  reverted[s], chan[Master][s], crn[s], remoteRevs[s][Master], asserts)
    BY <1>1 DEF SlaveSync, Net
  <2>2. Synced(adjusts'[s], chan'[s][Master], adjusts[Master], s, Waiting(revertSet, s),
               reverted[s], chan[Master][s], crn'[s], remoteRevs[s][Master], asserts)
    BY <1>3, <1>4, <1>6, <2>1, SyncedPush
  <2>3. chan'[Master][s] = chan[Master][s] /\ crn'[s] \in Nat
    BY <1>5, <1>6, <2>1
  <2> QED BY <1>1, <1>6, <2>2, <2>3 DEF SlaveSync
<1> QED BY <1>6, <1>7, <1>8 DEF AllSync

(* The user of a slave takes a revision number and nothing else.            *)
LEMMA SlaveFruitlessSync ==
  ASSUME IInv, AllSync, NEW s \in Slaves, phase[s] = "in",
         crn'[s] = crn[s] \/ crn'[s] = crn[s] + 1, \A t \in Slaves : t # s => crn'[t] = crn[t],
         UNCHANGED <<chan, adjusts, remoteRevs, revertSet, reverted, members, phase, asserts>>
  PROVE  AllSync'
<1> USE PeersFacts
<1>1. /\ Net(chan) /\ \A t \in Slaves : SlaveSync(t)
      /\ DOMAIN crn = Peers
  BY DEF IInv, AllSync
<1>2. ASSUME NEW t \in Slaves, t # s PROVE SlaveSync(t)'
  <2>1. Stays(t)
    BY <1>1, <1>2 DEF Stays
  <2> QED BY <1>1, <2>1, StaysSync
<1>3. SlaveSync(s)'
  <2>1. /\ crn[s] \in Nat /\ IsSeq(chan[Master][s])
        /\ Synced(adjusts[s], chan[s][Master], adjusts[Master], s, Waiting(revertSet, s),
                  reverted[s], chan[Master][s], crn[s], remoteRevs[s][Master], asserts)
    BY <1>1 DEF SlaveSync, Net
  <2>2. crn'[s] \in Nat /\ crn[s] <= crn'[s]
    BY <1>1, <2>1
  <2>3. StillTold(chan[Master][s], chan[Master][s])
    BY <2>1, ToldStays
  <2>4. Synced(adjusts[s], chan[s][Master], adjusts[Master], s, Waiting(revertSet, s),
               reverted[s], chan[Master][s], crn'[s], remoteRevs[s][Master], asserts)
    BY <2>1, <2>2, <2>3, SyncedStays
  <2> QED BY <1>1, <2>2, <2>4 DEF SlaveSync
<1> QED BY <1>2, <1>3 DEF AllSync

(* Only what is found is done.                                              *)
LEMMA DoneIsFound ==
  ASSUME NEW d, NEW h
  PROVE  /\ UndoCmd(d, h).done => UndoCmd(d, h).ix # 0
         /\ RedoCmd(d, h).done => RedoCmd(d, h).ix # 0
<1>1. ASSUME NEW g, NEW undo PROVE Found(d, g, undo).done => Found(d, g, undo).ix # 0
  BY DEF Found, DoTheDo
<1> QED BY <1>1 DEF UndoCmd, RedoCmd

LEMMA SlaveReplaySync ==
  ASSUME IInv, AllSync, NEW s \in Slaves, phase[s] = "in", NEW u, u.done => u.ix # 0, NEW undo,
         Replay(s, u, undo)
  PROVE  AllSync'
<1>1. /\ crn' = [crn EXCEPT ![s] = IF u.ix = 0 THEN @ ELSE @ + 1]
      /\ UNCHANGED <<remoteRevs, revertSet, reverted, members, phase, asserts>>
      /\ \/ u.done /\ \E kind, pos, len, toks : Export(s, kind, pos, len, toks)
         \/ UNCHANGED <<chan, adjusts>>
  BY Zenon DEF Replay
<1>2. CASE UNCHANGED <<chan, adjusts>>
  <2>1. /\ crn'[s] = crn[s] \/ crn'[s] = crn[s] + 1
        /\ \A t \in Slaves : t # s => crn'[t] = crn[t]
    BY <1>1, PeersFacts DEF IInv
  <2> QED BY <1>1, <1>2, <2>1, SlaveFruitlessSync
<1>3. CASE u.done /\ \E kind, pos, len, toks : Export(s, kind, pos, len, toks)
  <2>1. crn' = [crn EXCEPT ![s] = @ + 1]
    BY <1>1, <1>3
  <2> QED BY <1>1, <1>3, <2>1, SlaveExportSync
<1> QED BY <1>1, <1>2, <1>3

LEMMA SlaveUndoSync ==
  ASSUME IInv, AllSync, NEW s \in Slaves, UserUndo(s) \/ UserRedo(s)
  PROVE  AllSync'
<1>1. phase[s] = "in"
  BY PeersFacts DEF UserUndo, UserRedo, MayEdit, InSession
<1>2. \/ Replay(s, UndoCmd(doc[s], hist[s]), TRUE)
      \/ Replay(s, RedoCmd(doc[s], hist[s]), FALSE)
  BY Zenon DEF UserUndo, UserRedo
<1> QED BY <1>1, <1>2, DoneIsFound, SlaveReplaySync

LEMMA SlaveEditSync ==
  ASSUME IInv, AllSync, NEW s \in Slaves, NEW kind, NEW pos, NEW len, Edit(s, kind, pos, len)
  PROVE  AllSync'
<1>1. phase[s] = "in"
  BY PeersFacts DEF Edit, MayEdit, InSession
<1>2. \E toks : Export(s, kind, pos, len, toks)
  BY Zenon DEF Edit
<1>3. /\ crn' = [crn EXCEPT ![s] = @ + 1]
      /\ UNCHANGED <<remoteRevs, revertSet, reverted, members, phase, asserts>>
  BY DEF Edit
<1> QED BY <1>1, <1>2, <1>3, SlaveExportSync

(* A slave asks to join.                                                    *)
LEMMA JoinSync ==
  ASSUME IInv, AllSync, NEW s \in Slaves, Join(s)
  PROVE  AllSync'
<1> USE PeersFacts
<1>1. /\ Net(chan) /\ \A t \in Slaves : SlaveInv(t) /\ SlaveSync(t)
      /\ UNCHANGED <<crn, adjusts, remoteRevs, revertSet, reverted, members, asserts>>
      /\ phase' = [phase EXCEPT ![s] = "joining"] /\ DOMAIN phase = Slaves /\ phase[s] = "out"
  BY DEF IInv, AllSync, Join
<1>2. \A a, b \in Peers : ~(a = s /\ b = Master) => chan'[a][b] = chan[a][b]
  BY <1>1, SendNet DEF Join
<1>3. ASSUME NEW t \in Slaves, t # s PROVE SlaveSync(t)'
  <2>1. Stays(t) /\ chan'[Master][t] = chan[Master][t]
    BY <1>1, <1>2, <1>3 DEF Stays
  <2> QED BY <1>1, <2>1, StaysSync
<1>4. SlaveSync(s)'
  <2>1. phase'[s] = "joining" /\ chan'[Master][s] = chan[Master][s]
    BY <1>1, <1>2
  <2> QED BY <1>1, <2>1 DEF SlaveSync
<1> QED BY <1>1, <1>3, <1>4 DEF AllSync
----------------------------------------------------------------------------
(* The joins *)

(* Nothing has been done to the text.                                       *)
LEMMA ShapeOfNone ==
  ASSUME NEW a, NEW b PROVE Shape(a, {}) = Shape(b, {})
<1>1. {} \in SUBSET Nat /\ IsFiniteSet({}) /\ \A i \in {} : Alike(a[i], b[i])
  BY FS_EmptySet
<1> QED BY <1>1, ShapeSame

(* A slave that has just got the document, and has sent nothing yet.        *)
LEMMA SyncedStart ==
  ASSUME NEW s \in Slaves, NEW his, NEW high, StackOK(his, high), From(his, s) = {},
         NEW rev \in Nat, NEW top \in Nat, NEW back, NEW fails
  PROVE  Synced(<<VoidAdjust(rev)>>, <<>>, his, s, {}, <<>>, back, top, rev, fails)
<1> DEFINE e  == VoidAdjust(rev)
           st == <<e>>
<1>1. IsEntry(e) /\ e.rev = rev /\ e.origin # s
  <2>1. /\ IsEntry(e) /\ e.rev = rev
        /\ e.origin = IF Saved THEN NoDoc ELSE Master
    BY AdjustIs DEF VoidAdjust
  <2> QED BY <2>1, PeersAssumption
<1> HIDE DEF e
<1>2. /\ IsSeq(st) /\ Len(st) = 1 /\ st[1] = e
      /\ IsSeq(<<>>) /\ Len(<<>>) = 0
  BY DEF IsSeq
<1> HIDE DEF st
<1>3. SlaveStack(st, s, top)
  BY <1>1, <1>2 DEF SlaveStack
<1>4. Changes(<<>>) = {} /\ Acks(<<>>) = {}
  BY <1>2, AcksAre
<1>5. SlaveQueue(<<>>, {}, top)
  BY <1>4 DEF SlaveQueue, InOrder
<1>6. From(st, s) = {} /\ Alien(st, s) = {1}
  <2>1. From(st, s) = {i \in 1..1 : st[i].origin = s} /\ Alien(st, s) = {i \in 1..1 : st[i].origin # s}
    BY <1>2, EntriesAre
  <2>2. \A i \in 1..1 : i = 1
    OBVIOUS
  <2> QED BY <1>1, <1>2, <2>1, <2>2
<1>7. AlienAgree(st, his, s, rev)
  <2>1. IsSeq(his) /\ \A i \in 1..Len(his) : his[i].rev \in Nat
    BY DEF StackOK
  <2>2. \A i \in Alien(his, s) : his[i].rev \in Nat
    BY <2>1, EntriesAre
  <2>3. {i \in Alien(his, s) : his[i].rev > rev /\ his[i].rev <= rev} = {}
    BY <2>2
  <2>4. Alien(st, s) \ {1} = {} /\ st[1].rev = rev
    BY <1>1, <1>2, <1>6
  <2>5. {i \in Alien(his, s) : his[i].rev > st[1].rev /\ his[i].rev <= rev} = {}
    BY <2>3, <2>4
  <2>6. st[1].rev <= rev
    BY <2>4
  <2> QED BY <2>4, <2>5, <2>6, ShapeOfNone DEF AlienAgree
<1>8. OwnAgree(st, his, s, <<>>, {})
  <2>1. Survivors(<<>>) = {}
    BY <1>4 DEF Survivors
  <2>2. From(st, s) \ Pending(st, s, <<>>, {}) = {}
    BY <1>6
  <2> QED BY <1>4, <1>6, <2>1, <2>2, ShapeOfNone DEF OwnAgree
<1>9. RevertsOK(<<>>, <<>>, back, {}, top)
  BY <1>2 DEF RevertsOK
<1>10. Synced(st, <<>>, his, s, {}, <<>>, back, top, rev, fails)
  BY <1>3, <1>5, <1>7, <1>8, <1>9 DEF Synced
<1> QED BY <1>10 DEF st, e

LEMMA StartAllSync ==
  ASSUME Init PROVE AllSync
<1> USE PeersFacts
<1>1. IInv
  BY StartIInv
<1>2. adjusts[Master] = <<>> /\ StackOK(<<>>, crn[Master]) /\ \A p, q \in Peers : chan[p][q] = <<>>
  BY <1>1, EarlyAssumption DEF Init, IInv
<1>3. /\ IsSeq(<<>>) /\ Len(<<>>) = 0 /\ revertSet = <<>>
      /\ DOMAIN reverted = Slaves
  BY DEF Init, IsSeq
<1>4. MasterStack(<<>>) /\ OneWaitEach(<<>>)
  BY <1>3 DEF MasterStack, OneWaitEach
<1>5. ASSUME NEW s \in Slaves PROVE SlaveSync(s)
  <2>1. Waiting(<<>>, s) = {} /\ From(<<>>, s) = {} /\ Changes(<<>>) = {}
    BY <1>3, <1>4, WaitingIs, EntriesAre, AcksAre
  <2>2. ToldSame(<<>>, <<>>, s)
    BY <2>1 DEF ToldSame
  <2>3. /\ crn[s] = 0 /\ chan[s][Master] = <<>> /\ chan[Master][s] = <<>>
        /\ remoteRevs[s][Master] = 0 /\ reverted[s] = <<>>
        /\ phase[s] = "in" => s \in EarlySlaves
        /\ s \in EarlySlaves => adjusts[s] = <<VoidAdjust(0)>>
    BY <1>2 DEF Init
  <2>4. Synced(<<VoidAdjust(0)>>, <<>>, <<>>, s, {}, <<>>, <<>>, 0, 0, asserts)
    BY <1>2, <2>1, SyncedStart
  <2>5. phase[s] = "in" =>
          Synced(adjusts[s], chan[s][Master], adjusts[Master], s, Waiting(revertSet, s), reverted[s],
                 chan[Master][s], crn[s], remoteRevs[s][Master], asserts)
    BY <1>2, <1>3, <2>1, <2>3, <2>4
  <2> QED BY <1>2, <1>3, <2>1, <2>2, <2>3, <2>5 DEF SlaveSync
<1> QED BY <1>2, <1>3, <1>4, <1>5 DEF AllSync

(* The slave takes the answer.                                              *)
LEMMA HandleJoinResponseSync ==
  ASSUME IInv, AllSync, NEW s \in Slaves, HandleJoinResponse(s)
  PROVE  AllSync'
<1> DEFINE m == Head(chan[Master][s])
<1> USE PeersFacts
<1>1. /\ Net(chan) /\ StackOK(adjusts[Master], crn[Master])
      /\ \A t \in Slaves : SlaveInv(t) /\ SlaveSync(t)
      /\ DOMAIN adjusts = Peers /\ DOMAIN remoteRevs = Peers /\ DOMAIN phase = Slaves
      /\ DOMAIN reverted = Slaves
  BY DEF IInv, AllSync
<1>2. /\ HeadIs(Master, s, "joinResponse")
      /\ adjusts' = [adjusts EXCEPT ![s] = <<VoidAdjust(m.rev)>>]
      /\ remoteRevs' = [remoteRevs EXCEPT ![s] = [q \in Peers |-> IF q = Master THEN m.rev ELSE 0]]
      /\ reverted' = [reverted EXCEPT ![s] = <<>>]
      /\ phase' = [phase EXCEPT ![s] = "in"]
      /\ chan' = Received(chan, Master, s)
      /\ UNCHANGED <<crn, revertSet, members, asserts>>
  BY DEF HandleJoinResponse
<1>3. /\ phase[s] = "joining" /\ s \in members /\ chan[s][Master] = <<>>
      /\ NoType(Tail(chan[Master][s]), "joinResponse")
  BY <1>1, <1>2, AnswerToSlave
<1>4. /\ chan[Master][s] # <<>> /\ m.type = "joinResponse" /\ IsSeq(chan[Master][s])
      /\ m = chan[Master][s][1]
  BY <1>1, <1>2, TailIsSeq DEF HeadIs, Net
<1>5. m.rev \in Nat
  <2>1. Flow(chan[Master][s], adjusts[Master], s, remoteRevs[s][Master], crn[Master])
    BY <1>1, <1>3 DEF SlaveInv
  <2> HIDE DEF m
  <2> QED BY <1>4, <2>1 DEF Flow, SeenUpTo
<1> HIDE DEF m
<1>6. /\ chan'[Master][s] = Tail(chan[Master][s])
      /\ \A a, b \in Peers : ~(a = Master /\ b = s) => chan'[a][b] = chan[a][b]
  BY <1>1, <1>2, <1>4, ReceiveNet
<1>7. /\ adjusts'[Master] = adjusts[Master] /\ adjusts'[s] = <<VoidAdjust(m.rev)>>
      /\ remoteRevs'[s][Master] = m.rev /\ phase'[s] = "in" /\ reverted'[s] = <<>>
      /\ DOMAIN reverted' = Slaves
  BY <1>1, <1>2
<1>8. ASSUME NEW t \in Slaves, t # s PROVE SlaveSync(t)'
  <2>1. Stays(t) /\ chan'[Master][t] = chan[Master][t]
    BY <1>1, <1>2, <1>6, <1>8 DEF Stays
  <2> QED BY <1>1, <1>7, <2>1, StaysSync
<1>9. SlaveSync(s)'
  <2>1. /\ crn[s] \in Nat /\ Waiting(revertSet, s) = {} /\ From(adjusts[Master], s) = {}
        /\ ToldSame(chan[Master][s], adjusts[Master], s)
    BY <1>1, <1>3 DEF SlaveSync
  <2>2. ToldSame(Tail(chan[Master][s]), adjusts[Master], s)
    BY <1>4, <2>1, ToldKeeps
  <2>3. chan'[s][Master] = <<>>
    BY <1>3, <1>6
  <2>4. Synced(<<VoidAdjust(m.rev)>>, <<>>, adjusts[Master], s, {}, <<>>, chan'[Master][s], crn[s],
               m.rev, asserts)
    BY <1>1, <1>5, <2>1, SyncedStart
  <2> QED BY <1>2, <1>6, <1>7, <2>1, <2>2, <2>3, <2>4 DEF SlaveSync
<1> QED BY <1>2, <1>7, <1>8, <1>9 DEF AllSync

(* The master admits a slave.                                               *)
LEMMA HandleJoinRequestSync ==
  ASSUME IInv, AllSync, NEW s \in Slaves, HandleJoinRequest(s)
  PROVE  AllSync'
<1> DEFINE known == s \in KnownAuthors
           rev   == IF known THEN crn[Master] ELSE crn[Master] + 1
           heard == Received(chan, s, Master)
           told  == IF known THEN heard
                    ELSE PushTo(heard, Master, members, "docprop", 0, 0, <<>>, rev)
           e     == ChangeAdjust(rev, "docprop", 0, 0, -1, Master)
           m     == JoinResponse(doc[Master], rev)
<1> USE PeersFacts
<1>1. /\ Net(chan) /\ StackOK(adjusts[Master], crn[Master]) /\ members \subseteq Slaves
      /\ \A t \in Slaves : SlaveInv(t) /\ SlaveSync(t)
      /\ DOMAIN crn = Peers /\ DOMAIN adjusts = Peers
  BY DEF IInv, AllSync
<1>2. /\ HeadIs(s, Master, "joinRequest")
      /\ crn' = [crn EXCEPT ![Master] = rev]
      /\ adjusts' = IF known THEN adjusts ELSE [adjusts EXCEPT ![Master] = Append(@, e)]
      /\ chan' = SendTo(told, Master, s, m)
      /\ members' = members \cup {s}
      /\ UNCHANGED <<remoteRevs, revertSet, reverted, phase, asserts>>
  BY DEF HandleJoinRequest
<1>3. /\ m.type = "joinResponse"
      /\ IsEntry(e) /\ e.rev = rev /\ e.origin = Master
      /\ ~known => rev = crn[Master] + 1
  <2>1. m.type = "joinResponse"
    BY DEF JoinResponse
  <2>2. IsEntry(e) /\ e.rev = rev /\ e.origin = Master
    BY AdjustIs
  <2> QED BY <2>1, <2>2
<1>4. /\ phase[s] = "joining" /\ s \notin members
      /\ chan[s][Master] = <<JoinRequest>> /\ chan[Master][s] = <<>>
  BY <1>1, <1>2, RequestToMaster
<1>5. /\ Net(heard)
      /\ \A a, b \in Peers : ~(a = s /\ b = Master) => heard[a][b] = chan[a][b]
  <2>1. <<JoinRequest>> # <<>>
    OBVIOUS
  <2>2. chan[s][Master] # <<>>
    BY <1>4, <2>1
  <2> HIDE DEF told, e, m, rev, known
  <2> QED BY <1>1, <2>2, ReceiveNet
<1> HIDE DEF heard
<1>6. ~known => \A b \in Peers : b \in members => \E x :
        /\ x.type = "change" /\ x.rev = rev /\ SameChange(x, e)
        /\ told[Master][b] = Append(heard[Master][b], x)
  <2> SUFFICES ASSUME ~known, NEW b \in Peers, b \in members
               PROVE  \E x : /\ x.type = "change" /\ x.rev = rev /\ SameChange(x, e)
                             /\ told[Master][b] = Append(heard[Master][b], x)
    OBVIOUS
  <2> DEFINE x == ChangePacket("docprop", 0, 0, <<>>, rev, remoteRevs[Master][b])
  <2> HIDE DEF rev
  <2>1. told[Master][b] = Append(heard[Master][b], x)
    BY <1>5, PushedNet
  <2>2. x.type = "change" /\ x.rev = rev /\ SameChange(x, e)
    BY PacketIs
  <2> HIDE DEF x, told, e
  <2> QED BY <2>1, <2>2
<1> HIDE DEF e, m, rev, known
<1>7. /\ Net(told)
      /\ \A a, b \in Peers : ~(a = Master /\ b \in members) => told[a][b] = heard[a][b]
      /\ known => \A a, b \in Peers : told[a][b] = heard[a][b]
  <2>1. CASE known
    BY <1>5, <2>1
  <2>2. CASE ~known
    BY <1>5, <2>2, PushNet
  <2> QED BY <2>1, <2>2
<1> HIDE DEF told
<1>8. /\ chan'[Master][s] = Append(told[Master][s], m)
      /\ \A a, b \in Peers : ~(a = Master /\ b = s) => chan'[a][b] = told[a][b]
  BY <1>2, <1>7, SendNet
<1>9. /\ \A t \in Slaves : crn'[t] = crn[t] /\ adjusts'[t] = adjusts[t]
      /\ adjusts'[Master] = IF known THEN adjusts[Master] ELSE Append(adjusts[Master], e)
  BY <1>1, <1>2
<1>10. ASSUME NEW t \in Slaves, t # s PROVE SlaveSync(t)'
  <2>1. chan'[Master][t] = told[Master][t] /\ heard[Master][t] = chan[Master][t]
    BY <1>5, <1>8, <1>10
  <2>2. Stays(t)
    BY <1>2, <1>5, <1>7, <1>8, <1>9, <1>10 DEF Stays
  <2>3. CASE known
    BY <1>1, <1>7, <1>9, <2>1, <2>2, <2>3, StaysSync
  <2>4. CASE ~known
    <3>1. HearsOf(t, e)
      <4>1. CASE t \notin members
        BY <1>7, <2>1, <4>1 DEF HearsOf
      <4>2. CASE t \in members
        BY <1>3, <1>6, <2>1, <2>4, <4>2 DEF HearsOf
      <4> QED BY <4>1, <4>2
    <3>2. e.origin # t /\ e.rev = crn[Master] + 1
      BY <1>3, <2>4
    <3> QED BY <1>1, <1>9, <2>2, <2>4, <3>1, <3>2, HearsSync
  <2> QED BY <2>3, <2>4
<1>11. SlaveSync(s)'
  <2>1. chan'[Master][s] = Append(<<>>, m)
    <3>1. told[Master][s] = heard[Master][s] /\ heard[Master][s] = <<>>
      BY <1>4, <1>5, <1>7
    <3> QED BY <1>8, <3>1
  <2>2. ToldSame(<<>>, adjusts'[Master], s)
    <3>1. Changes(<<>>) = {}
      BY DEF Changes
    <3> QED BY <3>1 DEF ToldSame
  <2>3. ToldSame(Append(<<>>, m), adjusts'[Master], s)
    <3>1. IsSeq(<<>>)
      BY DEF IsSeq
    <3> QED BY <1>3, <2>2, <3>1, ToldKeeps
  <2>4. From(adjusts'[Master], s) = {}
    <3> DEFINE his == adjusts[Master]
    <3>1. From(his, s) = {} /\ IsSeq(his)
      BY <1>1, <1>4 DEF SlaveSync, StackOK
    <3> HIDE DEF his
    <3>2. From(Append(his, e), s) = From(his, s) \cup (IF e.origin = s THEN {Len(his) + 1} ELSE {})
      BY <3>1, EntryPushed
    <3> QED BY <1>3, <1>9, <3>1, <3>2 DEF his
  <2>5. crn[s] \in Nat /\ Waiting(revertSet, s) = {} /\ phase'[s] = "joining"
    BY <1>1, <1>2, <1>4 DEF SlaveSync
  <2> QED BY <1>2, <1>9, <2>1, <2>3, <2>4, <2>5 DEF SlaveSync
<1>12. MasterStack(adjusts'[Master])
  BY <1>1, <1>3, <1>9, MasterPush DEF AllSync
<1> QED BY <1>2, <1>10, <1>11, <1>12 DEF AllSync
----------------------------------------------------------------------------
(* The imports of the master *)

(* What holds when a packet of slave s is next.                             *)
LEMMA NextFromSlave ==
  ASSUME IInv, AllSync, NEW s \in Slaves, NEW type, HeadIs(s, Master, type), type # "joinRequest"
  PROVE  LET c     == chan[s][Master]
             heard == Received(chan, s, Master)
         IN  /\ phase[s] = "in" /\ s \in members /\ crn[s] \in Nat
             /\ IsSeq(c) /\ c # <<>> /\ Head(c) = c[1] /\ c[1].type = type
             /\ IsSeq(chan[Master][s]) /\ IsSeq(adjusts[Master])
             /\ ToldSame(chan[Master][s], adjusts[Master], s)
             /\ Synced(adjusts[s], c, adjusts[Master], s, Waiting(revertSet, s), reverted[s],
                       chan[Master][s], crn[s], remoteRevs[s][Master], asserts)
             /\ Net(heard) /\ heard[s][Master] = Tail(c)
             /\ \A a, b \in Peers : ~(a = s /\ b = Master) => heard[a][b] = chan[a][b]
<1> USE PeersFacts
<1>1. /\ Net(chan) /\ StackOK(adjusts[Master], crn[Master]) /\ SlaveInv(s) /\ SlaveSync(s)
  BY DEF IInv, AllSync
<1>2. phase[s] = "in" /\ s \in members
  BY <1>1, ToMaster
<1>3. /\ chan[s][Master] # <<>> /\ IsSeq(chan[s][Master]) /\ IsSeq(chan[Master][s])
      /\ Head(chan[s][Master]).type = type
  BY <1>1 DEF HeadIs, Net
<1>4. Head(chan[s][Master]) = chan[s][Master][1]
  BY <1>3, TailIsSeq
<1>5. /\ Net(Received(chan, s, Master))
      /\ Received(chan, s, Master)[s][Master] = Tail(chan[s][Master])
      /\ \A a, b \in Peers : ~(a = s /\ b = Master) => Received(chan, s, Master)[a][b] = chan[a][b]
  BY <1>1, <1>3, ReceiveNet
<1>6. IsSeq(adjusts[Master])
  BY <1>1 DEF StackOK
<1>7. /\ crn[s] \in Nat /\ ToldSame(chan[Master][s], adjusts[Master], s)
      /\ Synced(adjusts[s], chan[s][Master], adjusts[Master], s, Waiting(revertSet, s), reverted[s],
                chan[Master][s], crn[s], remoteRevs[s][Master], asserts)
  BY <1>1, <1>2 DEF SlaveSync
<1> QED BY <1>2, <1>3, <1>4, <1>5, <1>6, <1>7

(* Whom the master waits for.                                               *)
LEMMA AwaitedIs ==
  ASSUME OneWaitEach(revertSet), NEW s
  PROVE  /\ Awaited(s) => \E w : Waiting(revertSet, s) = {w}
         /\ ~Awaited(s) => Waiting(revertSet, s) = {} /\ \A i \in 1..Len(revertSet) : revertSet[i][1] # s
<1>1. /\ DOMAIN revertSet = 1..Len(revertSet)
      /\ \A i \in 1..Len(revertSet) : revertSet[i][1] = s => Waiting(revertSet, s) = {revertSet[i][2]}
      /\ (\A i \in 1..Len(revertSet) : revertSet[i][1] # s) => Waiting(revertSet, s) = {}
  BY WaitingIs
<1>2. Awaited(s) <=> \E i \in 1..Len(revertSet) : revertSet[i][1] = s
  BY <1>1 DEF Awaited
<1> QED BY <1>1, <1>2

LEMMA ImportIgnoredSync ==
  ASSUME IInv, AllSync, NEW s \in Slaves, ImportIgnored(s)
  PROVE  AllSync'
<1> USE PeersFacts
<1>1. /\ HeadIs(s, Master, "change") /\ Awaited(s)
      /\ chan' = Received(chan, s, Master) /\ members' = members \cup {s}
      /\ UNCHANGED <<crn, adjusts, remoteRevs, revertSet, reverted, phase, asserts>>
  BY DEF ImportIgnored
<1>2. /\ phase[s] = "in" /\ s \in members /\ crn[s] \in Nat
      /\ IsSeq(chan[s][Master]) /\ chan[s][Master] # <<>> /\ chan[s][Master][1].type = "change"
      /\ IsSeq(chan[Master][s]) /\ ToldSame(chan[Master][s], adjusts[Master], s)
      /\ Synced(adjusts[s], chan[s][Master], adjusts[Master], s, Waiting(revertSet, s), reverted[s],
                chan[Master][s], crn[s], remoteRevs[s][Master], asserts)
      /\ chan'[s][Master] = Tail(chan[s][Master])
      /\ \A a, b \in Peers : ~(a = s /\ b = Master) => chan'[a][b] = chan[a][b]
  BY <1>1, NextFromSlave
<1>3. PICK w : Waiting(revertSet, s) = {w}
  BY <1>1, AwaitedIs DEF AllSync
<1>4. Synced(adjusts[s], chan'[s][Master], adjusts[Master], s, {w}, reverted[s],
             chan[Master][s], crn[s], remoteRevs[s][Master], asserts)
  <2>1. Synced(adjusts[s], chan[s][Master], adjusts[Master], s, {w}, reverted[s],
               chan[Master][s], crn[s], remoteRevs[s][Master], asserts)
    BY <1>2, <1>3
  <2>2. Synced(adjusts[s], Tail(chan[s][Master]), adjusts[Master], s, {w}, reverted[s],
               chan[Master][s], crn[s], remoteRevs[s][Master], asserts)
    BY <1>2, <2>1, SyncedIgnored
  <2> QED BY <1>2, <2>2
<1>5. SlaveSync(s)'
  BY <1>1, <1>2, <1>3, <1>4 DEF SlaveSync
<1>6. ASSUME NEW t \in Slaves, t # s PROVE SlaveSync(t)'
  <2>1. Stays(t) /\ chan'[Master][t] = chan[Master][t] /\ SlaveSync(t)
    BY <1>1, <1>2, <1>6 DEF Stays, AllSync
  <2> QED BY <1>1, <2>1, StaysSync
<1> QED BY <1>1, <1>5, <1>6 DEF AllSync

LEMMA ImportRefusedSync ==
  ASSUME IInv, AllSync, NEW s \in Slaves, ImportRefused(s)
  PROVE  AllSync'
<1> DEFINE m     == chan[s][Master][1]
           r     == RevertPacket(m.rev)
           heard == Received(chan, s, Master)
           set   == Append(revertSet, <<s, m.rev>>)
<1> USE PeersFacts
<1>1. /\ HeadIs(s, Master, "change") /\ ~Awaited(s)
      /\ revertSet' = Append(revertSet, <<s, Head(chan[s][Master]).rev>>)
      /\ chan' = SendTo(heard, Master, s, RevertPacket(Head(chan[s][Master]).rev))
      /\ members' = members \cup {s}
      /\ UNCHANGED <<crn, adjusts, remoteRevs, reverted, phase, asserts>>
  BY DEF ImportRefused
<1>2. /\ phase[s] = "in" /\ s \in members /\ crn[s] \in Nat
      /\ IsSeq(chan[s][Master]) /\ chan[s][Master] # <<>> /\ m.type = "change"
      /\ Head(chan[s][Master]) = m
      /\ IsSeq(chan[Master][s]) /\ ToldSame(chan[Master][s], adjusts[Master], s)
      /\ Synced(adjusts[s], chan[s][Master], adjusts[Master], s, Waiting(revertSet, s), reverted[s],
                chan[Master][s], crn[s], remoteRevs[s][Master], asserts)
      /\ Net(heard) /\ heard[s][Master] = Tail(chan[s][Master])
      /\ \A a, b \in Peers : ~(a = s /\ b = Master) => heard[a][b] = chan[a][b]
  BY <1>1, NextFromSlave
<1>3. r.type = "revert" /\ r.rev = m.rev
  BY DEF RevertPacket
<1>4. revertSet' = set /\ chan' = SendTo(heard, Master, s, r)
  BY <1>1, <1>2
<1> HIDE DEF heard, r
<1>5. /\ chan'[Master][s] = Append(heard[Master][s], r)
      /\ \A a, b \in Peers : ~(a = Master /\ b = s) => chan'[a][b] = heard[a][b]
  BY <1>2, <1>4, SendNet
<1>6. /\ chan'[s][Master] = Tail(chan[s][Master]) /\ chan'[Master][s] = Append(chan[Master][s], r)
      /\ \A t \in Slaves : t # s =>
           chan'[t][Master] = chan[t][Master] /\ chan'[Master][t] = chan[Master][t]
  BY <1>2, <1>5
<1>7. /\ Waiting(revertSet, s) = {} /\ OneWaitEach(set) /\ Waiting(set, s) = {m.rev}
      /\ \A t : t # s => Waiting(set, t) = Waiting(revertSet, t)
  <2>1. OneWaitEach(revertSet)
    BY DEF AllSync
  <2>2. Waiting(revertSet, s) = {} /\ \A i \in 1..Len(revertSet) : revertSet[i][1] # s
    BY <1>1, <2>1, AwaitedIs
  <2> QED BY <2>1, <2>2, WaitingMore
<1> HIDE DEF set
<1>8. SlaveSync(s)'
  <2>1. Synced(adjusts[s], Tail(chan[s][Master]), adjusts[Master], s, {m.rev}, reverted[s],
               Append(chan[Master][s], r), crn[s], remoteRevs[s][Master], asserts)
    BY <1>2, <1>3, <1>7, SyncedRefused
  <2>2. ToldSame(Append(chan[Master][s], r), adjusts[Master], s)
    BY <1>2, <1>3, ToldKeeps
  <2> QED BY <1>1, <1>2, <1>4, <1>6, <1>7, <2>1, <2>2 DEF SlaveSync
<1>9. ASSUME NEW t \in Slaves, t # s PROVE SlaveSync(t)'
  <2>1. Stays(t) /\ chan'[Master][t] = chan[Master][t] /\ SlaveSync(t)
    BY <1>1, <1>4, <1>6, <1>7, <1>9 DEF Stays, AllSync
  <2> QED BY <1>1, <2>1, StaysSync
<1> QED BY <1>1, <1>4, <1>7, <1>8, <1>9 DEF AllSync

(* The master gets an acknowledgement.                                      *)
LEMMA ImportRevertAckSync ==
  ASSUME IInv, AllSync, NEW s \in Slaves, ImportRevertAck(s)
  PROVE  AllSync'
<1> DEFINE m     == chan[s][Master][1]
           waits == {i \in DOMAIN revertSet : revertSet[i][1] = s}
           first == CHOOSE i \in waits : \A j \in waits : i <= j
<1> USE PeersFacts
<1>1. /\ HeadIs(s, Master, "revertAck")
      /\ revertSet' = IF waits = {} THEN revertSet ELSE RemoveAt(revertSet, first)
      /\ asserts' = IF waits = {} THEN asserts \cup {"ackUnasked"}
                    ELSE IF revertSet[first][2] # Head(chan[s][Master]).rev
                         THEN asserts \cup {"ackRev"} ELSE asserts
      /\ members' = members \cup {s}
      /\ chan' = Received(chan, s, Master)
      /\ UNCHANGED <<crn, adjusts, remoteRevs, reverted, phase>>
  BY DEF ImportRevertAck
<1>2. /\ phase[s] = "in" /\ s \in members /\ crn[s] \in Nat
      /\ IsSeq(chan[s][Master]) /\ chan[s][Master] # <<>> /\ m.type = "revertAck"
      /\ Head(chan[s][Master]) = m
      /\ ToldSame(chan[Master][s], adjusts[Master], s)
      /\ Synced(adjusts[s], chan[s][Master], adjusts[Master], s, Waiting(revertSet, s), reverted[s],
                chan[Master][s], crn[s], remoteRevs[s][Master], asserts)
      /\ chan'[s][Master] = Tail(chan[s][Master])
      /\ \A a, b \in Peers : ~(a = s /\ b = Master) => chan'[a][b] = chan[a][b]
  BY <1>1, NextFromSlave
<1>3. OneWaitEach(revertSet)
  BY DEF AllSync
<1>4. /\ OneWaitEach(revertSet') /\ Waiting(revertSet', s) = {}
      /\ \A t : t # s => Waiting(revertSet', t) = Waiting(revertSet, t)
      /\ asserts' = {} => asserts = {} /\ Waiting(revertSet, s) = {m.rev}
  <2>1. /\ DOMAIN revertSet = 1..Len(revertSet) /\ Len(revertSet) \in Nat
        /\ \A i \in 1..Len(revertSet) : revertSet[i][1] = s => Waiting(revertSet, s) = {revertSet[i][2]}
        /\ (\A i \in 1..Len(revertSet) : revertSet[i][1] # s) => Waiting(revertSet, s) = {}
    BY <1>3, WaitingIs
  <2>2. CASE waits = {}
    <3>1. \A i \in 1..Len(revertSet) : revertSet[i][1] # s
      BY <2>1, <2>2
    <3>2. asserts' # {} /\ revertSet' = revertSet
      BY <1>1, <2>2
    <3> QED BY <1>3, <2>1, <3>1, <3>2
  <2>3. CASE waits # {}
    <3>1. PICK i \in waits : TRUE
      BY <2>3
    <3>2. \A j \in waits : j = i
      BY <1>3, <2>1, <3>1 DEF OneWaitEach
    <3>3. i \in 1..Len(revertSet) /\ revertSet[i][1] = s /\ i <= i
      BY <2>1, <3>1
    <3> HIDE DEF waits
    <3>4. first = i
      BY <3>1, <3>2, <3>3
    <3> HIDE DEF first
    <3>5. /\ revertSet' = RemoveAt(revertSet, i)
          /\ asserts' = IF revertSet[i][2] # m.rev THEN asserts \cup {"ackRev"} ELSE asserts
      BY <1>1, <1>2, <2>3, <3>4
    <3>6. /\ OneWaitEach(revertSet') /\ Waiting(revertSet', s) = {}
          /\ \A t : t # s => Waiting(revertSet', t) = Waiting(revertSet, t)
      BY <1>3, <3>3, <3>5, WaitingLess
    <3> HIDE DEF m
    <3> QED BY <2>1, <3>3, <3>5, <3>6
  <2> QED BY <2>2, <2>3
<1> HIDE DEF waits, first
<1>5. SlaveSync(s)'
  <2>1. Synced(adjusts[s], Tail(chan[s][Master]), adjusts[Master], s, {}, reverted[s],
               chan[Master][s], crn[s], remoteRevs[s][Master], asserts')
    BY <1>2, <1>4, SyncedAcked
  <2> QED BY <1>1, <1>2, <1>4, <2>1 DEF SlaveSync
<1>6. ASSUME NEW t \in Slaves, t # s PROVE SlaveSync(t)'
  <2>1. Stays(t) /\ chan'[Master][t] = chan[Master][t] /\ SlaveSync(t)
    BY <1>1, <1>2, <1>4, <1>6 DEF Stays, AllSync
  <2> QED BY <1>1, <2>1, StaysSync
<1> QED BY <1>1, <1>4, <1>5, <1>6 DEF AllSync

(* The master takes a change and forwards it.                               *)
LEMMA ImportAcceptedSync ==
  ASSUME IInv, AllSync, NEW s \in Slaves, ImportAccepted(s)
  PROVE  AllSync'
<1> DEFINE m     == chan[s][Master][1]
           pos   == m.pos + CheckForCollision(adjusts[Master], m, s).adj
           fits  == Applies(doc[Master], m.kind, pos, m.len)
           inside == Unsigned(pos) <= FirstPos + Len(doc[Master])
           heard == Received(chan, s, Master)
           rev   == crn[Master] + 1
           e     == ChangeAdjust(rev, m.kind, pos, m.len, m.pos, s)
<1> USE PeersFacts
<1>1. /\ Net(chan) /\ StackOK(adjusts[Master], crn[Master])
      /\ \A t \in Slaves : SlaveInv(t) /\ SlaveSync(t)
      /\ DOMAIN crn = Peers /\ DOMAIN adjusts = Peers
      /\ DOMAIN remoteRevs = Peers /\ DOMAIN remoteRevs[Master] = Peers
  BY DEF IInv, AllSync
<1>2. HeadIs(s, Master, "change") /\ ~Awaited(s)
  BY DEF ImportAccepted
<1>3. /\ phase[s] = "in" /\ s \in members /\ crn[s] \in Nat
      /\ IsSeq(chan[s][Master]) /\ chan[s][Master] # <<>> /\ m.type = "change"
      /\ Head(chan[s][Master]) = m
      /\ IsSeq(chan[Master][s]) /\ IsSeq(adjusts[Master])
      /\ ToldSame(chan[Master][s], adjusts[Master], s)
      /\ Synced(adjusts[s], chan[s][Master], adjusts[Master], s, Waiting(revertSet, s), reverted[s],
                chan[Master][s], crn[s], remoteRevs[s][Master], asserts)
      /\ Net(heard) /\ heard[s][Master] = Tail(chan[s][Master])
      /\ \A a, b \in Peers : ~(a = s /\ b = Master) => heard[a][b] = chan[a][b]
  BY <1>2, NextFromSlave
<1>4. /\ remoteRevs' = [remoteRevs EXCEPT ![Master][s] = m.rev]
      /\ crn' = [crn EXCEPT ![Master] = IF fits THEN rev ELSE crn[Master]]
      /\ adjusts' = [adjusts EXCEPT ![Master] =
                       IF fits THEN Append(adjusts[Master], e) ELSE adjusts[Master]]
      /\ asserts' = IF fits /\ inside THEN asserts ELSE asserts \cup {"position"}
      /\ members' = members \cup {s}
      /\ chan' = IF fits THEN PushTo(heard, Master, ForwardTargets(s), m.kind, pos, m.len, m.toks, rev)
                 ELSE heard
      /\ UNCHANGED <<revertSet, reverted, phase>>
  BY <1>3 DEF ImportAccepted, ImportAt
<1>5. e.rev = rev /\ e.origin = s /\ SameChange(m, e)
  BY AdjustIs DEF SameChange
<1>6. ForwardTargets(s) = members \ {s} /\ members' = members
  BY <1>3, <1>4 DEF ForwardTargets
<1>7. fits => \A b \in Peers : b \in members \ {s} => \E x :
        /\ x.type = "change" /\ x.rev = rev /\ SameChange(x, e)
        /\ chan'[Master][b] = Append(heard[Master][b], x)
  <2> SUFFICES ASSUME fits, NEW b \in Peers, b \in members \ {s}
               PROVE  \E x : /\ x.type = "change" /\ x.rev = rev /\ SameChange(x, e)
                             /\ chan'[Master][b] = Append(heard[Master][b], x)
    OBVIOUS
  <2> DEFINE x == ChangePacket(m.kind, pos, m.len, m.toks, rev, remoteRevs[Master][b])
  <2>1. x.type = "change" /\ x.rev = rev /\ SameChange(x, e)
    BY PacketIs
  <2> HIDE DEF rev, e, m, pos, fits, inside, heard
  <2>2. chan'[Master][b] = Append(heard[Master][b], x)
    BY <1>3, <1>4, <1>6, PushedNet
  <2> HIDE DEF x
  <2> QED BY <2>1, <2>2
<1> HIDE DEF rev, e, pos, fits, inside, heard
<1>8. \A a, b \in Peers : ~(a = Master /\ b \in members \ {s}) => chan'[a][b] = heard[a][b]
  <2>1. CASE fits
    BY <1>3, <1>4, <1>6, <2>1, PushNet
  <2>2. CASE ~fits
    BY <1>4, <2>2
  <2> QED BY <2>1, <2>2
<1>9. /\ adjusts'[Master] = IF fits THEN Append(adjusts[Master], e) ELSE adjusts[Master]
      /\ \A t \in Slaves : /\ crn'[t] = crn[t] /\ adjusts'[t] = adjusts[t]
                           /\ remoteRevs'[t][Master] = remoteRevs[t][Master]
  BY <1>1, <1>4
<1>10. Waiting(revertSet, s) = {}
  BY <1>2, AwaitedIs DEF AllSync
<1>11. SlaveSync(s)'
  <2>1. chan'[s][Master] = Tail(chan[s][Master]) /\ chan'[Master][s] = chan[Master][s]
    BY <1>3, <1>8
  <2>2. CASE fits
    <3>1. Synced(adjusts[s], Tail(chan[s][Master]), Append(adjusts[Master], e), s, {}, reverted[s],
                 chan[Master][s], crn[s], remoteRevs[s][Master], asserts)
      BY <1>3, <1>5, <1>10, SyncedAccepted
    <3>2. asserts' = {} => asserts = {}
      BY <1>4
    <3>3. Synced(adjusts[s], Tail(chan[s][Master]), Append(adjusts[Master], e), s, {}, reverted[s],
                 chan[Master][s], crn[s], remoteRevs[s][Master], asserts')
      BY <3>1, <3>2, SyncedAsserted
    <3>4. ToldSame(chan[Master][s], Append(adjusts[Master], e), s)
      BY <1>3, <1>5, ToldOwn
    <3> QED BY <1>3, <1>4, <1>9, <1>10, <2>1, <2>2, <3>3, <3>4 DEF SlaveSync
  <2>3. CASE ~fits
    <3>1. asserts' # {}
      BY <1>4, <2>3
    <3>2. /\ SlaveStack(adjusts[s], s, crn[s]) /\ SlaveQueue(chan[s][Master], {}, crn[s])
      BY <1>3, <1>10 DEF Synced
    <3>3. SlaveQueue(Tail(chan[s][Master]), {}, crn[s])
      <4>1. {} \subseteq {}
        OBVIOUS
      <4> QED BY <1>3, <3>2, <4>1, SlaveQueueTail
    <3>4. Synced(adjusts[s], Tail(chan[s][Master]), adjusts[Master], s, {}, reverted[s],
                 chan[Master][s], crn[s], remoteRevs[s][Master], asserts')
      BY <3>1, <3>2, <3>3, SyncedFailed
    <3> QED BY <1>3, <1>4, <1>9, <1>10, <2>1, <2>3, <3>4 DEF SlaveSync
  <2> QED BY <2>2, <2>3
<1>12. ASSUME NEW t \in Slaves, t # s PROVE SlaveSync(t)'
  <2>1. Stays(t)
    <3>1. chan'[t][Master] = chan[t][Master]
      BY <1>3, <1>8, <1>12
    <3>2. asserts' = {} => asserts = {}
      BY <1>4
    <3>3. UNCHANGED <<revertSet, reverted, phase, members>>
      BY <1>4, <1>6
    <3> QED BY <1>9, <3>1, <3>2, <3>3 DEF Stays
  <2>2. heard[Master][t] = chan[Master][t]
    BY <1>3
  <2>3. CASE fits
    <3>1. HearsOf(t, e)
      <4>1. CASE t \in members
        BY <1>5, <1>7, <1>12, <2>2, <2>3, <4>1 DEF HearsOf
      <4>2. CASE t \notin members
        BY <1>8, <2>2, <4>2 DEF HearsOf
      <4> QED BY <4>1, <4>2
    <3>2. e.origin # t /\ e.rev = crn[Master] + 1
      BY <1>5, <1>12 DEF rev
    <3> QED BY <1>1, <1>9, <2>1, <2>3, <3>1, <3>2, HearsSync
  <2>4. CASE ~fits
    <3>1. chan' = heard
      BY <1>4, <2>4
    <3> QED BY <1>1, <1>9, <2>1, <2>2, <2>4, <3>1, StaysSync
  <2> QED BY <2>3, <2>4
<1>13. MasterStack(adjusts'[Master])
  BY <1>1, <1>5, <1>9, MasterPush DEF AllSync, rev
<1> QED BY <1>4, <1>11, <1>12, <1>13 DEF AllSync
----------------------------------------------------------------------------
(* The imports of a slave *)

(* What holds when a packet to slave s is next.                             *)
LEMMA NextToSlave ==
  ASSUME IInv, AllSync, NEW s \in Slaves, NEW type, HeadIs(Master, s, type), type # "joinResponse"
  PROVE  LET c     == chan[Master][s]
             heard == Received(chan, Master, s)
         IN  /\ phase[s] = "in" /\ s \in members /\ crn[s] \in Nat
             /\ IsSeq(c) /\ c # <<>> /\ Head(c) = c[1] /\ c[1].type = type
             /\ IsSeq(chan[s][Master])
             /\ ToldSame(c, adjusts[Master], s) /\ ToldSame(Tail(c), adjusts[Master], s)
             /\ Synced(adjusts[s], chan[s][Master], adjusts[Master], s, Waiting(revertSet, s),
                       reverted[s], c, crn[s], remoteRevs[s][Master], asserts)
             /\ Net(heard) /\ heard[Master][s] = Tail(c)
             /\ \A a, b \in Peers : ~(a = Master /\ b = s) => heard[a][b] = chan[a][b]
<1> USE PeersFacts
<1>1. /\ Net(chan) /\ StackOK(adjusts[Master], crn[Master]) /\ SlaveInv(s) /\ SlaveSync(s)
  BY DEF IInv, AllSync
<1>2. phase[s] = "in" /\ s \in members
  BY <1>1, ToSlave
<1>3. /\ chan[Master][s] # <<>> /\ IsSeq(chan[s][Master]) /\ IsSeq(chan[Master][s])
      /\ Head(chan[Master][s]).type = type
  BY <1>1 DEF HeadIs, Net
<1>4. Head(chan[Master][s]) = chan[Master][s][1]
  BY <1>3, TailIsSeq
<1>5. /\ Net(Received(chan, Master, s))
      /\ Received(chan, Master, s)[Master][s] = Tail(chan[Master][s])
      /\ \A a, b \in Peers : ~(a = Master /\ b = s) => Received(chan, Master, s)[a][b] = chan[a][b]
  BY <1>1, <1>3, ReceiveNet
<1>6. /\ crn[s] \in Nat /\ ToldSame(chan[Master][s], adjusts[Master], s)
      /\ Synced(adjusts[s], chan[s][Master], adjusts[Master], s, Waiting(revertSet, s), reverted[s],
                chan[Master][s], crn[s], remoteRevs[s][Master], asserts)
  BY <1>1, <1>2 DEF SlaveSync
<1>7. ToldSame(Tail(chan[Master][s]), adjusts[Master], s)
  BY <1>3, <1>6, ToldKeeps
<1> QED BY <1>2, <1>3, <1>4, <1>5, <1>6, <1>7

(* The import itself, in the state the handling of a collision has left.    *)
LEMMA ImportSync ==
  ASSUME IInv, AllSync, NEW s \in Slaves, HeadIs(Master, s, "change"),
         NEW pos, NEW d, NEW h, NEW st, NEW c, NEW W, NEW done, NEW high \in Nat,
         Synced(st, c, adjusts[Master], s, W, done, chan[Master][s], high,
                remoteRevs[s][Master], asserts),
         ImportAt(s, Master, Head(chan[Master][s]), pos, d, h, st, high)
  PROVE  /\ Synced(adjusts'[s], c, adjusts'[Master], s, W, done, Tail(chan[Master][s]), crn'[s],
                   remoteRevs'[s][Master], asserts')
         /\ crn'[s] \in Nat /\ adjusts'[Master] = adjusts[Master]
         /\ asserts' = {} => asserts = {}
         /\ \A t \in Slaves : t # s => /\ adjusts'[t] = adjusts[t] /\ crn'[t] = crn[t]
                                       /\ remoteRevs'[t][Master] = remoteRevs[t][Master]
<1> DEFINE m    == chan[Master][s][1]
           back == chan[Master][s]
           his  == adjusts[Master]
           seen == remoteRevs[s][Master]
           up   == high + 1
           e    == ChangeAdjust(up, m.kind, pos, m.len, m.pos, Master)
           fits == Applies(d, m.kind, pos, m.len)
           inside == Unsigned(pos) <= FirstPos + Len(d)
<1> USE PeersFacts
<1>1. /\ Net(chan) /\ StackOK(his, crn[Master]) /\ MasterStack(his) /\ SlaveInv(s)
      /\ DOMAIN crn = Peers /\ DOMAIN adjusts = Peers
      /\ DOMAIN remoteRevs = Peers /\ DOMAIN remoteRevs[s] = Peers
  BY DEF IInv, AllSync
<1>2. /\ phase[s] = "in" /\ IsSeq(back) /\ back # <<>> /\ Head(back) = m /\ m.type = "change"
      /\ ToldSame(back, his, s)
  BY NextToSlave
<1>3. RevsIn(back) = Newer(his, s, seen) /\ InOrder(back)
  BY <1>1, <1>2, SlaveIn
<1>4. \A j \in Alien(his, s) : m.rev = his[j].rev => SameChange(m, his[j])
  <2>1. 1 \in Changes(back)
    <3>1. Len(back) \in Nat /\ Len(back) >= 1
      BY <1>2, TailIsSeq
    <3> HIDE DEF back
    <3>2. Changes(back) = {i \in 1..Len(back) : back[i].type = "change"}
      BY <1>2, AcksAre
    <3>3. back[1].type = "change"
      BY <1>2 DEF back
    <3> QED BY <3>1, <3>2, <3>3
  <2> QED BY <1>2, <2>1 DEF ToldSame
<1>5. /\ remoteRevs' = [remoteRevs EXCEPT ![s][Master] = m.rev]
      /\ crn' = [crn EXCEPT ![s] = IF fits THEN up ELSE high]
      /\ adjusts' = [adjusts EXCEPT ![s] = IF fits THEN Append(st, e) ELSE st]
      /\ asserts' = IF fits /\ inside THEN asserts ELSE asserts \cup {"position"}
  BY <1>2 DEF ImportAt
<1>6. IsEntry(e) /\ e.rev = high + 1 /\ e.origin # s /\ SameChange(m, e)
  BY AdjustIs DEF SameChange
<1>7. up \in Nat
  OBVIOUS
<1> HIDE DEF e, fits, inside, up
<1>8. /\ adjusts'[s] = IF fits THEN Append(st, e) ELSE st
      /\ crn'[s] = IF fits THEN up ELSE high
      /\ remoteRevs'[s][Master] = m.rev /\ adjusts'[Master] = his
      /\ \A t \in Slaves : t # s => /\ adjusts'[t] = adjusts[t] /\ crn'[t] = crn[t]
                                    /\ remoteRevs'[t][Master] = remoteRevs[t][Master]
  BY <1>1, <1>5
<1> HIDE DEF back, his, seen, m
<1>9. CASE fits
  <2>1. back[1] = m
    BY DEF back, m
  <2>2. asserts' = {} => asserts = {}
    BY <1>5
  <2>3. Synced(st, c, his, s, W, done, back, high, seen, asserts)
    BY DEF his, back, seen
  <2>4. Synced(Append(st, e), c, his, s, W, done, Tail(back), high + 1, back[1].rev, asserts)
    BY <1>1, <1>2, <1>3, <1>4, <1>6, <2>1, <2>3, SyncedImported
  <2>5. Synced(Append(st, e), c, his, s, W, done, Tail(back), high + 1, back[1].rev, asserts')
    BY <2>2, <2>4, SyncedAsserted
  <2> QED BY <1>7, <1>8, <1>9, <2>1, <2>2, <2>5 DEF up, back, his
<1>10. CASE ~fits
  <2>1. asserts' # {}
    BY <1>5, <1>10
  <2>2. SlaveStack(st, s, high) /\ SlaveQueue(c, W, high)
    BY DEF Synced
  <2>3. Synced(st, c, his, s, W, done, Tail(back), high, m.rev, asserts')
    BY <2>1, <2>2, SyncedFailed
  <2> QED BY <1>8, <1>10, <2>1, <2>3 DEF back, his
<1> QED BY <1>9, <1>10

(* The slave takes a change that is not in the way of its own.              *)
LEMMA ImportFromMasterSync ==
  ASSUME IInv, AllSync, NEW s \in Slaves, ImportFromMaster(s)
  PROVE  AllSync'
<1> DEFINE pos == Head(chan[Master][s]).pos
                  + CheckForCollision(adjusts[s], Head(chan[Master][s]), Master).adj
<1> USE PeersFacts
<1>1. /\ HeadIs(Master, s, "change")
      /\ ImportAt(s, Master, Head(chan[Master][s]), pos, doc[s], hist[s], adjusts[s], crn[s])
      /\ chan' = Received(chan, Master, s)
      /\ UNCHANGED <<revertSet, reverted, members, phase>>
  BY DEF ImportFromMaster
<1> HIDE DEF pos
<1>2. /\ phase[s] = "in" /\ s \in members /\ crn[s] \in Nat
      /\ ToldSame(Tail(chan[Master][s]), adjusts[Master], s)
      /\ Synced(adjusts[s], chan[s][Master], adjusts[Master], s, Waiting(revertSet, s),
                reverted[s], chan[Master][s], crn[s], remoteRevs[s][Master], asserts)
      /\ chan'[Master][s] = Tail(chan[Master][s])
      /\ \A a, b \in Peers : ~(a = Master /\ b = s) => chan'[a][b] = chan[a][b]
  BY <1>1, NextToSlave
<1>3. /\ Synced(adjusts'[s], chan[s][Master], adjusts'[Master], s, Waiting(revertSet, s), reverted[s],
                Tail(chan[Master][s]), crn'[s], remoteRevs'[s][Master], asserts')
      /\ crn'[s] \in Nat /\ adjusts'[Master] = adjusts[Master]
      /\ asserts' = {} => asserts = {}
      /\ \A t \in Slaves : t # s => /\ adjusts'[t] = adjusts[t] /\ crn'[t] = crn[t]
                                    /\ remoteRevs'[t][Master] = remoteRevs[t][Master]
  BY <1>1, <1>2, ImportSync
<1>4. SlaveSync(s)'
  <2>1. chan'[s][Master] = chan[s][Master]
    BY <1>2
  <2> QED BY <1>1, <1>2, <1>3, <2>1 DEF SlaveSync
<1>5. ASSUME NEW t \in Slaves, t # s PROVE SlaveSync(t)'
  <2>1. Stays(t) /\ chan'[Master][t] = chan[Master][t] /\ SlaveSync(t)
    BY <1>1, <1>2, <1>3, <1>5 DEF Stays, AllSync
  <2> QED BY <1>3, <2>1, StaysSync
<1> QED BY <1>1, <1>3, <1>4, <1>5 DEF AllSync

(* The slave reverts its own changes, acknowledges, and takes the change.   *)
LEMMA ImportRevertingSync ==
  ASSUME IInv, AllSync, NEW s \in Slaves, ImportReverting(s)
  PROVE  AllSync'
<1> DEFINE coll == CheckForCollision(adjusts[s], Head(chan[Master][s]), Master)
           back == RevertLocal(s, coll.rev)
           pos  == Head(chan[Master][s]).pos + coll.adj
           ack  == RevertAckPacket(coll.rev)
           heard == Received(chan, Master, s)
<1> USE PeersFacts
<1>1. /\ HeadIs(Master, s, "change")
      /\ ImportAt(s, Master, Head(chan[Master][s]), pos, back.doc, back.hist, back.stack, back.crn)
      /\ chan' = SendTo(heard, s, Master, ack)
      /\ reverted' = [reverted EXCEPT ![s] = Append(@, coll.rev)]
      /\ UNCHANGED <<revertSet, members, phase>>
  BY DEF ImportReverting, PreAck
<1>2. ack.type = "revertAck" /\ ack.rev = coll.rev
  BY DEF RevertAckPacket
<1>3. /\ phase[s] = "in" /\ s \in members /\ crn[s] \in Nat
      /\ IsSeq(chan[Master][s]) /\ IsSeq(chan[s][Master])
      /\ ToldSame(Tail(chan[Master][s]), adjusts[Master], s)
      /\ Synced(adjusts[s], chan[s][Master], adjusts[Master], s, Waiting(revertSet, s),
                reverted[s], chan[Master][s], crn[s], remoteRevs[s][Master], asserts)
      /\ Net(heard) /\ heard[Master][s] = Tail(chan[Master][s])
      /\ \A a, b \in Peers : ~(a = Master /\ b = s) => heard[a][b] = chan[a][b]
      /\ DOMAIN reverted = Slaves
  BY <1>1, NextToSlave DEF AllSync
<1>4. /\ back.stack = Dropped(adjusts[s], Reverts(adjusts[s], s, ack.rev))
      /\ back.crn \in Nat /\ crn[s] <= back.crn
  <2> DEFINE mine == Reverts(adjusts[s], s, coll.rev)
  <2>1. PICK P \in SUBSET (1..Cardinality(mine)) :
          /\ back.crn = crn[s] + Cardinality(P)
          /\ back.stack = Dropped(adjusts[s], mine)
    <3> HIDE DEF coll
    <3> QED BY DEF RevertLocal
  <2>2. IsFiniteSet(mine)
    <3>1. SlaveStack(adjusts[s], s, crn[s])
      BY <1>3 DEF Synced
    <3>2. mine \subseteq From(adjusts[s], s) /\ IsSeq(adjusts[s])
      BY <3>1, RevertsAre DEF SlaveStack
    <3>3. IsFiniteSet(From(adjusts[s], s))
      BY <3>2, EntriesAre
    <3> QED BY <3>2, <3>3, FS_Subset
  <2> HIDE DEF mine
  <2>3. Cardinality(P) \in Nat
    <3>1. Cardinality(mine) \in Nat
      BY <2>2, FS_CardinalityType
    <3>2. IsFiniteSet(1..Cardinality(mine))
      BY <3>1, FS_Interval
    <3>3. IsFiniteSet(P)
      BY <3>2, FS_Subset
    <3> QED BY <3>3, FS_CardinalityType
  <2>4. back.stack = Dropped(adjusts[s], Reverts(adjusts[s], s, ack.rev))
    BY <1>2, <2>1 DEF mine
  <2> HIDE DEF back
  <2> QED BY <1>3, <2>1, <2>3, <2>4
<1> HIDE DEF coll, back, pos, ack, heard
<1>5. /\ chan'[s][Master] = Append(heard[s][Master], ack)
      /\ \A a, b \in Peers : ~(a = s /\ b = Master) => chan'[a][b] = heard[a][b]
  BY <1>1, <1>3, SendNet
<1>6. /\ chan'[s][Master] = Append(chan[s][Master], ack) /\ chan'[Master][s] = Tail(chan[Master][s])
      /\ reverted'[s] = Append(reverted[s], ack.rev) /\ DOMAIN reverted' = Slaves
      /\ \A t \in Slaves : t # s => /\ chan'[t][Master] = chan[t][Master]
                                    /\ chan'[Master][t] = chan[Master][t]
                                    /\ reverted'[t] = reverted[t]
  <2>1. chan'[s][Master] = Append(chan[s][Master], ack) /\ chan'[Master][s] = Tail(chan[Master][s])
    BY <1>3, <1>5
  <2>2. \A t \in Slaves : t # s => /\ chan'[t][Master] = chan[t][Master]
                                   /\ chan'[Master][t] = chan[Master][t]
    BY <1>3, <1>5
  <2>3. /\ reverted'[s] = Append(reverted[s], ack.rev) /\ DOMAIN reverted' = Slaves
        /\ \A t \in Slaves : t # s => reverted'[t] = reverted[t]
    BY <1>1, <1>2, <1>3
  <2> QED BY <2>1, <2>2, <2>3
<1>7. Synced(back.stack, Append(chan[s][Master], ack), adjusts[Master], s, Waiting(revertSet, s),
             Append(reverted[s], ack.rev), chan[Master][s], back.crn, remoteRevs[s][Master], asserts)
  BY <1>2, <1>3, <1>4, SyncedReverted
<1>8. /\ Synced(adjusts'[s], Append(chan[s][Master], ack), adjusts'[Master], s, Waiting(revertSet, s),
                Append(reverted[s], ack.rev), Tail(chan[Master][s]), crn'[s], remoteRevs'[s][Master],
                asserts')
      /\ crn'[s] \in Nat /\ adjusts'[Master] = adjusts[Master]
      /\ asserts' = {} => asserts = {}
      /\ \A t \in Slaves : t # s => /\ adjusts'[t] = adjusts[t] /\ crn'[t] = crn[t]
                                    /\ remoteRevs'[t][Master] = remoteRevs[t][Master]
  BY <1>1, <1>4, <1>7, ImportSync
<1>9. SlaveSync(s)'
  BY <1>1, <1>3, <1>6, <1>8 DEF SlaveSync
<1>10. ASSUME NEW t \in Slaves, t # s PROVE SlaveSync(t)'
  <2>1. Stays(t) /\ chan'[Master][t] = chan[Master][t] /\ SlaveSync(t)
    BY <1>1, <1>6, <1>8, <1>10 DEF Stays, AllSync
  <2> QED BY <1>8, <2>1, StaysSync
<1> QED BY <1>1, <1>6, <1>8, <1>9, <1>10 DEF AllSync

(* The slave is told to revert.                                             *)
LEMMA ImportRevertSync ==
  ASSUME IInv, AllSync, NEW s \in Slaves, ImportRevert(s)
  PROVE  AllSync'
<1> DEFINE m     == chan[Master][s][1]
           known == reverted[s] # <<>> /\ Head(reverted[s]) = m.rev
<1> USE PeersFacts
<1>1. /\ HeadIs(Master, s, "revert")
      /\ chan' = Received(chan, Master, s)
      /\ UNCHANGED <<crn, adjusts, remoteRevs, revertSet, members, phase>>
  BY DEF ImportRevert
<1>2. /\ phase[s] = "in" /\ s \in members /\ crn[s] \in Nat
      /\ IsSeq(chan[Master][s]) /\ chan[Master][s] # <<>> /\ Head(chan[Master][s]) = m
      /\ ToldSame(Tail(chan[Master][s]), adjusts[Master], s)
      /\ Synced(adjusts[s], chan[s][Master], adjusts[Master], s, Waiting(revertSet, s),
                reverted[s], chan[Master][s], crn[s], remoteRevs[s][Master], asserts)
      /\ chan'[Master][s] = Tail(chan[Master][s])
      /\ \A a, b \in Peers : ~(a = Master /\ b = s) => chan'[a][b] = chan[a][b]
      /\ DOMAIN reverted = Slaves
  BY <1>1, NextToSlave DEF AllSync
<1>3. /\ reverted' = IF known THEN [reverted EXCEPT ![s] = Tail(@)] ELSE reverted
      /\ asserts' = IF known THEN asserts ELSE asserts \cup {"outOfSync"}
  BY <1>2 DEF ImportRevert
<1>4. SlaveSync(s)'
  <2>1. chan'[s][Master] = chan[s][Master]
    BY <1>2
  <2>2. CASE known
    <3>1. reverted'[s] = Tail(reverted[s]) /\ asserts' = asserts
      BY <1>2, <1>3, <2>2
    <3>2. Synced(adjusts[s], chan[s][Master], adjusts[Master], s, Waiting(revertSet, s),
                 Tail(reverted[s]), Tail(chan[Master][s]), crn[s], remoteRevs[s][Master], asserts)
      <4> DEFINE done == reverted[s]
      <4>1. done # <<>> /\ Head(done) = m.rev
        BY <2>2
      <4> HIDE DEF done, m
      <4>2. CASE asserts # {}
        <5>1. SlaveStack(adjusts[s], s, crn[s]) /\ SlaveQueue(chan[s][Master], Waiting(revertSet, s), crn[s])
          BY <1>2 DEF Synced
        <5> QED BY <4>2, <5>1, SyncedFailed
      <4>3. CASE asserts = {} /\ ~InStep(chan[s][Master], Waiting(revertSet, s))
        BY <1>2, <4>3 DEF Synced
      <4>4. CASE asserts = {} /\ InStep(chan[s][Master], Waiting(revertSet, s))
        <5>1. IsSeq(done)
          BY <1>2, <4>4 DEF Synced, RevertsOK, done
        <5>2. done[1] = chan[Master][s][1].rev
          BY <4>1, <5>1, TailIsSeq DEF m
        <5> QED BY <1>2, <4>1, <5>2, SyncedTold DEF done
      <4> QED BY <4>2, <4>3, <4>4
    <3> QED BY <1>1, <1>2, <2>1, <3>1, <3>2 DEF SlaveSync
  <2>3. CASE ~known
    <3>1. reverted' = reverted /\ asserts' # {}
      BY <1>3, <2>3
    <3>2. SlaveStack(adjusts[s], s, crn[s]) /\ SlaveQueue(chan[s][Master], Waiting(revertSet, s), crn[s])
      BY <1>2 DEF Synced
    <3>3. Synced(adjusts[s], chan[s][Master], adjusts[Master], s, Waiting(revertSet, s),
                 reverted[s], Tail(chan[Master][s]), crn[s], remoteRevs[s][Master], asserts')
      BY <3>1, <3>2, SyncedFailed
    <3> QED BY <1>1, <1>2, <2>1, <3>1, <3>3 DEF SlaveSync
  <2> QED BY <2>2, <2>3
<1>5. ASSUME NEW t \in Slaves, t # s PROVE SlaveSync(t)'
  <2>1. reverted'[t] = reverted[t] /\ (asserts' = {} => asserts = {})
    BY <1>2, <1>3, <1>5
  <2> HIDE DEF known
  <2>2. Stays(t) /\ chan'[Master][t] = chan[Master][t] /\ SlaveSync(t)
    BY <1>1, <1>2, <1>5, <2>1 DEF Stays, AllSync
  <2> QED BY <1>1, <2>2, StaysSync
<1>6. DOMAIN reverted' = Slaves
  BY <1>2, <1>3
<1> QED BY <1>1, <1>4, <1>5, <1>6 DEF AllSync
----------------------------------------------------------------------------
(* Every step keeps the invariant: an edit, an undo, a redo, a join, and    *)
(* the import of every packet, whatever is refused or reverted by it        *)
(* (push, import, _handleCollision, _handlePacket).                         *)
THEOREM SyncInvInductive == SyncInv /\ [Next]_vars => SyncInv'
<1> SUFFICES ASSUME SyncInv, [Next]_vars PROVE SyncInv'
  OBVIOUS
<1> USE PeersFacts
<1>1. IInv /\ AllSync
  BY SyncInvIs
<1>2. IInv'
  BY <1>1, IInvInductive
<1>3. AllSync'
  <2>1. ASSUME NEW p \in Peers, NEW kind, NEW pos, NEW len, Edit(p, kind, pos, len)
        PROVE  AllSync'
    BY <1>1, <2>1, MasterEditSync, SlaveEditSync
  <2>2. CASE UserStep
    BY <1>1, <2>1, <2>2, SlaveUndoSync, JoinSync DEF UserStep, EditSpan, EditDocProp
  <2>3. ASSUME NEW s \in Slaves, DeliverToMaster(s) PROVE AllSync'
    BY <1>1, <2>3, HandleJoinRequestSync, ImportIgnoredSync, ImportRefusedSync, ImportAcceptedSync,
       ImportRevertAckSync DEF DeliverToMaster
  <2>4. ASSUME NEW s \in Slaves, DeliverToSlave(s) PROVE AllSync'
    BY <1>1, <2>4, HandleJoinResponseSync, ImportFromMasterSync, ImportRevertingSync, ImportRevertSync
       DEF DeliverToSlave
  <2>5. CASE UNCHANGED vars
    <3>1. ASSUME NEW t \in Slaves PROVE SlaveSync(t)'
      <4>1. Stays(t) /\ chan'[Master][t] = chan[Master][t] /\ SlaveSync(t)
        BY <1>1, <2>5 DEF vars, Stays, AllSync
      <4>2. adjusts'[Master] = adjusts[Master]
        BY <2>5 DEF vars
      <4> QED BY <4>1, <4>2, StaysSync
    <3> QED BY <1>1, <2>5, <3>1 DEF AllSync, vars
  <2> QED BY <2>2, <2>3, <2>4, <2>5 DEF Next
<1>4. SyncInv' <=> IInv' /\ AllSync'
  <2>1. (SyncInv <=> IInv /\ AllSync)'
    BY SyncInvIs, PTL
  <2> QED BY <2>1
<1> QED BY <1>2, <1>3, <1>4

(* In every reachable state, what each slave and the master remember of the *)
(* changes differs by what waits in the queues only, until an assertion of  *)
(* the import code fails, or is bound to (push, import, _handleCollision).  *)
THEOREM AlwaysSyncInv == Spec => []SyncInv
<1>1. Init => SyncInv
  BY StartIInv, StartAllSync, SyncInvIs
<1> QED BY <1>1, SyncInvInductive, PTL DEF Spec

(* With empty queues and no failed assertion the master waits for nobody.   *)
LEMMA SyncedQuiet ==
  ASSUME NEW st, NEW his, NEW s, NEW W, NEW done, NEW top, NEW seen, NEW high, StackOK(his, high),
         Synced(st, <<>>, his, s, W, done, <<>>, top, seen, {}),
         Newer(his, s, seen) = {}
  PROVE  /\ W = {}
         /\ Shape(st, From(st, s)) = Shape(his, From(his, s))
         /\ Shape(st, Alien(st, s) \ {1}) = Shape(his, {i \in Alien(his, s) : his[i].rev > st[1].rev})
<1>1. Changes(<<>>) = {} /\ Acks(<<>>) = {} /\ DOMAIN <<>> = {}
  BY DEF Changes, Acks
<1>2. InStep(<<>>, W)
  BY <1>1 DEF InStep
<1>3. /\ OwnAgree(st, his, s, <<>>, W) /\ RevertsOK(done, <<>>, <<>>, W, top)
      /\ AlienAgree(st, his, s, seen)
  BY <1>2 DEF Synced
<1>4. W = {}
  BY <1>1, <1>3 DEF RevertsOK
<1>5. From(st, s) \ Pending(st, s, <<>>, W) = From(st, s)
  BY <1>1, <1>4 DEF Pending, Survivors
<1>6. Shape(his, From(his, s)) = Shape(st, From(st, s))
  BY <1>3, <1>5 DEF OwnAgree
<1>7. {i \in Alien(his, s) : his[i].rev > st[1].rev /\ his[i].rev <= seen} =
      {i \in Alien(his, s) : his[i].rev > st[1].rev}
  <2>1. IsSeq(his) /\ \A i \in 1..Len(his) : his[i].rev \in Nat
    BY DEF StackOK
  <2>2. /\ Alien(his, s) = {i \in 1..Len(his) : his[i].origin # s}
        /\ DOMAIN his = 1..Len(his)
    BY <2>1, EntriesAre DEF IsSeq
  <2>3. \A i \in Alien(his, s) : ~(his[i].rev > seen)
    BY <2>2 DEF Newer
  <2>4. seen \in Nat
    BY <1>3 DEF AlienAgree
  <2>5. \A i \in Alien(his, s) : his[i].rev <= seen
    BY <2>1, <2>2, <2>3, <2>4
  <2> QED BY <2>5
<1>8. Shape(st, Alien(st, s) \ {1}) =
      Shape(his, {i \in Alien(his, s) : his[i].rev > st[1].rev /\ his[i].rev <= seen})
  BY <1>3 DEF AlienAgree
<1> QED BY <1>4, <1>6, <1>7, <1>8

(* Every slave in the session, when nothing is under way.                   *)
LEMMA QuietSlave ==
  ASSUME SyncInv, Quiet, asserts = {}, NEW s \in Slaves, phase[s] = "in"
  PROVE  Waiting(revertSet, s) = {} /\ Agree(s)
<1> USE PeersFacts
<1>1. IInv /\ SlaveSync(s)
  BY SyncInvIs DEF AllSync
<1>2. chan[s][Master] = <<>> /\ chan[Master][s] = <<>>
  BY DEF Quiet
<1>3. Newer(adjusts[Master], s, remoteRevs[s][Master]) = {} /\ StackOK(adjusts[Master], crn[Master])
  <2>1. RevsIn(chan[Master][s]) = Newer(adjusts[Master], s, remoteRevs[s][Master])
    BY <1>1, SlaveIn DEF IInv
  <2>2. RevsIn(<<>>) = {}
    BY DEF RevsIn, Changes
  <2> QED BY <1>1, <1>2, <2>1, <2>2 DEF IInv
<1>4. Synced(adjusts[s], <<>>, adjusts[Master], s, Waiting(revertSet, s), reverted[s], <<>>, crn[s],
             remoteRevs[s][Master], {})
  BY <1>1, <1>2 DEF SlaveSync
<1> QED BY <1>3, <1>4, SyncedQuiet DEF Agree

LEMMA SyncInvImpliesStacksAgree == SyncInv => StacksAgree
  BY QuietSlave DEF StacksAgree

(* When nothing is under way and no assertion has failed, the stacks of a   *)
(* slave and the master hold the same changes, those of the slave as well   *)
(* as those of others since it joined (push, import, _handleCollision).     *)
THEOREM AlwaysStacksAgree == Spec => []StacksAgree
<1> QED BY AlwaysSyncInv, SyncInvImpliesStacksAgree, PTL

(* While no assertion has failed, the master never waits in vain for the    *)
(* acknowledgement of a refused change (_shouldIgnore): a wait is answered  *)
(* by a packet under way.                                                   *)
THEOREM AlwaysAnswered == Spec => [](asserts = {} => NoVainWait)
<1>1. SyncInv => (asserts = {} => NoVainWait)
  <2> SUFFICES ASSUME SyncInv, asserts = {}, Quiet, NEW s \in Slaves, Awaited(s) PROVE FALSE
    BY DEF NoVainWait
  <2>1. OneWaitEach(revertSet) /\ SlaveSync(s)
    BY SyncInvIs DEF AllSync
  <2>2. Waiting(revertSet, s) # {}
    BY <2>1, AwaitedIs
  <2>3. phase[s] = "in"
    BY <2>1, <2>2 DEF SlaveSync
  <2> QED BY <2>2, <2>3, QuietSlave
<1> QED BY <1>1, AlwaysSyncInv, PTL
=============================================================================
