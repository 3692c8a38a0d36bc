----------------------- MODULE CollabSession_proofs -----------------------
(***************************************************************************)
(* Nothing is lost between the master and a slave: a proof of              *)
(* Spec => []NothingLost for any set of slaves, any lengths and any bounds *)
(* on what the users do.                                                   *)
(*                                                                         *)
(* NothingLost compares a queue with the stack of the master.  What keeps  *)
(* them together is that every revision the master pushes is larger than   *)
(* all he has pushed before (StackOK), and that a slave which joins gets   *)
(* its answer, with the revision the queue starts from, before any change  *)
(* (JoinStage).  Together these are IInv.  The lemmas go from sequences, to *)
(* the changes in a queue, to the changes on a stack, to Flow, which is    *)
(* NothingLost for one slave; then every action gets a lemma of its own.   *)
(* What a collision or a revert computes plays no part and stays unexpanded.*)
(***************************************************************************)
EXTENDS CollabSession, TLAPS, SequenceTheorems
----------------------------------------------------------------------------
(* A sequence is one over the set of its own elements, so that the facts of *)
(* SequenceTheorems apply to queues whose packets are not typed.           *)
LEMMA IsSeqInSeq ==
  ASSUME NEW c, IsSeq(c) PROVE c \in Seq({c[i] : i \in 1..Len(c)})
  BY DEF IsSeq

(* Every member of Seq(S) is a sequence in the sense of IsSeq.             *)
LEMMA SeqIsSeq ==
  ASSUME NEW S, NEW c \in Seq(S) PROVE IsSeq(c) 
  BY DEF IsSeq

(* Append adds one element at the end and keeps the others.                *)
LEMMA AppendIsSeq ==
  ASSUME NEW c, IsSeq(c), NEW m
  PROVE  /\ IsSeq(Append(c, m)) /\ Len(Append(c, m)) = Len(c) + 1
         /\ \A i \in 1..Len(c) : Append(c, m)[i] = c[i]
         /\ Append(c, m)[Len(c) + 1] = m
<1> DEFINE S == {c[i] : i \in 1..Len(c)}
           T == S \cup {m}
<1>1. c \in Seq(S)
  BY IsSeqInSeq
<1>2. m \in T /\ S \subseteq T
  OBVIOUS
<1> HIDE DEF S, T
<1>3. c \in Seq(T)
  BY <1>1, <1>2, SeqMonotonic, Zenon
<1>4. Append(c, m) \in Seq(T)
  BY <1>2, <1>3, AppendProperties, Zenon
<1>5. IsSeq(Append(c, m))
  BY <1>4, SeqIsSeq
<1>6. /\ Len(Append(c, m)) = Len(c) + 1
      /\ \A i \in 1..Len(c) : Append(c, m)[i] = c[i]
      /\ Append(c, m)[Len(c) + 1] = m
  BY <1>2, <1>3, AppendProperties
<1> QED BY <1>5, <1>6

(* Tail drops the first element and moves the others down by one.          *)
LEMMA TailIsSeq ==
  ASSUME NEW c, IsSeq(c), c # <<>>
  PROVE  /\ IsSeq(Tail(c)) /\ Len(Tail(c)) = Len(c) - 1 /\ Len(c) \in Nat /\ Len(c) >= 1
         /\ \A i \in 1..(Len(c) - 1) : Tail(c)[i] = c[i + 1]
         /\ Head(c) = c[1]
<1> DEFINE S == {c[i] : i \in 1..Len(c)}
<1>1. c \in Seq(S)
  BY IsSeqInSeq
<1> HIDE DEF S
<1>2. /\ Tail(c) \in Seq(S) /\ Len(Tail(c)) = Len(c) - 1
      /\ \A i \in 1..Len(Tail(c)) : Tail(c)[i] = c[i + 1]
  BY <1>1, HeadTailProperties, Zenon
<1>3. Len(c) \in Nat /\ Len(c) >= 1
  BY <1>1, EmptySeq
<1>4. Head(c) = c[1]
  OBVIOUS
<1> QED BY <1>2, <1>3, <1>4, SeqIsSeq
----------------------------------------------------------------------------
(* A queue without packets of a type has none after another type is sent ... *)
LEMMA NoTypeAppend ==
  ASSUME NEW c, IsSeq(c), NEW type, NoType(c, type), NEW m, m.type # type
  PROVE  NoType(Append(c, m), type)
  BY AppendIsSeq DEF NoType, IsSeq

(* ... and none after a packet is received.                                *)
LEMMA NoTypeTail ==
  ASSUME NEW c, IsSeq(c), c # <<>>, NEW type, NoType(c, type)
  PROVE  NoType(Tail(c), type)
  BY TailIsSeq DEF NoType, IsSeq

(* The numbers of the changes of a queue.                                  *)
LEMMA ChangesAre ==
  ASSUME NEW c, IsSeq(c)
  PROVE  /\ Changes(c) = {i \in 1..Len(c) : c[i].type = "change"}
         /\ Changes(c) \subseteq Nat
  BY DEF Changes, IsSeq

(* Sending a change newer than all on their way (push).                    *)
LEMMA AppendChange ==
  ASSUME NEW c, IsSeq(c), InOrder(c), NEW m, m.type = "change",
         \A r \in RevsIn(c) : r < m.rev
  PROVE  RevsIn(Append(c, m)) = RevsIn(c) \cup {m.rev} /\ InOrder(Append(c, m))
<1> DEFINE n == Len(c)
           d == Append(c, m)
<1>1. /\ IsSeq(d) /\ Len(d) = n + 1 /\ n \in Nat
      /\ \A i \in 1..n : d[i] = c[i]
      /\ d[n + 1] = m
  BY AppendIsSeq DEF IsSeq
<1>2. Changes(c) = {i \in 1..n : c[i].type = "change"}
  BY ChangesAre
<1>3. Changes(d) = {i \in 1..(n + 1) : d[i].type = "change"}
  BY <1>1, ChangesAre
<1> HIDE DEF n, d
<1>4. Changes(d) = Changes(c) \cup {n + 1}
  BY <1>1, <1>2, <1>3
<1>5. RevsIn(d) = RevsIn(c) \cup {m.rev}
  BY <1>1, <1>2, <1>4 DEF RevsIn
<1>6. InOrder(d)
  <2> SUFFICES ASSUME NEW i \in Changes(d), NEW j \in Changes(d), i < j
               PROVE  d[i].rev < d[j].rev
    BY DEF InOrder
  <2>1. i \in Changes(c)
    BY <1>1, <1>2, <1>4
  <2>2. CASE j \in Changes(c)
    BY <1>1, <1>2, <2>1, <2>2 DEF InOrder
  <2>3. CASE j = n + 1
    BY <1>1, <1>2, <2>1, <2>3 DEF RevsIn
  <2> QED BY <1>4, <2>2, <2>3
<1> QED BY <1>5, <1>6 DEF d

(* Sending a packet that is no change.                                     *)
LEMMA AppendOther ==
  ASSUME NEW c, IsSeq(c), InOrder(c), NEW m, m.type # "change"
  PROVE  RevsIn(Append(c, m)) = RevsIn(c) /\ InOrder(Append(c, m))
<1> DEFINE n == Len(c)
           d == Append(c, m)
<1>1. /\ IsSeq(d) /\ Len(d) = n + 1 /\ n \in Nat
      /\ \A i \in 1..n : d[i] = c[i]
      /\ d[n + 1] = m
  BY AppendIsSeq DEF IsSeq
<1>2. Changes(c) = {i \in 1..n : c[i].type = "change"}
  BY ChangesAre
<1>3. Changes(d) = {i \in 1..(n + 1) : d[i].type = "change"}
  BY <1>1, ChangesAre
<1> HIDE DEF n, d
<1>4. Changes(d) = Changes(c)
  BY <1>1, <1>2, <1>3
<1>5. \A i \in Changes(c) : d[i] = c[i]
  BY <1>1, <1>2
<1>6. RevsIn(d) = RevsIn(c)
  BY <1>4, <1>5 DEF RevsIn
<1>7. InOrder(d)
  BY <1>4, <1>5 DEF InOrder
<1> QED BY <1>6, <1>7 DEF d

(* Receiving a packet that is no change.                                   *)
LEMMA TakeOther ==
  ASSUME NEW c, IsSeq(c), InOrder(c), c # <<>>, Head(c).type # "change"
  PROVE  RevsIn(Tail(c)) = RevsIn(c) /\ InOrder(Tail(c))
<1> DEFINE n == Len(c)
           d == Tail(c)
<1>1. /\ IsSeq(d) /\ Len(d) = n - 1 /\ n \in Nat /\ n >= 1
      /\ \A i \in 1..(n - 1) : d[i] = c[i + 1]
      /\ c[1].type # "change"
  BY TailIsSeq
<1>2. Changes(c) = {i \in 1..n : c[i].type = "change"}
  BY ChangesAre
<1>3. Changes(d) = {i \in 1..(n - 1) : d[i].type = "change"}
  BY <1>1, ChangesAre
<1> HIDE DEF n, d
<1>4. \A i \in Changes(d) : i + 1 \in Changes(c) /\ d[i] = c[i + 1]
  BY <1>1, <1>2, <1>3
<1>5. \A i \in Changes(c) : i - 1 \in Changes(d) /\ c[i] = d[i - 1]
  BY <1>1, <1>2, <1>3
<1>6. RevsIn(d) = RevsIn(c)
  BY <1>4, <1>5 DEF RevsIn
<1>7. InOrder(d)
  <2> SUFFICES ASSUME NEW i \in Changes(d), NEW j \in Changes(d), i < j
               PROVE  d[i].rev < d[j].rev
    BY DEF InOrder
  <2>1. i + 1 < j + 1
    BY <1>1, <1>3
  <2> QED BY <1>4, <2>1 DEF InOrder
<1> QED BY <1>6, <1>7 DEF d

(* Receiving a change: it is the oldest on its way.                        *)
LEMMA TakeChange ==
  ASSUME NEW c, IsSeq(c), InOrder(c), RevsIn(c) \subseteq Nat, c # <<>>, Head(c).type = "change"
  PROVE  /\ Head(c).rev \in RevsIn(c)
         /\ RevsIn(Tail(c)) = {r \in RevsIn(c) : r > Head(c).rev}
         /\ \A r \in RevsIn(c) : r = Head(c).rev \/ r > Head(c).rev
         /\ InOrder(Tail(c))
<1> DEFINE n == Len(c)
           d == Tail(c)
           h == Head(c)
<1>1. /\ IsSeq(d) /\ Len(d) = n - 1 /\ n \in Nat /\ n >= 1
      /\ \A i \in 1..(n - 1) : d[i] = c[i + 1]
      /\ c[1] = h /\ h.type = "change"
  BY TailIsSeq
<1>2. Changes(c) = {i \in 1..n : c[i].type = "change"}
  BY ChangesAre
<1>3. Changes(d) = {i \in 1..(n - 1) : d[i].type = "change"}
  BY <1>1, ChangesAre
<1> HIDE DEF n, d, h
<1>4. \A i \in Changes(d) : i + 1 \in Changes(c) /\ i + 1 > 1 /\ d[i] = c[i + 1]
  BY <1>1, <1>2, <1>3
<1>5. \A i \in Changes(c) : i = 1 \/ (i - 1 \in Changes(d) /\ c[i] = d[i - 1])
  BY <1>1, <1>2, <1>3
<1>6. 1 \in Changes(c)
  BY <1>1, <1>2
<1>7. \A i \in Changes(c) : i # 1 => c[i].rev > h.rev
  <2> SUFFICES ASSUME NEW i \in Changes(c), i # 1 PROVE c[i].rev > h.rev
    OBVIOUS
  <2>1. 1 < i
    BY <1>2
  <2>2. c[1].rev < c[i].rev
    BY <1>6, <2>1 DEF InOrder
  <2>3. c[1].rev \in Nat /\ c[i].rev \in Nat
    BY <1>6 DEF RevsIn
  <2> QED BY <1>1, <2>2, <2>3
<1>8. h.rev \in RevsIn(c) /\ \A r \in RevsIn(c) : r = h.rev \/ r > h.rev
  BY <1>1, <1>6, <1>7 DEF RevsIn
<1>9. \A r \in RevsIn(d) : r \in RevsIn(c) /\ r > h.rev
  <2>1. SUFFICES ASSUME NEW i \in Changes(d) PROVE d[i].rev \in RevsIn(c) /\ d[i].rev > h.rev
    BY DEF RevsIn
  <2>2. i + 1 \in Changes(c) /\ i + 1 # 1 /\ d[i] = c[i + 1]
    BY <1>3, <1>4
  <2> QED BY <1>7, <2>2 DEF RevsIn
<1>10. \A r \in RevsIn(c) : r > h.rev => r \in RevsIn(d)
  <2>1. SUFFICES ASSUME NEW i \in Changes(c), c[i].rev > h.rev PROVE c[i].rev \in RevsIn(d)
    BY DEF RevsIn
  <2>2. i # 1
    BY <1>1, <1>8, <2>1
  <2> QED BY <1>5, <2>2 DEF RevsIn
<1>11. InOrder(d)
  <2> SUFFICES ASSUME NEW i \in Changes(d), NEW j \in Changes(d), i < j
               PROVE  d[i].rev < d[j].rev
    BY DEF InOrder
  <2>1. i + 1 < j + 1
    BY <1>1, <1>3
  <2> QED BY <1>4, <2>1 DEF InOrder
<1> QED BY <1>8, <1>9, <1>10, <1>11 DEF d, h
----------------------------------------------------------------------------
(* A new entry on a stack counts for everyone but its origin.              *)
LEMMA NewerAppend ==
  ASSUME NEW stack, IsSeq(stack), NEW e, NEW s, NEW seen
  PROVE  /\ e.origin # s /\ e.rev > seen =>
              Newer(Append(stack, e), s, seen) = Newer(stack, s, seen) \cup {e.rev}
         /\ e.origin = s => Newer(Append(stack, e), s, seen) = Newer(stack, s, seen)
<1> DEFINE n == Len(stack)
           t == Append(stack, e)
<1>1. /\ IsSeq(t) /\ Len(t) = n + 1 /\ n \in Nat
      /\ \A i \in 1..n : t[i] = stack[i]
      /\ t[n + 1] = e
  BY AppendIsSeq DEF IsSeq
<1>2. DOMAIN stack = 1..n /\ DOMAIN t = 1..(n + 1)
  BY <1>1 DEF IsSeq
<1> HIDE DEF n, t
<1>3. DOMAIN t = DOMAIN stack \cup {n + 1} /\ \A i \in DOMAIN stack : t[i] = stack[i]
  BY <1>1, <1>2
<1> QED BY <1>1, <1>3 DEF Newer, t

(* The newer revisions of a stack lie between what was seen and its top.   *)
LEMMA NewerBounds ==
  ASSUME NEW stack, NEW top, StackOK(stack, top), NEW s, NEW seen \in Nat
  PROVE  \A r \in Newer(stack, s, seen) : r \in Nat /\ r <= top /\ r > seen
  BY DEF Newer, StackOK, IsSeq

(* Having seen more leaves fewer newer entries.                            *)
LEMMA NewerLater ==
  ASSUME NEW stack, NEW top, StackOK(stack, top), NEW s, NEW seen \in Nat, NEW later \in Nat,
         seen <= later
  PROVE  Newer(stack, s, later) = {r \in Newer(stack, s, seen) : r > later}
<1>1. \A i \in DOMAIN stack : stack[i].rev \in Nat
  BY DEF StackOK, IsSeq
<1> QED BY <1>1 DEF Newer

(* A stack stays ordered below the revision of its document when that grows *)
(* with the entry.                                                         *)
LEMMA StackPushed ==
  ASSUME NEW stack, NEW top, StackOK(stack, top), NEW e, e.rev = top + 1
  PROVE  StackOK(Append(stack, e), top + 1)
<1>1. /\ IsSeq(Append(stack, e)) /\ Len(Append(stack, e)) = Len(stack) + 1
      /\ Len(stack) \in Nat
      /\ \A i \in 1..Len(stack) : Append(stack, e)[i] = stack[i]
      /\ Append(stack, e)[Len(stack) + 1] = e
  BY AppendIsSeq DEF StackOK, IsSeq
<1>2. \A i \in 1..(Len(stack) + 1) : i \in 1..Len(stack) \/ i = Len(stack) + 1
  BY <1>1
<1> QED BY <1>1, <1>2 DEF StackOK

(* What waits first in a queue decides what was seen, and sending keeps it. *)
LEMMA SeenAppend ==
  ASSUME NEW c, IsSeq(c), NEW m, m.type # "joinResponse", NEW seen
  PROVE  SeenUpTo(Append(c, m), seen) = SeenUpTo(c, seen)
<1>1. CASE c = <<>>
  BY <1>1 DEF SeenUpTo
<1>2. CASE c # <<>>
  <2>1. Len(c) \in Nat /\ Len(c) >= 1
    BY <1>2, TailIsSeq
  <2>2. Append(c, m)[1] = c[1] /\ Len(Append(c, m)) = Len(c) + 1 /\ IsSeq(Append(c, m))
    BY <2>1, AppendIsSeq
  <2>3. Append(c, m) # <<>>
    BY <2>1, <2>2
  <2> QED BY <1>2, <2>2, <2>3 DEF SeenUpTo
<1> QED BY <1>1, <1>2

(* Without an answer to a join, what was seen is what was imported.        *)
LEMMA SeenNoAnswer ==
  ASSUME NEW c, IsSeq(c), NoType(c, "joinResponse"), NEW seen
  PROVE  SeenUpTo(c, seen) = seen
  BY TailIsSeq DEF SeenUpTo, NoType

(* The master takes a change onto its stack and pushes it to s: nothing lost. *)
LEMMA FlowPushed ==
  ASSUME NEW c, IsSeq(c), NEW stack, NEW top, StackOK(stack, top), NEW s, NEW seen,
         Flow(c, stack, s, seen, top),
         NEW m, m.type = "change", m.rev = top + 1,
         NEW e, e.rev = top + 1, e.origin # s
  PROVE  Flow(Append(c, m), Append(stack, e), s, seen, top + 1)
<1> DEFINE upto == SeenUpTo(c, seen)
<1>1. /\ upto \in Nat /\ upto <= top /\ top \in Nat /\ IsSeq(stack)
      /\ RevsIn(c) = Newer(stack, s, upto) /\ InOrder(c)
  BY DEF Flow, StackOK
<1>2. SeenUpTo(Append(c, m), seen) = upto
  BY SeenAppend
<1> HIDE DEF upto
<1>3. \A r \in RevsIn(c) : r < m.rev
  BY <1>1, NewerBounds
<1>4. RevsIn(Append(c, m)) = RevsIn(c) \cup {top + 1} /\ InOrder(Append(c, m))
  BY <1>1, <1>3, AppendChange
<1>5. top + 1 > upto
  BY <1>1
<1>6. Newer(Append(stack, e), s, upto) = Newer(stack, s, upto) \cup {top + 1}
  BY <1>1, <1>5, NewerAppend
<1> QED BY <1>1, <1>2, <1>4, <1>6 DEF Flow

(* The master takes a change of s itself onto its stack: none is pushed to s. *)
LEMMA FlowOwn ==
  ASSUME NEW c, NEW stack, NEW top, StackOK(stack, top), NEW s, NEW seen,
         Flow(c, stack, s, seen, top),
         NEW e, e.origin = s
  PROVE  Flow(c, Append(stack, e), s, seen, top + 1)
<1>1. Newer(Append(stack, e), s, SeenUpTo(c, seen)) = Newer(stack, s, SeenUpTo(c, seen))
  BY NewerAppend DEF StackOK
<1>2. SeenUpTo(c, seen) \in Nat /\ SeenUpTo(c, seen) <= top + 1
  BY DEF Flow, StackOK
<1> QED BY <1>1, <1>2 DEF Flow

(* A refusal to s is no change.                                            *)
LEMMA FlowAppendOther ==
  ASSUME NEW c, IsSeq(c), NEW stack, NEW top, NEW s, NEW seen,
         Flow(c, stack, s, seen, top),
         NEW m, m.type \notin {"change", "joinResponse"}
  PROVE  Flow(Append(c, m), stack, s, seen, top)
  BY AppendOther, SeenAppend DEF Flow

(* Slave s imports a change, and has then seen its revision.               *)
LEMMA FlowTakeChange ==
  ASSUME NEW c, IsSeq(c), NEW stack, NEW top, StackOK(stack, top), NEW s, NEW seen,
         Flow(c, stack, s, seen, top), NoType(c, "joinResponse"),
         c # <<>>, Head(c).type = "change"
  PROVE  Flow(Tail(c), stack, s, Head(c).rev, top)
<1> DEFINE h == Head(c).rev
<1>1. /\ seen \in Nat /\ RevsIn(c) = Newer(stack, s, seen) /\ InOrder(c)
  BY SeenNoAnswer DEF Flow
<1>2. \A r \in RevsIn(c) : r \in Nat /\ r <= top /\ r > seen
  BY <1>1, NewerBounds
<1>3. /\ h \in RevsIn(c) /\ InOrder(Tail(c))
      /\ RevsIn(Tail(c)) = {r \in RevsIn(c) : r > h}
  BY <1>1, <1>2, TakeChange
<1>4. SeenUpTo(Tail(c), h) = h
  BY NoTypeTail, TailIsSeq, SeenNoAnswer
<1> HIDE DEF h
<1>5. h \in Nat /\ seen <= h /\ h <= top
  BY <1>1, <1>2, <1>3
<1>6. Newer(stack, s, h) = {r \in Newer(stack, s, seen) : r > h}
  BY <1>1, <1>5, NewerLater
<1>7. Flow(Tail(c), stack, s, h, top)
  BY <1>1, <1>3, <1>4, <1>5, <1>6 DEF Flow
<1> QED BY <1>7 DEF h

(* Slave s takes a refusal.                                                *)
LEMMA FlowTakeOther ==
  ASSUME NEW c, IsSeq(c), NEW stack, NEW top, NEW s, NEW seen,
         Flow(c, stack, s, seen, top), NoType(c, "joinResponse"),
         c # <<>>, Head(c).type # "change"
  PROVE  Flow(Tail(c), stack, s, seen, top)
<1>1. SeenUpTo(c, seen) = seen
  BY SeenNoAnswer
<1>2. SeenUpTo(Tail(c), seen) = seen
  BY NoTypeTail, TailIsSeq, SeenNoAnswer
<1> QED BY <1>1, <1>2, TakeOther DEF Flow

(* Slave s takes the answer to its join, and has then seen its revision.   *)
LEMMA FlowTakeAnswer ==
  ASSUME NEW c, IsSeq(c), NEW stack, NEW top, NEW s, NEW seen,
         Flow(c, stack, s, seen, top), NoType(Tail(c), "joinResponse"),
         c # <<>>, Head(c).type = "joinResponse"
  PROVE  Flow(Tail(c), stack, s, Head(c).rev, top)
<1>1. SeenUpTo(c, seen) = Head(c).rev
  BY TailIsSeq DEF SeenUpTo
<1>2. SeenUpTo(Tail(c), Head(c).rev) = Head(c).rev
  BY TailIsSeq, SeenNoAnswer
<1> QED BY <1>1, <1>2, TakeOther DEF Flow

(* The answer to a join starts a queue that misses nothing.                *)
LEMMA FlowStart ==
  ASSUME NEW stack, NEW top, StackOK(stack, top), NEW s, NEW seen,
         NEW m, m.type = "joinResponse", m.rev = top
  PROVE  Flow(Append(<<>>, m), stack, s, seen, top)
<1>1. Append(<<>>, m) # <<>> /\ Append(<<>>, m)[1] = m
  OBVIOUS
<1>2. SeenUpTo(Append(<<>>, m), seen) = top /\ top \in Nat
  BY <1>1 DEF SeenUpTo, StackOK
<1>3. IsSeq(<<>>) /\ InOrder(<<>>) /\ RevsIn(<<>>) = {}
  BY DEF IsSeq, InOrder, RevsIn, Changes
<1>4. RevsIn(Append(<<>>, m)) = {} /\ InOrder(Append(<<>>, m))
  BY <1>3, AppendOther
<1>5. \A r \in Newer(stack, s, top) : r \in Nat /\ r <= top /\ r > top
  BY <1>2, NewerBounds
<1>6. Newer(stack, s, top) = {}
  BY <1>2, <1>5
<1> QED BY <1>2, <1>4, <1>6 DEF Flow
----------------------------------------------------------------------------
(* SendTo reaches one queue.                                               *)
LEMMA SendNet ==
  ASSUME NEW c, Net(c), NEW p \in Peers, NEW q \in Peers, NEW m
  PROVE  /\ Net(SendTo(c, p, q, m))
         /\ SendTo(c, p, q, m)[p][q] = Append(c[p][q], m)
         /\ \A a, b \in Peers : ~(a = p /\ b = q) => SendTo(c, p, q, m)[a][b] = c[a][b]
<1> DEFINE d == SendTo(c, p, q, m)
<1>1. /\ DOMAIN d = Peers /\ \A a \in Peers : DOMAIN d[a] = Peers
      /\ d[p][q] = Append(c[p][q], m)
      /\ \A a, b \in Peers : ~(a = p /\ b = q) => d[a][b] = c[a][b]
  BY DEF SendTo, Net
<1>2. IsSeq(Append(c[p][q], m))
  BY AppendIsSeq DEF Net
<1> HIDE DEF d
<1>3. Net(d)
  BY <1>1, <1>2 DEF Net
<1> QED BY <1>1, <1>3 DEF d

(* Received shortens one queue.                                            *)
LEMMA ReceiveNet ==
  ASSUME NEW c, Net(c), NEW p \in Peers, NEW q \in Peers, c[p][q] # <<>>
  PROVE  /\ Net(Received(c, p, q))
         /\ Received(c, p, q)[p][q] = Tail(c[p][q])
         /\ \A a, b \in Peers : ~(a = p /\ b = q) => Received(c, p, q)[a][b] = c[a][b]
<1> DEFINE d == Received(c, p, q)
<1>1. /\ DOMAIN d = Peers /\ \A a \in Peers : DOMAIN d[a] = Peers
      /\ d[p][q] = Tail(c[p][q])
      /\ \A a, b \in Peers : ~(a = p /\ b = q) => d[a][b] = c[a][b]
  BY DEF Received, Net
<1>2. IsSeq(Tail(c[p][q]))
  BY TailIsSeq DEF Net
<1> HIDE DEF d
<1>3. Net(d)
  BY <1>1, <1>2 DEF Net
<1> QED BY <1>1, <1>3 DEF d

(* PushTo puts a change of the revision on the queue to every target.      *)
LEMMA PushNet ==
  ASSUME NEW c, Net(c), NEW p \in Peers, NEW targets, NEW kind, NEW pos, NEW len, NEW toks, NEW rev
  PROVE  /\ Net(PushTo(c, p, targets, kind, pos, len, toks, rev))
         /\ \A a, b \in Peers : ~(a = p /\ b \in targets) =>
              PushTo(c, p, targets, kind, pos, len, toks, rev)[a][b] = c[a][b]
         /\ \A b \in Peers : b \in targets => \E m :
              /\ m.type = "change" /\ m.rev = rev
              /\ PushTo(c, p, targets, kind, pos, len, toks, rev)[p][b] = Append(c[p][b], m)
<1> DEFINE d == PushTo(c, p, targets, kind, pos, len, toks, rev)
           m(b) == ChangePacket(kind, pos, len, toks, rev, remoteRevs[p][b])
<1>1. /\ DOMAIN d = Peers /\ \A a \in Peers : DOMAIN d[a] = Peers
      /\ \A b \in Peers : b \in targets => d[p][b] = Append(c[p][b], m(b))
      /\ \A a, b \in Peers : ~(a = p /\ b \in targets) => d[a][b] = c[a][b]
  BY DEF PushTo, Net
<1>2. \A b : m(b).type = "change" /\ m(b).rev = rev
  BY DEF ChangePacket
<1>3. \A b \in Peers : IsSeq(Append(c[p][b], m(b)))
  BY AppendIsSeq DEF Net
<1> HIDE DEF d, m
<1>4. Net(d)
  BY <1>1, <1>3 DEF Net
<1>5. \A b \in Peers : b \in targets => \E x :
        x.type = "change" /\ x.rev = rev /\ d[p][b] = Append(c[p][b], x)
  BY <1>1, <1>2
<1> QED BY <1>1, <1>4, <1>5 DEF d
----------------------------------------------------------------------------
(* Sending into a queue that is not empty and receiving commute.           *)
LEMMA TailAppend ==
  ASSUME NEW c, IsSeq(c), c # <<>>, NEW m
  PROVE  Tail(Append(c, m)) = Append(Tail(c), m)
<1>1. c \in Seq({c[i] : i \in 1..Len(c)})
  BY IsSeqInSeq
<1> QED BY <1>1, HeadTailAppend

(* Only a slave in the session gets packets other than the answer.         *)
LEMMA ToSlave ==
  ASSUME NEW s \in Slaves, SlaveInv(s), Net(chan), NEW type,
         HeadIs(Master, s, type), type # "joinResponse"
  PROVE  /\ phase[s] = "in" /\ s \in members
         /\ NoType(chan[s][Master], "joinRequest") /\ NoType(chan[Master][s], "joinResponse")
<1>1. chan[Master][s] # <<>> /\ Head(chan[Master][s]) = chan[Master][s][1]
  BY TailIsSeq DEF HeadIs, Net, Peers
<1> QED BY <1>1 DEF SlaveInv, JoinStage, Answered, HeadIs

(* The answer finds a slave that waits for it, and no other follows.       *)
LEMMA AnswerToSlave ==
  ASSUME NEW s \in Slaves, SlaveInv(s), Net(chan), HeadIs(Master, s, "joinResponse")
  PROVE  /\ phase[s] = "joining" /\ s \in members /\ chan[s][Master] = <<>>
         /\ NoType(Tail(chan[Master][s]), "joinResponse")
<1>1. /\ chan[Master][s] # <<>> /\ Head(chan[Master][s]) = chan[Master][s][1]
      /\ 1 \in 1..Len(chan[Master][s])
  BY TailIsSeq DEF HeadIs, Net, Peers
<1> QED BY <1>1 DEF SlaveInv, JoinStage, Answered, HeadIs, NoType

(* Only a slave in the session sends packets other than the request.       *)
LEMMA ToMaster ==
  ASSUME NEW s \in Slaves, SlaveInv(s), Net(chan), NEW type,
         HeadIs(s, Master, type), type # "joinRequest"
  PROVE  /\ phase[s] = "in" /\ s \in members
         /\ NoType(chan[s][Master], "joinRequest") /\ NoType(chan[Master][s], "joinResponse")
  BY DEF SlaveInv, JoinStage, HeadIs, JoinRequest

(* The request is alone in its queue, and nothing was sent to its sender yet. *)
LEMMA RequestToMaster ==
  ASSUME NEW s \in Slaves, SlaveInv(s), Net(chan), HeadIs(s, Master, "joinRequest")
  PROVE  /\ phase[s] = "joining" /\ s \notin members
         /\ chan[s][Master] = <<JoinRequest>> /\ chan[Master][s] = <<>>
<1>1. /\ chan[s][Master] # <<>> /\ Head(chan[s][Master]) = chan[s][Master][1]
      /\ 1 \in 1..Len(chan[s][Master])
  BY TailIsSeq DEF HeadIs, Net, Peers
<1> QED BY <1>1 DEF SlaveInv, JoinStage, HeadIs, NoType

(* The step touches nothing that the invariant of slave t is about but the
   stack and the revision of the master. *)
Untouched(t) ==
  /\ chan'[t][Master] = chan[t][Master] /\ chan'[Master][t] = chan[Master][t]
  /\ phase'[t] = phase[t] /\ (t \in members' <=> t \in members)
  /\ remoteRevs'[t][Master] = remoteRevs[t][Master]

(* The invariant of a slave that a step does not touch.                    *)
LEMMA UntouchedInv ==
  ASSUME NEW t \in Slaves, SlaveInv(t), Untouched(t),
         adjusts'[Master] = adjusts[Master], crn'[Master] = crn[Master]
  PROVE  SlaveInv(t)'
  BY DEF SlaveInv, JoinStage, Untouched, Answered

(* The master puts e on its stack, and t hears of it if it has to. *)
Hears(t, e) ==
  \/ t \notin members /\ chan'[Master][t] = chan[Master][t]
  \/ t \in members /\ e.origin = t /\ chan'[Master][t] = chan[Master][t]
  \/ /\ t \in members /\ e.origin # t
     /\ \E m : /\ m.type = "change" /\ m.rev = crn[Master] + 1
               /\ chan'[Master][t] = Append(chan[Master][t], m)

(* A slave hears of the revision the master puts on its stack: its queue ... *)
LEMMA HearsFlow ==
  ASSUME NEW t \in Slaves, SlaveInv(t), Net(chan), StackOK(adjusts[Master], crn[Master]),
         NEW e, e.rev = crn[Master] + 1, Hears(t, e), t \in members
  PROVE  Flow(chan'[Master][t], Append(adjusts[Master], e), t, remoteRevs[t][Master], crn[Master] + 1)
<1>1. IsSeq(chan[Master][t])
  BY DEF Net, Peers
<1>2. Flow(chan[Master][t], adjusts[Master], t, remoteRevs[t][Master], crn[Master])
  BY DEF SlaveInv
<1>3. CASE e.origin = t
  BY <1>1, <1>2, <1>3, FlowOwn DEF Hears
<1>4. CASE e.origin # t
  <2>1. PICK m : /\ m.type = "change" /\ m.rev = crn[Master] + 1
                 /\ chan'[Master][t] = Append(chan[Master][t], m)
    BY <1>4 DEF Hears
  <2> QED BY <1>1, <1>2, <1>4, <2>1, FlowPushed
<1> QED BY <1>3, <1>4

(* ... its stage ...                                                       *)
LEMMA HearsStage ==
  ASSUME NEW t \in Slaves, SlaveInv(t), Net(chan), NEW e, Hears(t, e),
         chan'[t][Master] = chan[t][Master], phase'[t] = phase[t],
         t \in members' <=> t \in members
  PROVE  JoinStage(t)'
<1>1. IsSeq(chan[Master][t])
  BY DEF Net, Peers
<1>2. CASE chan'[Master][t] = chan[Master][t]
  BY <1>2 DEF SlaveInv, JoinStage, Answered
<1>3. CASE chan'[Master][t] # chan[Master][t]
  <2>1. PICK m : /\ m.type = "change" /\ chan'[Master][t] = Append(chan[Master][t], m)
    BY <1>3 DEF Hears
  <2>2. t \in members
    BY <1>3 DEF Hears
  <2>3. CASE phase[t] = "in"
    <3>1. NoType(chan[Master][t], "joinResponse")
      BY <2>2, <2>3 DEF SlaveInv, JoinStage
    <3>2. NoType(chan'[Master][t], "joinResponse")
      BY <1>1, <2>1, <3>1, NoTypeAppend
    <3> QED BY <2>2, <2>3, <3>2 DEF SlaveInv, JoinStage
  <2>4. CASE phase[t] # "in"
    <3>1. /\ phase[t] = "joining" /\ chan[t][Master] = <<>> /\ Answered(t)
          /\ NoType(Tail(chan[Master][t]), "joinResponse")
      BY <2>2, <2>4 DEF SlaveInv, JoinStage
    <3>2. chan[Master][t] # <<>> /\ IsSeq(Tail(chan[Master][t]))
      BY <1>1, <3>1, TailIsSeq DEF Answered
    <3>3. NoType(Tail(chan'[Master][t]), "joinResponse")
      <4>1. NoType(Append(Tail(chan[Master][t]), m), "joinResponse")
        BY <2>1, <3>1, <3>2, NoTypeAppend
      <4>2. Tail(Append(chan[Master][t], m)) = Append(Tail(chan[Master][t]), m)
        BY <1>1, <3>2, TailAppend
      <4> QED BY <2>1, <4>1, <4>2
    <3>4. /\ Len(chan[Master][t]) >= 1 /\ Len(chan[Master][t]) \in Nat
          /\ Len(chan'[Master][t]) = Len(chan[Master][t]) + 1
          /\ chan'[Master][t][1] = chan[Master][t][1]
      BY <1>1, <2>1, <3>2, TailIsSeq, AppendIsSeq
    <3>5. Answered(t)'
      BY <3>1, <3>4 DEF Answered
    <3> QED BY <2>2, <3>1, <3>3, <3>5 DEF JoinStage
  <2> QED BY <2>3, <2>4
<1> QED BY <1>2, <1>3

(* ... and its invariant.                                                  *)
LEMMA HearsInv ==
  ASSUME NEW t \in Slaves, SlaveInv(t), Net(chan), StackOK(adjusts[Master], crn[Master]),
         NEW e, e.rev = crn[Master] + 1, Hears(t, e),
         adjusts'[Master] = Append(adjusts[Master], e), crn'[Master] = crn[Master] + 1,
         chan'[t][Master] = chan[t][Master], phase'[t] = phase[t],
         t \in members' <=> t \in members, remoteRevs'[t][Master] = remoteRevs[t][Master]
  PROVE  SlaveInv(t)'
<1>1. JoinStage(t)'
  BY HearsStage
<1>2. t \in members =>
        Flow(chan'[Master][t], adjusts'[Master], t, remoteRevs'[t][Master], crn'[Master])
  BY HearsFlow
<1> QED BY <1>1, <1>2 DEF SlaveInv
----------------------------------------------------------------------------
(* The initial states satisfy the invariant.                               *)
LEMMA StartIInv == Init => IInv
<1> SUFFICES ASSUME Init PROVE IInv
  OBVIOUS
<1>1. /\ DOMAIN crn = Peers /\ DOMAIN adjusts = Peers
      /\ DOMAIN remoteRevs = Peers /\ \A p \in Peers : DOMAIN remoteRevs[p] = Peers
      /\ DOMAIN phase = Slaves /\ members \subseteq Slaves
  BY EarlyAssumption DEF Init
<1>2. /\ Master \in Peers /\ Slaves \subseteq Peers /\ Master \notin Slaves
      /\ Master \notin EarlySlaves
  BY PeersAssumption, EarlyAssumption DEF Peers
<1>3. IsSeq(<<>>)
  BY DEF IsSeq
<1>4. Net(chan) /\ \A p, q \in Peers : chan[p][q] = <<>>
  BY <1>3 DEF Init, Net
<1>5. adjusts[Master] = <<>> /\ crn[Master] = 0
  BY <1>2 DEF Init
<1>6. StackOK(adjusts[Master], crn[Master])
  BY <1>3, <1>5 DEF StackOK
<1>7. ASSUME NEW s \in Slaves PROVE SlaveInv(s)
  <2>1. chan[Master][s] = <<>> /\ chan[s][Master] = <<>> /\ remoteRevs[s][Master] = 0
    BY <1>2, <1>4 DEF Init
  <2>2. JoinStage(s)
    <3>1. NoType(<<>>, "joinRequest") /\ NoType(<<>>, "joinResponse")
      BY DEF NoType
    <3>2. CASE s \in EarlySlaves
      <4>1. phase[s] = "in" /\ s \in members
        BY <3>2 DEF Init
      <4> QED BY <2>1, <3>1, <4>1 DEF JoinStage
    <3>3. CASE s \notin EarlySlaves
      <4>1. phase[s] = "out" /\ s \notin members
        BY <3>3 DEF Init
      <4> QED BY <2>1, <4>1 DEF JoinStage
    <3> QED BY <3>2, <3>3
  <2>3. RevsIn(<<>>) = {} /\ InOrder(<<>>) /\ Newer(<<>>, s, 0) = {} /\ SeenUpTo(<<>>, 0) = 0
    BY DEF RevsIn, InOrder, Changes, Newer, SeenUpTo
  <2>4. Flow(<<>>, <<>>, s, 0, 0)
    BY <2>3 DEF Flow
  <2> QED BY <1>5, <2>1, <2>2, <2>4 DEF SlaveInv
<1> QED BY <1>1, <1>4, <1>6, <1>7 DEF IInv

(* The master is not a slave.                                              *)
LEMMA PeersFacts ==
  /\ Master \in Peers /\ Slaves \subseteq Peers /\ Master \notin Slaves
  /\ \A p \in Peers : p = Master \/ p \in Slaves
  BY PeersAssumption DEF Peers

(* A change by the user of the master: pushed to all collaborators.        *)
LEMMA MasterEdit ==
  ASSUME IInv, NEW kind, NEW pos, NEW len, Edit(Master, kind, pos, len)
  PROVE  IInv'
<1> DEFINE e == ChangeAdjust(crn[Master] + 1, kind, pos, len, -1, Master)
<1> USE PeersFacts
<1>1. /\ Net(chan) /\ StackOK(adjusts[Master], crn[Master]) /\ members \subseteq Slaves
      /\ \A s \in Slaves : SlaveInv(s)
  BY DEF IInv
<1>2. PICK toks : chan' = PushTo(chan, Master, members, kind, pos, len, toks, crn[Master] + 1)
  BY Zenon DEF Edit, Export, Collaborators
<1>3. /\ adjusts' = [adjusts EXCEPT ![Master] = Append(@, e)]
      /\ crn' = [crn EXCEPT ![Master] = @ + 1]
      /\ UNCHANGED <<remoteRevs, members, phase>>
  BY DEF Edit, Export
<1>4. /\ adjusts'[Master] = Append(adjusts[Master], e) /\ crn'[Master] = crn[Master] + 1
      /\ DOMAIN adjusts' = Peers /\ DOMAIN crn' = Peers
  BY <1>3 DEF IInv
<1>5. e.rev = crn[Master] + 1 /\ e.origin = Master
  BY DEF ChangeAdjust
<1> HIDE DEF e
<1>6. StackOK(adjusts[Master], crn[Master])'
  BY <1>1, <1>4, <1>5, StackPushed
<1>7. /\ Net(chan)'
      /\ \A a, b \in Peers : ~(a = Master /\ b \in members) => chan'[a][b] = chan[a][b]
      /\ \A b \in Peers : b \in members => \E m :
           m.type = "change" /\ m.rev = crn[Master] + 1 /\ chan'[Master][b] = Append(chan[Master][b], m)
  BY <1>1, <1>2, PushNet
<1>8. ASSUME NEW t \in Slaves PROVE SlaveInv(t)'
  <2>1. Hears(t, e)
    BY <1>5, <1>7 DEF Hears
  <2>2. chan'[t][Master] = chan[t][Master]
    BY <1>7
  <2> QED BY <1>1, <1>3, <1>4, <1>5, <2>1, <2>2, HearsInv
<1> QED BY <1>3, <1>4, <1>6, <1>7, <1>8 DEF IInv

(* What a slave pushes goes to the master only.                            *)
LEMMA SlavePush ==
  ASSUME IInv, NEW s \in Slaves, phase[s] = "in",
         NEW kind, NEW pos, NEW len, NEW toks, Export(s, kind, pos, len, toks),
         crn'[Master] = crn[Master], DOMAIN crn' = Peers, UNCHANGED <<remoteRevs, members, phase>>
  PROVE  IInv'
<1> USE PeersFacts
<1>1. /\ Net(chan) /\ StackOK(adjusts[Master], crn[Master]) /\ members \subseteq Slaves
      /\ \A t \in Slaves : SlaveInv(t)
  BY DEF IInv
<1>2. chan' = PushTo(chan, s, {Master}, kind, pos, len, toks, crn[s] + 1)
  BY DEF Export, Collaborators
<1>3. /\ Net(chan)'
      /\ \A a, b \in Peers : ~(a = s /\ b \in {Master}) => chan'[a][b] = chan[a][b]
      /\ \E m : m.type = "change" /\ chan'[s][Master] = Append(chan[s][Master], m)
  BY <1>1, <1>2, PushNet
<1>4. /\ adjusts'[Master] = adjusts[Master] /\ crn'[Master] = crn[Master]
      /\ DOMAIN adjusts' = Peers /\ DOMAIN crn' = Peers
  BY DEF IInv, Export
<1>5. ASSUME NEW t \in Slaves, t # s PROVE SlaveInv(t)'
  <2>1. Untouched(t)
    BY <1>3, <1>5 DEF Untouched
  <2> QED BY <1>1, <1>4, <2>1, UntouchedInv
<1>6. SlaveInv(s)'
  <2>1. PICK m : m.type = "change" /\ chan'[s][Master] = Append(chan[s][Master], m)
    BY <1>3
  <2>2. /\ IsSeq(chan[s][Master]) /\ s \in members
        /\ NoType(chan[s][Master], "joinRequest") /\ NoType(chan[Master][s], "joinResponse")
    BY <1>1 DEF SlaveInv, JoinStage, Net
  <2>3. NoType(chan'[s][Master], "joinRequest")
    BY <2>1, <2>2, NoTypeAppend
  <2>4. chan'[Master][s] = chan[Master][s]
    BY <1>3
  <2> QED BY <1>1, <1>4, <2>2, <2>3, <2>4 DEF SlaveInv, JoinStage
<1> QED BY <1>1, <1>3, <1>4, <1>5, <1>6 DEF IInv

(* A change by the user of a slave.                                        *)
LEMMA SlaveEdit ==
  ASSUME IInv, NEW s \in Slaves, NEW kind, NEW pos, NEW len, Edit(s, kind, pos, len)
  PROVE  IInv'
<1> USE PeersFacts
<1>1. phase[s] = "in"
  BY DEF Edit, MayEdit, InSession
<1>2. \E toks : Export(s, kind, pos, len, toks)
  BY Zenon DEF Edit
<1>3. crn'[Master] = crn[Master] /\ DOMAIN crn' = Peers /\ UNCHANGED <<remoteRevs, members, phase>>
  BY DEF Edit, IInv
<1> QED BY <1>1, <1>2, <1>3, SlavePush

(* An undo or redo by the user of a slave: a change, or nothing is sent.   *)
LEMMA SlaveReplay ==
  ASSUME IInv, NEW s \in Slaves, phase[s] = "in", NEW u, NEW undo, Replay(s, u, undo)
  PROVE  IInv'
<1> USE PeersFacts
<1>1. \/ \E kind, pos, len, toks : Export(s, kind, pos, len, toks)
      \/ UNCHANGED <<chan, adjusts>>
  BY Zenon DEF Replay
<1>2. crn'[Master] = crn[Master] /\ DOMAIN crn' = Peers /\ UNCHANGED <<remoteRevs, members, phase>>
  BY DEF Replay, IInv
<1>3. CASE UNCHANGED <<chan, adjusts>>
  <2>1. ASSUME NEW t \in Slaves PROVE SlaveInv(t)'
    <3>1. Untouched(t)
      BY <1>2, <1>3 DEF Untouched
    <3>2. SlaveInv(t) /\ adjusts'[Master] = adjusts[Master]
      BY <1>3 DEF IInv
    <3> QED BY <1>2, <3>1, <3>2, UntouchedInv
  <2> QED BY <1>2, <1>3, <2>1 DEF IInv
<1> QED BY <1>1, <1>2, <1>3, SlavePush

(* The user of a slave in the session undoes or redoes.                    *)
LEMMA SlaveUndo ==
  ASSUME IInv, NEW s \in Slaves, UserUndo(s) \/ UserRedo(s)
  PROVE  IInv'
<1>1. phase[s] = "in"
  BY PeersFacts DEF UserUndo, UserRedo, MayEdit, InSession
<1>2. \E u, undo : Replay(s, u, undo)
  BY Zenon DEF UserUndo, UserRedo
<1> QED BY <1>1, <1>2, SlaveReplay

(* A slave asks to join.                                                   *)
LEMMA JoinInv ==
  ASSUME IInv, NEW s \in Slaves, Join(s)
  PROVE  IInv'
<1> USE PeersFacts
<1>1. /\ Net(chan) /\ \A t \in Slaves : SlaveInv(t)
      /\ UNCHANGED <<crn, adjusts, remoteRevs, members>>
      /\ phase' = [phase EXCEPT ![s] = "joining"] /\ DOMAIN phase = Slaves
  BY DEF IInv, Join
<1>2. /\ Net(chan)' /\ chan'[s][Master] = Append(chan[s][Master], JoinRequest)
      /\ \A a, b \in Peers : ~(a = s /\ b = Master) => chan'[a][b] = chan[a][b]
  BY <1>1, SendNet DEF Join
<1>3. ASSUME NEW t \in Slaves, t # s PROVE SlaveInv(t)'
  <2>1. Untouched(t)
    BY <1>1, <1>2, <1>3 DEF Untouched
  <2> QED BY <1>1, <2>1, UntouchedInv
<1>4. SlaveInv(s)'
  <2>1. s \notin members /\ chan[s][Master] = <<>> /\ chan[Master][s] = <<>>
    BY <1>1 DEF SlaveInv, JoinStage, Join
  <2>2. chan'[s][Master] = <<JoinRequest>> /\ chan'[Master][s] = <<>>
    BY <1>2, <2>1
  <2>3. phase'[s] = "joining" /\ s \notin members'
    BY <1>1, <2>1
  <2> QED BY <2>2, <2>3 DEF SlaveInv, JoinStage
<1> QED BY <1>1, <1>2, <1>3, <1>4 DEF IInv

(* The master admits a slave: an unknown author is announced to the others *)
(* first, and the answer carries the revision of that announcement.        *)
LEMMA HandleJoinRequestInv ==
  ASSUME IInv, NEW s \in Slaves, HandleJoinRequest(s)
  PROVE  IInv'
<1> DEFINE known == s \in KnownAuthors
           rev   == IF known THEN crn[Master] ELSE crn[Master] + 1
           heard == Received(chan, s, Master)
           told  == IF known THEN heard
                    ELSE PushTo(heard, Master, members, "docprop", 0, 0, <<>>, rev)
           e     == ChangeAdjust(rev, "docprop", 0, 0, -1, Master)
           m     == JoinResponse(doc[Master], rev)
<1> USE PeersFacts
<1>1. /\ Net(chan) /\ StackOK(adjusts[Master], crn[Master]) /\ members \subseteq Slaves
      /\ \A t \in Slaves : SlaveInv(t)
      /\ DOMAIN crn = Peers /\ DOMAIN adjusts = Peers
  BY DEF IInv
<1>2. /\ HeadIs(s, Master, "joinRequest")
      /\ crn' = [crn EXCEPT ![Master] = rev]
      /\ adjusts' = IF known THEN adjusts ELSE [adjusts EXCEPT ![Master] = Append(@, e)]
      /\ chan' = SendTo(told, Master, s, m)
      /\ members' = members \cup {s}
      /\ UNCHANGED <<remoteRevs, phase>>
  BY DEF HandleJoinRequest
<1>3. /\ e.rev = rev /\ e.origin = Master /\ m.type = "joinResponse" /\ m.rev = rev
      /\ known => rev = crn[Master]
      /\ ~known => rev = crn[Master] + 1
  BY DEF ChangeAdjust, JoinResponse
<1>4. /\ phase[s] = "joining" /\ s \notin members
      /\ chan[s][Master] = <<JoinRequest>> /\ chan[Master][s] = <<>>
  BY <1>1, <1>2, RequestToMaster
<1>5. /\ Net(heard) /\ heard[s][Master] = <<>>
      /\ \A a, b \in Peers : ~(a = s /\ b = Master) => heard[a][b] = chan[a][b]
  <2>1. <<JoinRequest>> # <<>> /\ Tail(<<JoinRequest>>) = <<>>
    OBVIOUS
  <2>2. chan[s][Master] # <<>> /\ Tail(chan[s][Master]) = <<>>
    BY <1>4, <2>1
  <2>3. /\ Net(Received(chan, s, Master))
        /\ Received(chan, s, Master)[s][Master] = Tail(chan[s][Master])
        /\ \A a, b \in Peers :
             ~(a = s /\ b = Master) => Received(chan, s, Master)[a][b] = chan[a][b]
    BY <1>1, <2>2, ReceiveNet
  <2> HIDE DEF told, e, m, rev, known
  <2> QED BY <2>2, <2>3
<1> HIDE DEF e, m, rev, known, heard
<1>6. /\ Net(told)
      /\ \A a, b \in Peers : ~(a = Master /\ b \in members) => told[a][b] = heard[a][b]
      /\ known => \A a, b \in Peers : told[a][b] = heard[a][b]
      /\ ~known => \A b \in Peers : b \in members => \E x :
           x.type = "change" /\ x.rev = rev /\ told[Master][b] = Append(heard[Master][b], x)
  <2>1. CASE known
    BY <1>5, <2>1
  <2>2. CASE ~known
    BY <1>5, <2>2, PushNet
  <2> QED BY <2>1, <2>2
<1> HIDE DEF told
<1>7. /\ Net(chan)' /\ chan'[Master][s] = Append(told[Master][s], m)
      /\ \A a, b \in Peers : ~(a = Master /\ b = s) => chan'[a][b] = told[a][b]
  BY <1>2, <1>6, SendNet
<1>8. /\ crn'[Master] = rev /\ DOMAIN crn' = Peers /\ DOMAIN adjusts' = Peers
      /\ adjusts'[Master] = IF known THEN adjusts[Master] ELSE Append(adjusts[Master], e)
  BY <1>1, <1>2
<1>9. StackOK(adjusts'[Master], crn'[Master])
  BY <1>1, <1>3, <1>8, StackPushed
<1>10. ASSUME NEW t \in Slaves, t # s PROVE SlaveInv(t)'
  <2>1. /\ chan'[t][Master] = chan[t][Master] /\ chan'[Master][t] = told[Master][t]
        /\ heard[Master][t] = chan[Master][t]
    BY <1>5, <1>6, <1>7, <1>10
  <2>2. phase'[t] = phase[t] /\ (t \in members' <=> t \in members)
        /\ remoteRevs'[t][Master] = remoteRevs[t][Master]
    BY <1>2, <1>10
  <2>3. CASE known
    <3>1. Untouched(t)
      BY <1>6, <2>1, <2>2, <2>3 DEF Untouched
    <3> QED BY <1>1, <1>3, <1>8, <2>3, <3>1, UntouchedInv
  <2>4. CASE ~known
    <3>1. Hears(t, e)
      <4>1. CASE t \notin members
        BY <1>6, <2>1, <4>1 DEF Hears
      <4>2. CASE t \in members
        <5>1. PICK x : /\ x.type = "change" /\ x.rev = crn[Master] + 1
                       /\ chan'[Master][t] = Append(chan[Master][t], x)
          BY <1>3, <1>6, <2>1, <2>4, <4>2
        <5>2. e.origin # t
          BY <1>3
        <5> QED BY Zenon, <4>2, <5>1, <5>2 DEF Hears
      <4> QED BY <4>1, <4>2
    <3> QED BY <1>1, <1>3, <1>8, <2>1, <2>2, <2>4, <3>1, HearsInv
  <2> QED BY <2>3, <2>4
<1>11. SlaveInv(s)'
  <2>1. chan'[Master][s] = Append(<<>>, m) /\ chan'[s][Master] = <<>>
    <3>1. heard[Master][s] = <<>> /\ told[Master][s] = heard[Master][s]
      BY <1>4, <1>5, <1>6
    <3>2. told[s][Master] = <<>>
      BY <1>5, <1>6
    <3> QED BY <1>7, <3>1, <3>2
  <2>2. Flow(Append(<<>>, m), adjusts'[Master], s, remoteRevs'[s][Master], crn'[Master])
    BY <1>3, <1>8, <1>9, FlowStart
  <2>3. Answered(s)' /\ Tail(chan'[Master][s]) = <<>>
    BY <1>3, <2>1 DEF Answered
  <2>4. NoType(<<>>, "joinResponse")
    BY DEF NoType
  <2>5. phase'[s] = "joining" /\ s \in members'
    BY <1>2, <1>4
  <2>6. JoinStage(s)'
    BY <2>1, <2>3, <2>4, <2>5 DEF JoinStage
  <2> QED BY <2>1, <2>2, <2>6 DEF SlaveInv
<1>12. /\ DOMAIN remoteRevs' = Peers /\ \A p \in Peers : DOMAIN remoteRevs'[p] = Peers
       /\ DOMAIN phase' = Slaves /\ members' \subseteq Slaves
  BY <1>1, <1>2 DEF IInv
<1> QED BY <1>7, <1>8, <1>9, <1>10, <1>11, <1>12 DEF IInv

(* The slave takes the answer.                                             *)
LEMMA HandleJoinResponseInv ==
  ASSUME IInv, NEW s \in Slaves, HandleJoinResponse(s)
  PROVE  IInv'
<1> DEFINE m == Head(chan[Master][s])
<1> USE PeersFacts
<1>1. /\ Net(chan) /\ \A t \in Slaves : SlaveInv(t)
      /\ DOMAIN adjusts = Peers /\ DOMAIN remoteRevs = Peers /\ DOMAIN phase = Slaves
      /\ \A p \in Peers : DOMAIN remoteRevs[p] = Peers
  BY DEF IInv
<1>2. /\ HeadIs(Master, s, "joinResponse")
      /\ adjusts' = [adjusts EXCEPT ![s] = <<VoidAdjust(m.rev)>>]
      /\ remoteRevs' = [remoteRevs EXCEPT ![s] = [q \in Peers |-> IF q = Master THEN m.rev ELSE 0]]
      /\ phase' = [phase EXCEPT ![s] = "in"]
      /\ chan' = Received(chan, Master, s)
      /\ UNCHANGED <<crn, members>>
  BY DEF HandleJoinResponse
<1>3. /\ phase[s] = "joining" /\ s \in members /\ chan[s][Master] = <<>>
      /\ NoType(Tail(chan[Master][s]), "joinResponse")
  BY <1>1, <1>2, AnswerToSlave
<1>4. chan[Master][s] # <<>> /\ m.type = "joinResponse" /\ IsSeq(chan[Master][s])
  BY <1>1, <1>2 DEF HeadIs, Net
<1> HIDE DEF m
<1>5. /\ Net(chan)' /\ chan'[Master][s] = Tail(chan[Master][s])
      /\ \A a, b \in Peers : ~(a = Master /\ b = s) => chan'[a][b] = chan[a][b]
  BY <1>1, <1>2, <1>4, ReceiveNet
<1>6. /\ adjusts'[Master] = adjusts[Master] /\ crn'[Master] = crn[Master]
      /\ DOMAIN adjusts' = Peers /\ DOMAIN remoteRevs' = Peers /\ DOMAIN phase' = Slaves
      /\ \A p \in Peers : DOMAIN remoteRevs'[p] = Peers
      /\ remoteRevs'[s][Master] = m.rev /\ phase'[s] = "in"
  BY <1>1, <1>2
<1>7. ASSUME NEW t \in Slaves, t # s PROVE SlaveInv(t)'
  <2>1. Untouched(t)
    BY <1>1, <1>2, <1>5, <1>7 DEF Untouched
  <2> QED BY <1>1, <1>6, <2>1, UntouchedInv
<1>8. SlaveInv(s)'
  <2>1. Flow(chan[Master][s], adjusts[Master], s, remoteRevs[s][Master], crn[Master])
    BY <1>1, <1>3 DEF SlaveInv
  <2>2. Flow(Tail(chan[Master][s]), adjusts[Master], s, m.rev, crn[Master])
    BY <1>3, <1>4, <2>1, FlowTakeAnswer DEF m
  <2>3. NoType(<<>>, "joinRequest")
    BY DEF NoType
  <2>4. chan'[s][Master] = <<>> /\ s \in members'
    BY <1>2, <1>3, <1>5
  <2>5. JoinStage(s)'
    BY <1>3, <1>5, <1>6, <2>3, <2>4 DEF JoinStage
  <2> QED BY <1>5, <1>6, <2>2, <2>5 DEF SlaveInv
<1>9. members' \subseteq Slaves /\ StackOK(adjusts'[Master], crn'[Master]) /\ DOMAIN crn' = Peers
  BY <1>2, <1>6 DEF IInv
<1> QED BY <1>5, <1>6, <1>7, <1>8, <1>9 DEF IInv

(* The master takes a packet of a slave without a change of its document.  *)
LEMMA FromSlave ==
  ASSUME IInv, NEW s \in Slaves, NEW type, HeadIs(s, Master, type), type # "joinRequest",
         chan' = Received(chan, s, Master), members' = members \cup {s},
         UNCHANGED <<crn, adjusts, phase>>,
         DOMAIN remoteRevs' = Peers, \A p \in Peers : DOMAIN remoteRevs'[p] = Peers,
         \A t \in Slaves : remoteRevs'[t][Master] = remoteRevs[t][Master]
  PROVE  IInv'
<1> USE PeersFacts
<1>1. /\ Net(chan) /\ StackOK(adjusts[Master], crn[Master]) /\ members \subseteq Slaves
      /\ \A t \in Slaves : SlaveInv(t)
      /\ DOMAIN crn = Peers /\ DOMAIN adjusts = Peers /\ DOMAIN phase = Slaves
  BY DEF IInv
<1>2. /\ phase[s] = "in" /\ s \in members
      /\ NoType(chan[s][Master], "joinRequest") /\ NoType(chan[Master][s], "joinResponse")
  BY <1>1, ToMaster
<1>3. chan[s][Master] # <<>> /\ IsSeq(chan[s][Master])
  BY <1>1 DEF HeadIs, Net
<1>4. /\ Net(chan)' /\ chan'[s][Master] = Tail(chan[s][Master])
      /\ \A a, b \in Peers : ~(a = s /\ b = Master) => chan'[a][b] = chan[a][b]
  BY <1>1, <1>3, ReceiveNet
<1>5. members' = members
  BY <1>2
<1>6. ASSUME NEW t \in Slaves, t # s PROVE SlaveInv(t)'
  <2>1. Untouched(t)
    BY <1>4, <1>5, <1>6 DEF Untouched
  <2> QED BY <1>1, <2>1, UntouchedInv
<1>7. SlaveInv(s)'
  <2>1. NoType(chan'[s][Master], "joinRequest")
    BY <1>2, <1>3, <1>4, NoTypeTail
  <2>2. chan'[Master][s] = chan[Master][s]
    BY <1>4
  <2> QED BY <1>1, <1>2, <1>5, <2>1, <2>2 DEF SlaveInv, JoinStage
<1> QED BY <1>1, <1>4, <1>5, <1>6, <1>7 DEF IInv

(* The master refuses a change.                                            *)
LEMMA ImportRefusedInv ==
  ASSUME IInv, NEW s \in Slaves, ImportRefused(s)
  PROVE  IInv'
<1> DEFINE heard == Received(chan, s, Master)
<1> USE PeersFacts
<1>1. /\ Net(chan) /\ StackOK(adjusts[Master], crn[Master]) /\ members \subseteq Slaves
      /\ \A t \in Slaves : SlaveInv(t)
  BY DEF IInv
<1>2. PICK m : /\ HeadIs(s, Master, "change") /\ m.type = "revert"
               /\ chan' = SendTo(heard, Master, s, m)
               /\ members' = members \cup {s}
               /\ UNCHANGED <<crn, adjusts, remoteRevs, phase>>
  BY DEF ImportRefused, RevertPacket
<1>3. /\ phase[s] = "in" /\ s \in members
      /\ NoType(chan[s][Master], "joinRequest") /\ NoType(chan[Master][s], "joinResponse")
  BY <1>1, <1>2, ToMaster
<1>4. chan[s][Master] # <<>> /\ IsSeq(chan[s][Master]) /\ IsSeq(chan[Master][s])
  BY <1>1, <1>2 DEF HeadIs, Net
<1>5. /\ Net(heard) /\ heard[s][Master] = Tail(chan[s][Master])
      /\ \A a, b \in Peers : ~(a = s /\ b = Master) => heard[a][b] = chan[a][b]
  BY <1>1, <1>4, ReceiveNet
<1> HIDE DEF heard
<1>6. /\ Net(chan)' /\ chan'[Master][s] = Append(heard[Master][s], m)
      /\ \A a, b \in Peers : ~(a = Master /\ b = s) => chan'[a][b] = heard[a][b]
  BY <1>2, <1>5, SendNet
<1>7. members' = members
  BY <1>2, <1>3
<1>8. ASSUME NEW t \in Slaves, t # s PROVE SlaveInv(t)'
  <2>1. Untouched(t)
    BY <1>2, <1>5, <1>6, <1>7, <1>8 DEF Untouched
  <2> QED BY <1>1, <1>2, <2>1, UntouchedInv
<1>9. SlaveInv(s)'
  <2>1. chan'[s][Master] = Tail(chan[s][Master]) /\ chan'[Master][s] = Append(chan[Master][s], m)
    BY <1>5, <1>6
  <2>2. NoType(chan'[s][Master], "joinRequest") /\ NoType(chan'[Master][s], "joinResponse")
    BY <1>2, <1>3, <1>4, <2>1, NoTypeTail, NoTypeAppend
  <2>3. Flow(chan[Master][s], adjusts[Master], s, remoteRevs[s][Master], crn[Master])
    BY <1>1, <1>3 DEF SlaveInv
  <2>4. Flow(chan'[Master][s], adjusts[Master], s, remoteRevs[s][Master], crn[Master])
    BY <1>2, <1>4, <2>1, <2>3, FlowAppendOther
  <2> QED BY <1>2, <1>3, <1>7, <2>2, <2>4 DEF SlaveInv, JoinStage
<1>10. /\ DOMAIN crn' = Peers /\ DOMAIN adjusts' = Peers
       /\ DOMAIN remoteRevs' = Peers /\ \A p \in Peers : DOMAIN remoteRevs'[p] = Peers
       /\ DOMAIN phase' = Slaves /\ members' \subseteq Slaves
       /\ StackOK(adjusts'[Master], crn'[Master])
  BY <1>1, <1>2, <1>7 DEF IInv
<1> QED BY <1>6, <1>8, <1>9, <1>10 DEF IInv

(* What an import on the master does to its stack and its revision.        *)
LEMMA ImportAtMaster ==
  ASSUME IInv, NEW s \in Slaves, NEW m, NEW pos,
         ImportAt(Master, s, m, pos, doc[Master], EmptyHistory, adjusts[Master], crn[Master])
  PROVE  /\ DOMAIN remoteRevs' = Peers /\ \A p \in Peers : DOMAIN remoteRevs'[p] = Peers
         /\ \A t \in Slaves : remoteRevs'[t][Master] = remoteRevs[t][Master]
         /\ DOMAIN crn' = Peers /\ DOMAIN adjusts' = Peers
         /\ Applies(doc[Master], m.kind, pos, m.len) =>
              /\ crn'[Master] = crn[Master] + 1
              /\ \E e : /\ e.rev = crn[Master] + 1 /\ e.origin = s
                        /\ adjusts'[Master] = Append(adjusts[Master], e)
         /\ ~Applies(doc[Master], m.kind, pos, m.len) =>
              crn'[Master] = crn[Master] /\ adjusts'[Master] = adjusts[Master]
<1> DEFINE e    == ChangeAdjust(crn[Master] + 1, m.kind, pos, m.len, m.pos, s)
           fits == Applies(doc[Master], m.kind, pos, m.len)
<1> USE PeersFacts
<1>1. /\ DOMAIN crn = Peers /\ DOMAIN adjusts = Peers
      /\ DOMAIN remoteRevs = Peers /\ \A p \in Peers : DOMAIN remoteRevs[p] = Peers
  BY DEF IInv
<1>2. e.rev = crn[Master] + 1 /\ e.origin = s
  BY DEF ChangeAdjust
<1>3. /\ remoteRevs' = [remoteRevs EXCEPT ![Master][s] = m.rev]
      /\ crn' = [crn EXCEPT ![Master] = IF fits THEN crn[Master] + 1 ELSE crn[Master]]
      /\ adjusts' = [adjusts EXCEPT ![Master] =
                       IF fits THEN Append(adjusts[Master], e) ELSE adjusts[Master]]
  BY DEF ImportAt
<1> HIDE DEF e, fits
<1>4. /\ DOMAIN remoteRevs' = Peers /\ \A p \in Peers : DOMAIN remoteRevs'[p] = Peers
      /\ \A t \in Slaves : remoteRevs'[t][Master] = remoteRevs[t][Master]
      /\ DOMAIN crn' = Peers /\ DOMAIN adjusts' = Peers
  BY <1>1, <1>3
<1>5. fits => /\ crn'[Master] = crn[Master] + 1
              /\ adjusts'[Master] = Append(adjusts[Master], e)
  BY <1>1, <1>3
<1>6. ~fits => crn'[Master] = crn[Master] /\ adjusts'[Master] = adjusts[Master]
  BY <1>1, <1>3
<1> QED BY <1>2, <1>4, <1>5, <1>6 DEF fits

(* The master takes a change of s and forwards it to all others.           *)
LEMMA ImportAcceptedInv ==
  ASSUME IInv, NEW s \in Slaves, ImportAccepted(s)
  PROVE  IInv'
<1> DEFINE m     == Head(chan[s][Master])
           pos   == m.pos + CheckForCollision(adjusts[Master], m, s).adj
           fits  == Applies(doc[Master], m.kind, pos, m.len)
           heard == Received(chan, s, Master)
<1> USE PeersFacts
<1>1. /\ Net(chan) /\ StackOK(adjusts[Master], crn[Master]) /\ members \subseteq Slaves
      /\ \A t \in Slaves : SlaveInv(t)
      /\ DOMAIN crn = Peers /\ DOMAIN adjusts = Peers /\ DOMAIN phase = Slaves
  BY DEF IInv
<1>2. /\ HeadIs(s, Master, "change")
      /\ ImportAt(Master, s, m, pos, doc[Master], EmptyHistory, adjusts[Master], crn[Master])
      /\ members' = members \cup {s}
      /\ chan' = IF fits THEN PushTo(heard, Master, ForwardTargets(s),
                                     m.kind, pos, m.len, m.toks, crn[Master] + 1)
                 ELSE heard
      /\ phase' = phase
  BY DEF ImportAccepted
<1>3. /\ DOMAIN remoteRevs' = Peers /\ \A p \in Peers : DOMAIN remoteRevs'[p] = Peers
      /\ \A t \in Slaves : remoteRevs'[t][Master] = remoteRevs[t][Master]
      /\ DOMAIN crn' = Peers /\ DOMAIN adjusts' = Peers
      /\ fits => /\ crn'[Master] = crn[Master] + 1
                 /\ \E e : /\ e.rev = crn[Master] + 1 /\ e.origin = s
                           /\ adjusts'[Master] = Append(adjusts[Master], e)
      /\ ~fits => crn'[Master] = crn[Master] /\ adjusts'[Master] = adjusts[Master]
  <2> HIDE DEF m, pos
  <2> QED BY <1>2, ImportAtMaster
<1>4. /\ phase[s] = "in" /\ s \in members
      /\ NoType(chan[s][Master], "joinRequest") /\ NoType(chan[Master][s], "joinResponse")
  BY <1>1, <1>2, ToMaster
<1>5. chan[s][Master] # <<>> /\ IsSeq(chan[s][Master])
  BY <1>1, <1>2 DEF HeadIs, Net
<1>6. /\ Net(heard) /\ heard[s][Master] = Tail(chan[s][Master])
      /\ \A a, b \in Peers : ~(a = s /\ b = Master) => heard[a][b] = chan[a][b]
  BY <1>1, <1>5, ReceiveNet
<1>7. NoType(heard[s][Master], "joinRequest")
  BY <1>4, <1>5, <1>6, NoTypeTail
<1>8. members' = members
  BY <1>2, <1>4
<1> HIDE DEF m, pos, fits, heard
<1>9. CASE ~fits
  <2>1. chan' = heard /\ adjusts'[Master] = adjusts[Master] /\ crn'[Master] = crn[Master]
    BY <1>2, <1>3, <1>9
  <2>2. ASSUME NEW t \in Slaves, t # s PROVE SlaveInv(t)'
    <3>1. Untouched(t)
      BY <1>2, <1>3, <1>6, <1>8, <2>1, <2>2 DEF Untouched
    <3> QED BY <1>1, <2>1, <3>1, UntouchedInv
  <2>3. SlaveInv(s)'
    <3>1. chan'[Master][s] = chan[Master][s] /\ NoType(chan'[s][Master], "joinRequest")
      BY <1>6, <1>7, <2>1
    <3> QED BY <1>1, <1>2, <1>3, <1>4, <1>8, <2>1, <3>1 DEF SlaveInv, JoinStage
  <2> QED BY <1>1, <1>2, <1>3, <1>6, <1>8, <2>1, <2>2, <2>3 DEF IInv
<1>10. CASE fits
  <2>1. PICK e : /\ e.rev = crn[Master] + 1 /\ e.origin = s
                 /\ adjusts'[Master] = Append(adjusts[Master], e)
    BY <1>3, <1>10
  <2>2. crn'[Master] = crn[Master] + 1
    BY <1>3, <1>10
  <2>3. StackOK(adjusts'[Master], crn'[Master])
    BY <1>1, <2>1, <2>2, StackPushed
  <2>4. /\ Net(chan)'
        /\ \A a, b \in Peers : ~(a = Master /\ b \in members \ {s}) => chan'[a][b] = heard[a][b]
        /\ \A b \in Peers : b \in members \ {s} => \E x :
             /\ x.type = "change" /\ x.rev = crn[Master] + 1
             /\ chan'[Master][b] = Append(heard[Master][b], x)
    BY <1>2, <1>6, <1>10, PushNet DEF ForwardTargets
  <2>5. ASSUME NEW t \in Slaves PROVE Hears(t, e)
    <3>1. heard[Master][t] = chan[Master][t]
      BY <1>6
    <3>2. CASE t \in members \ {s}
      <4>1. PICK x : /\ x.type = "change" /\ x.rev = crn[Master] + 1
                     /\ chan'[Master][t] = Append(heard[Master][t], x)
        BY <2>4, <3>2
      <4> QED BY <2>1, <3>1, <3>2, <4>1 DEF Hears
    <3>3. CASE t \notin members \ {s}
      <4>1. chan'[Master][t] = chan[Master][t]
        BY <2>4, <3>1, <3>3
      <4> QED BY <2>1, <3>3, <4>1 DEF Hears
    <3> QED BY <3>2, <3>3
  <2>6. ASSUME NEW t \in Slaves, t # s PROVE SlaveInv(t)'
    <3>1. chan'[t][Master] = chan[t][Master]
      BY <1>6, <2>4, <2>6
    <3> QED BY <1>1, <1>2, <1>3, <1>8, <2>1, <2>2, <2>5, <3>1, HearsInv
  <2>7. SlaveInv(s)'
    <3>1. chan'[Master][s] = chan[Master][s] /\ chan'[s][Master] = heard[s][Master]
      BY <1>6, <2>4
    <3>2. Flow(chan'[Master][s], adjusts'[Master], s, remoteRevs'[s][Master], crn'[Master])
      BY <1>1, <1>3, <1>4, <2>1, <2>2, <2>5, HearsFlow
    <3> QED BY <1>2, <1>4, <1>7, <1>8, <3>1, <3>2 DEF SlaveInv, JoinStage
  <2> QED BY <1>1, <1>2, <1>3, <1>8, <2>3, <2>4, <2>6, <2>7 DEF IInv
<1> QED BY <1>9, <1>10

(* A slave takes a packet that is not the answer to its join.              *)
LEMMA ToSlaveInv ==
  ASSUME IInv, NEW s \in Slaves, NEW type, HeadIs(Master, s, type), type # "joinResponse",
         DOMAIN crn' = Peers, DOMAIN adjusts' = Peers,
         adjusts'[Master] = adjusts[Master], crn'[Master] = crn[Master],
         DOMAIN remoteRevs' = Peers, \A p \in Peers : DOMAIN remoteRevs'[p] = Peers,
         \A t \in Slaves : t # s => remoteRevs'[t][Master] = remoteRevs[t][Master],
         remoteRevs'[s][Master] = IF type = "change" THEN Head(chan[Master][s]).rev
                                  ELSE remoteRevs[s][Master],
         UNCHANGED <<members, phase>>,
         \/ chan' = Received(chan, Master, s)
         \/ \E m : m.type = "revertAck" /\ chan' = SendTo(Received(chan, Master, s), s, Master, m)
  PROVE  IInv'
<1> DEFINE heard == Received(chan, Master, s)
<1> USE PeersFacts
<1>1. /\ Net(chan) /\ StackOK(adjusts[Master], crn[Master]) /\ members \subseteq Slaves
      /\ \A t \in Slaves : SlaveInv(t)
      /\ DOMAIN phase = Slaves
  BY DEF IInv
<1>2. /\ phase[s] = "in" /\ s \in members
      /\ NoType(chan[s][Master], "joinRequest") /\ NoType(chan[Master][s], "joinResponse")
  BY <1>1, ToSlave
<1>3. /\ chan[Master][s] # <<>> /\ Head(chan[Master][s]).type = type
      /\ IsSeq(chan[Master][s]) /\ IsSeq(chan[s][Master])
  BY <1>1 DEF HeadIs, Net
<1>4. /\ Net(heard) /\ heard[Master][s] = Tail(chan[Master][s])
      /\ \A a, b \in Peers : ~(a = Master /\ b = s) => heard[a][b] = chan[a][b]
  BY <1>1, <1>3, ReceiveNet
<1>5. chan' = heard \/ \E m : m.type = "revertAck" /\ chan' = SendTo(heard, s, Master, m)
  OBVIOUS
<1> HIDE DEF heard
<1>6. /\ Net(chan)'
      /\ \A a, b \in Peers : ~(a = s /\ b = Master) => chan'[a][b] = heard[a][b]
      /\ NoType(chan'[s][Master], "joinRequest")
  <2>1. heard[s][Master] = chan[s][Master]
    BY <1>4
  <2>2. CASE chan' = heard
    BY <1>2, <1>4, <2>1, <2>2
  <2>3. CASE chan' # heard
    <3>1. PICK m : m.type = "revertAck" /\ chan' = SendTo(heard, s, Master, m)
      BY <1>5, <2>3
    <3>2. /\ Net(chan)' /\ chan'[s][Master] = Append(heard[s][Master], m)
          /\ \A a, b \in Peers : ~(a = s /\ b = Master) => chan'[a][b] = heard[a][b]
      BY <1>4, <3>1, SendNet
    <3>3. NoType(chan'[s][Master], "joinRequest")
      BY <1>2, <1>3, <2>1, <3>1, <3>2, NoTypeAppend
    <3> QED BY <3>2, <3>3
  <2> QED BY <2>2, <2>3
<1>7. ASSUME NEW t \in Slaves, t # s PROVE SlaveInv(t)'
  <2>1. Untouched(t)
    BY <1>4, <1>6, <1>7 DEF Untouched
  <2> QED BY <1>1, <2>1, UntouchedInv
<1>8. SlaveInv(s)'
  <2>1. chan'[Master][s] = Tail(chan[Master][s])
    BY <1>4, <1>6
  <2>2. NoType(chan'[Master][s], "joinResponse")
    BY <1>2, <1>3, <2>1, NoTypeTail
  <2>3. Flow(chan[Master][s], adjusts[Master], s, remoteRevs[s][Master], crn[Master])
    BY <1>1, <1>2 DEF SlaveInv
  <2>4. Flow(Tail(chan[Master][s]), adjusts[Master], s, remoteRevs'[s][Master], crn[Master])
    <3>1. CASE type = "change"
      BY <1>1, <1>2, <1>3, <2>3, <3>1, FlowTakeChange
    <3>2. CASE type # "change"
      BY <1>1, <1>2, <1>3, <2>3, <3>2, FlowTakeOther
    <3> QED BY <3>1, <3>2
  <2> QED BY <1>2, <1>6, <2>1, <2>2, <2>4 DEF SlaveInv, JoinStage
<1> QED BY <1>1, <1>6, <1>7, <1>8 DEF IInv

(* What an import on a slave leaves alone, and what the slave has seen then. *)
LEMMA ImportAtSlave ==
  ASSUME IInv, NEW s \in Slaves, NEW m, NEW pos, NEW d, NEW h, NEW stack, NEW last,
         ImportAt(s, Master, m, pos, d, h, stack, last)
  PROVE  /\ DOMAIN crn' = Peers /\ DOMAIN adjusts' = Peers
         /\ adjusts'[Master] = adjusts[Master] /\ crn'[Master] = crn[Master]
         /\ DOMAIN remoteRevs' = Peers /\ \A p \in Peers : DOMAIN remoteRevs'[p] = Peers
         /\ \A t \in Slaves : t # s => remoteRevs'[t][Master] = remoteRevs[t][Master]
         /\ remoteRevs'[s][Master] = m.rev
<1> DEFINE e    == ChangeAdjust(last + 1, m.kind, pos, m.len, m.pos, Master)
           fits == Applies(d, m.kind, pos, m.len)
<1>1. /\ DOMAIN crn = Peers /\ DOMAIN adjusts = Peers
      /\ DOMAIN remoteRevs = Peers /\ \A p \in Peers : DOMAIN remoteRevs[p] = Peers
  BY DEF IInv
<1>2. /\ remoteRevs' = [remoteRevs EXCEPT ![s][Master] = m.rev]
      /\ crn' = [crn EXCEPT ![s] = IF fits THEN last + 1 ELSE last]
      /\ adjusts' = [adjusts EXCEPT ![s] = IF fits THEN Append(stack, e) ELSE stack]
  BY DEF ImportAt
<1> HIDE DEF e, fits
<1> QED BY <1>1, <1>2, PeersFacts

(* A slave takes a change.                                                 *)
LEMMA ImportFromMasterInv ==
  ASSUME IInv, NEW s \in Slaves, ImportFromMaster(s)
  PROVE  IInv'
<1> DEFINE m   == Head(chan[Master][s])
           pos == m.pos + CheckForCollision(adjusts[s], m, Master).adj
<1>1. /\ HeadIs(Master, s, "change")
      /\ ImportAt(s, Master, m, pos, doc[s], hist[s], adjusts[s], crn[s])
      /\ chan' = Received(chan, Master, s)
      /\ UNCHANGED <<members, phase>>
  BY DEF ImportFromMaster
<1> HIDE DEF pos
<1> QED BY <1>1, ImportAtSlave, ToSlaveInv

(* A slave reverts its own changes, acknowledges, and takes the change.    *)
LEMMA ImportRevertingInv ==
  ASSUME IInv, NEW s \in Slaves, ImportReverting(s)
  PROVE  IInv'
<1> DEFINE m    == Head(chan[Master][s])
           coll == CheckForCollision(adjusts[s], m, Master)
           back == RevertLocal(s, coll.rev)
           pos  == m.pos + coll.adj
           ack  == RevertAckPacket(coll.rev)
<1>1. /\ HeadIs(Master, s, "change")
      /\ ImportAt(s, Master, m, pos, back.doc, back.hist, back.stack, back.crn)
      /\ chan' = SendTo(Received(chan, Master, s), s, Master, ack)
      /\ UNCHANGED <<members, phase>>
  BY DEF ImportReverting, PreAck
<1>2. ack.type = "revertAck"
  BY DEF RevertAckPacket
<1> HIDE DEF coll, back, pos, ack
<1> QED BY <1>1, <1>2, ImportAtSlave, ToSlaveInv

(* A slave is told to revert.                                              *)
LEMMA ImportRevertInv ==
  ASSUME IInv, NEW s \in Slaves, ImportRevert(s)
  PROVE  IInv'
<1>1. /\ HeadIs(Master, s, "revert")
      /\ chan' = Received(chan, Master, s)
      /\ UNCHANGED <<crn, adjusts, remoteRevs, members, phase>>
  BY DEF ImportRevert
<1>2. /\ DOMAIN crn = Peers /\ DOMAIN adjusts = Peers
      /\ DOMAIN remoteRevs = Peers /\ \A p \in Peers : DOMAIN remoteRevs[p] = Peers
  BY DEF IInv
<1> QED BY <1>1, <1>2, ToSlaveInv
----------------------------------------------------------------------------
(* Every step keeps the invariant.                                         *)
THEOREM IInvInductive == IInv /\ [Next]_vars => IInv'
<1> SUFFICES ASSUME IInv, [Next]_vars PROVE IInv'
  OBVIOUS
<1> USE PeersFacts
<1>1. /\ DOMAIN remoteRevs = Peers /\ \A p \in Peers : DOMAIN remoteRevs[p] = Peers
  BY DEF IInv
<1>2. ASSUME NEW p \in Peers, NEW kind, NEW pos, NEW len, Edit(p, kind, pos, len)
      PROVE  IInv'
  BY <1>2, MasterEdit, SlaveEdit
<1>3. CASE UserStep
  BY <1>2, <1>3, SlaveUndo, JoinInv DEF UserStep, EditSpan, EditDocProp
<1>4. ASSUME NEW s \in Slaves, ImportIgnored(s) PROVE IInv'
  <2>1. /\ HeadIs(s, Master, "change") /\ chan' = Received(chan, s, Master)
        /\ members' = members \cup {s} /\ UNCHANGED <<crn, adjusts, remoteRevs, phase>>
    BY <1>4 DEF ImportIgnored
  <2> QED BY <1>1, <2>1, FromSlave
<1>5. ASSUME NEW s \in Slaves, ImportRevertAck(s) PROVE IInv'
  <2>1. /\ HeadIs(s, Master, "revertAck") /\ chan' = Received(chan, s, Master)
        /\ members' = members \cup {s} /\ UNCHANGED <<crn, adjusts, remoteRevs, phase>>
    BY <1>5 DEF ImportRevertAck
  <2> QED BY <1>1, <2>1, FromSlave
<1>6. ASSUME NEW s \in Slaves, DeliverToMaster(s) PROVE IInv'
  BY <1>4, <1>5, <1>6, HandleJoinRequestInv, ImportRefusedInv, ImportAcceptedInv
     DEF DeliverToMaster
<1>7. ASSUME NEW s \in Slaves, DeliverToSlave(s) PROVE IInv'
  BY <1>7, HandleJoinResponseInv, ImportFromMasterInv, ImportRevertingInv, ImportRevertInv
     DEF DeliverToSlave
<1>8. CASE UNCHANGED vars
  <2>1. UNCHANGED <<crn, adjusts, remoteRevs, members, phase, chan>>
    BY <1>8 DEF vars
  <2>2. ASSUME NEW s \in Slaves PROVE SlaveInv(s)'
    <3>1. Untouched(s) /\ SlaveInv(s)
      BY <2>1 DEF Untouched, IInv
    <3> QED BY <2>1, <3>1, UntouchedInv
  <2> QED BY <2>1, <2>2 DEF IInv
<1> QED BY <1>3, <1>6, <1>7, <1>8 DEF Next

(* The joins go through their stages, the revisions of the master grow and *)
(* no change is lost, in every reachable state.                            *)
THEOREM AlwaysIInv == Spec => []IInv
<1> QED BY StartIInv, IInvInductive, PTL DEF Spec

(* Between the master and a slave in the session no change is lost,        *)
(* repeated or reordered, from the answer to its join on (push, import and *)
(* the join handling of AccountHandler::_handlePacket).                    *)
THEOREM AlwaysNothingLost == Spec => []NothingLost
<1>1. IInv => NothingLost
  BY DEF IInv, SlaveInv, Flow, NothingLost, SeenBy, SeenUpTo, Answered
<1> QED BY <1>1, AlwaysIInv, PTL
===========================================================================
