----------------------- MODULE SessionManager_proofs -----------------------
(***************************************************************************)
(* Proofs about SessionManager: its types, and that destroying sessions    *)
(* from nested main loops keeps the list of sessions and the objects       *)
(* together (SessionsExist).  IInv says what is true between the turns of  *)
(* all those loops: the place that destroySession has found before it      *)
(* waits stays right, because meanwhile sessions are only added at the end *)
(* of the list, unless one is destroyed within the wait for another.       *)
(* At the end, that announcements do not come back (NoEcho).               *)
(***************************************************************************)
EXTENDS SessionManager, TLAPS, SequenceTheorems, FiniteSetTheorems, WellFoundedInduction
----------------------------------------------------------------------------
(* Sequences *)

(* A set of natural numbers has a least one.                                *)
LEMMA Least ==
  ASSUME NEW T, T \subseteq Nat, T # {}
  PROVE  \E x \in T : \A y \in T : x <= y
<1> DEFINE R == OpToRel(<, Nat)
<1>1. IsWellFoundedOn(R, Nat)
  BY NatLessThanWellFounded
<1>2. \A x, y \in Nat : y < x => <<y, x>> \in R
  BY DEF OpToRel
<1> HIDE DEF R
<1>3. PICK x \in T : \A y \in T : <<y, x>> \notin R
  BY <1>1, WFMin
<1>4. x \in Nat /\ \A y \in T : y \in Nat /\ ~(y < x)
  BY <1>2, <1>3
<1> QED BY <1>4

(* So a search from the front finds the first of the items it looks for.    *)
LEMMA FirstItem ==
  ASSUME NEW S, NEW l \in Seq(S), NEW found \in SUBSET (1..Len(l)), found # {}
  PROVE  \E i \in found : \A j \in 1..(i - 1) : j \notin found
<1>1. Len(l) \in Nat /\ found \subseteq Nat
  BY LenProperties
<1>2. PICK i \in found : \A j \in found : i <= j
  BY <1>1, Least
<1>3. \A j \in 1..(i - 1) : ~(i <= j)
  BY <1>1
<1> QED BY <1>2, <1>3

(* The items of a list after an append.                                     *)
LEMMA Appended ==
  ASSUME NEW S, NEW l \in Seq(S), NEW x \in S
  PROVE  /\ Append(l, x) \in Seq(S) /\ ToSet(Append(l, x)) = ToSet(l) \cup {x}
         /\ DOMAIN Append(l, x) = DOMAIN l \cup {Len(l) + 1} /\ Len(l) + 1 \notin DOMAIN l
         /\ \A i \in DOMAIN l : Append(l, x)[i] = l[i]
         /\ Append(l, x)[Len(l) + 1] = x
<1> DEFINE d == Append(l, x)
           n == Len(l)
<1>1. /\ d \in Seq(S) /\ Len(d) = n + 1 /\ n \in Nat
      /\ \A i \in 1..n : d[i] = l[i]
      /\ d[n + 1] = x
  BY AppendProperties, LenProperties
<1>2. DOMAIN l = 1..n /\ DOMAIN d = 1..Len(d)
  BY <1>1, LenProperties
<1> HIDE DEF d, n
<1>3. DOMAIN d = DOMAIN l \cup {n + 1} /\ n + 1 \notin DOMAIN l
  BY <1>1, <1>2
<1>4. ToSet(d) = ToSet(l) \cup {x}
  BY <1>1, <1>2, <1>3 DEF ToSet
<1> QED BY <1>1, <1>2, <1>3, <1>4 DEF d, n

(* ... after the last one is taken away, ...                                *)
LEMMA Fronted ==
  ASSUME NEW S, NEW l \in Seq(S), l # <<>>
  PROVE  /\ Front(l) \in Seq(S) /\ DOMAIN Front(l) = DOMAIN l \ {Len(l)} /\ Len(l) \in DOMAIN l
         /\ \A i \in DOMAIN Front(l) : Front(l)[i] = l[i]
         /\ Last(l) = l[Len(l)] /\ Last(l) \in S
<1> DEFINE n == Len(l)
           d == SubSeq(l, 1, n - 1)
<1>1. n \in Nat /\ n # 0 /\ DOMAIN l = 1..n /\ \A i \in 1..n : l[i] \in S
  BY EmptySeq, LenProperties, ElementOfSeq
<1> HIDE DEF n
<1>2. /\ d \in Seq(S)
      /\ Len(d) = IF 1 <= n - 1 THEN (n - 1) - 1 + 1 ELSE 0
      /\ \A i \in 1..((n - 1) - 1 + 1) : d[i] = l[1 + i - 1]
  <2>1. \A i \in 1..(n - 1) : l[i] \in S
    BY <1>1
  <2>2. 1 \in Int /\ n - 1 \in Int
    BY <1>1
  <2> QED BY <2>1, <2>2, SubSeqProperties
<1>3. DOMAIN d = 1..Len(d)
  BY <1>2, LenProperties
<1> HIDE DEF d
<1>4. Len(d) = n - 1
  BY <1>1, <1>2
<1>5. \A i \in 1..(n - 1) : i \in 1..((n - 1) - 1 + 1) /\ 1 + i - 1 = i
  BY <1>1
<1>6. \A i \in DOMAIN d : d[i] = l[i]
  BY <1>2, <1>3, <1>4, <1>5
<1>7. DOMAIN d = DOMAIN l \ {n} /\ n \in DOMAIN l
  BY <1>1, <1>3, <1>4
<1> QED BY <1>1, <1>2, <1>6, <1>7 DEF Front, Last, d, n

(* ... after one is received, ...                                           *)
LEMMA Tailed ==
  ASSUME NEW S, NEW l \in Seq(S), l # <<>>
  PROVE  /\ Tail(l) \in Seq(S) /\ ToSet(Tail(l)) \subseteq ToSet(l)
         /\ Head(l) \in ToSet(l) /\ Head(l) \in S
<1>1. Len(l) \in Nat /\ Len(l) # 0 /\ DOMAIN l = 1..Len(l)
  BY EmptySeq, LenProperties
<1> DEFINE d == Tail(l)
<1>2. /\ d \in Seq(S) /\ Len(d) = Len(l) - 1 /\ Head(l) \in S
      /\ \A i \in 1..Len(d) : d[i] = l[i + 1]
  BY HeadTailProperties, Zenon
<1>3. DOMAIN d = 1..Len(d)
  BY <1>2, LenProperties
<1>4. Head(l) = l[1]
  OBVIOUS
<1> HIDE DEF d
<1>5. 1 \in DOMAIN l /\ \A i \in DOMAIN d : i + 1 \in DOMAIN l
  BY <1>1, <1>2, <1>3
<1>6. ToSet(d) \subseteq ToSet(l) /\ Head(l) \in ToSet(l)
  BY <1>2, <1>3, <1>4, <1>5 DEF ToSet
<1> QED BY <1>2, <1>6 DEF d

(* ... and after one is deleted.                                            *)
Distinct(l) == \A i, j \in DOMAIN l : l[i] = l[j] => i = j

LEMMA DeletedItems ==
  ASSUME NEW S, NEW l \in Seq(S), NEW i \in DOMAIN l
  PROVE  /\ RemoveAt(l, i) \in Seq(S)
         /\ DOMAIN RemoveAt(l, i) = 1..(Len(l) - 1)
         /\ \A k \in 1..(Len(l) - 1) : RemoveAt(l, i)[k] = IF k < i THEN l[k] ELSE l[k + 1]
<1> DEFINE n == Len(l)
           a == SubSeq(l, 1, i - 1)
           b == SubSeq(l, i + 1, n)
           d == a \o b
<1>1. n \in Nat /\ DOMAIN l = 1..n /\ i \in 1..n /\ \A k \in 1..n : l[k] \in S
  BY LenProperties, ElementOfSeq
<1>2. /\ a \in Seq(S) /\ Len(a) = i - 1
      /\ \A k \in 1..(i - 1) : a[k] = l[k]
  <2>1. \A k \in 1..(i - 1) : l[k] \in S
    BY <1>1
  <2>2. /\ a \in Seq(S)
        /\ Len(a) = IF 1 <= i - 1 THEN (i - 1) - 1 + 1 ELSE 0
        /\ \A k \in 1..((i - 1) - 1 + 1) : a[k] = l[1 + k - 1]
    BY <1>1, <2>1, SubSeqProperties
  <2> HIDE DEF a
  <2> QED BY <1>1, <2>2
<1>3. /\ b \in Seq(S) /\ Len(b) = n - i
      /\ \A k \in 1..(n - i) : b[k] = l[k + i]
  <2>1. \A k \in (i + 1)..n : l[k] \in S
    BY <1>1
  <2>2. i + 1 \in Int /\ n \in Int
    BY <1>1
  <2>3. /\ b \in Seq(S)
        /\ Len(b) = IF i + 1 <= n THEN n - (i + 1) + 1 ELSE 0
        /\ \A k \in 1..(n - (i + 1) + 1) : b[k] = l[(i + 1) + k - 1]
    BY <2>1, <2>2, SubSeqProperties
  <2> HIDE DEF b, n
  <2>4. Len(b) = n - i
    BY <1>1, <2>3
  <2>5. \A k \in 1..(n - i) : k \in 1..(n - (i + 1) + 1) /\ (i + 1) + k - 1 = k + i
    BY <1>1
  <2> QED BY <2>3, <2>4, <2>5
<1>4. /\ d \in Seq(S) /\ Len(d) = Len(a) + Len(b)
      /\ \A k \in 1..(Len(a) + Len(b)) : d[k] = IF k <= Len(a) THEN a[k] ELSE b[k - Len(a)]
  BY <1>2, <1>3, ConcatProperties
<1>5. DOMAIN d = 1..Len(d)
  BY <1>4, LenProperties
<1> HIDE DEF n, a, b, d
<1>6. DOMAIN d = 1..(n - 1)
  BY <1>1, <1>2, <1>3, <1>4, <1>5
<1>7. \A k \in DOMAIN d : d[k] = IF k < i THEN l[k] ELSE l[k + 1]
  <2> SUFFICES ASSUME NEW k \in 1..(n - 1) PROVE d[k] = IF k < i THEN l[k] ELSE l[k + 1]
    BY <1>6
  <2>1. k \in 1..(Len(a) + Len(b)) /\ (k <= Len(a) <=> k < i)
    BY <1>1, <1>2, <1>3
  <2>2. k < i => k \in 1..(i - 1)
    BY <1>1
  <2>3. ~(k < i) => k - Len(a) \in 1..(n - i) /\ (k - Len(a)) + i = k + 1
    BY <1>1, <1>2, <1>3
  <2> QED BY <1>2, <1>3, <1>4, <2>1, <2>2, <2>3
<1> QED BY <1>4, <1>6, <1>7 DEF RemoveAt, n, a, b, d

LEMMA Deleted ==
  ASSUME NEW S, NEW l \in Seq(S), NEW i \in DOMAIN l
  PROVE  /\ RemoveAt(l, i) \in Seq(S)
         /\ Distinct(l) => Distinct(RemoveAt(l, i)) /\ ToSet(RemoveAt(l, i)) = ToSet(l) \ {l[i]}
<1> DEFINE n == Len(l)
           d == RemoveAt(l, i)
<1>1. n \in Nat /\ DOMAIN l = 1..n /\ i \in 1..n
  BY LenProperties
<1>2. d \in Seq(S)
  BY DeletedItems
<1>6. DOMAIN d = 1..(n - 1)
  BY DeletedItems
<1>7. \A k \in DOMAIN d : d[k] = IF k < i THEN l[k] ELSE l[k + 1]
  BY <1>6, DeletedItems
<1> HIDE DEF n, d
<1>8. \A k \in DOMAIN d : k \in DOMAIN l /\ k + 1 \in DOMAIN l
  BY <1>1, <1>6
<1>9. ASSUME Distinct(l) PROVE Distinct(d)
  <2> SUFFICES ASSUME NEW j \in DOMAIN d, NEW k \in DOMAIN d, d[j] = d[k] PROVE j = k
    BY DEF Distinct
  <2>1. j \in Nat /\ k \in Nat
    BY <1>1, <1>6
  <2>2. (IF j < i THEN j ELSE j + 1) = (IF k < i THEN k ELSE k + 1)
    BY <1>7, <1>8, <1>9 DEF Distinct
  <2> QED BY <1>1, <2>1, <2>2
<1>10. ASSUME Distinct(l) PROVE ToSet(d) \subseteq ToSet(l) \ {l[i]}
  <2> SUFFICES ASSUME NEW k \in DOMAIN d PROVE d[k] \in ToSet(l) /\ d[k] # l[i]
    BY DEF ToSet
  <2>1. PICK m \in DOMAIN l : d[k] = l[m] /\ m # i
    BY <1>1, <1>6, <1>7, <1>8
  <2> QED BY <1>10, <2>1 DEF ToSet, Distinct
<1>11. ToSet(l) \ {l[i]} \subseteq ToSet(d)
  <2> SUFFICES ASSUME NEW m \in DOMAIN l, m # i PROVE l[m] \in ToSet(d)
    BY DEF ToSet
  <2>1. CASE m < i
    BY <1>1, <1>6, <1>7, <2>1 DEF ToSet
  <2>2. CASE ~(m < i)
    <3>1. m - 1 \in DOMAIN d /\ ~(m - 1 < i) /\ (m - 1) + 1 = m
      BY <1>1, <1>6, <2>2
    <3> QED BY <1>7, <3>1 DEF ToSet
  <2> QED BY <2>1, <2>2
<1> QED BY <1>2, <1>9, <1>10, <1>11 DEF d
----------------------------------------------------------------------------
(* Session objects *)

(* A list without duplicates is as long as the set of its items is large.   *)
LEMMA DistinctLength ==
  ASSUME NEW S, NEW l \in Seq(S), Distinct(l), IsFiniteSet(ToSet(l))
  PROVE  Len(l) = Cardinality(ToSet(l))
<1>1. Len(l) \in Nat /\ DOMAIN l = 1..Len(l) /\ l \in [1..Len(l) -> S]
  BY LenProperties
<1>2. l \in [1..Len(l) -> ToSet(l)] /\ \A y \in ToSet(l) : \E x \in 1..Len(l) : l[x] = y
  BY <1>1 DEF ToSet
<1>3. \A i, j \in 1..Len(l) : l[i] = l[j] => i = j
  BY <1>1 DEF Distinct
<1>4. l \in Bijection(1..Len(l), ToSet(l))
  <2>1. l \in Injection(1..Len(l), ToSet(l))
    BY <1>2, <1>3 DEF Injection, IsInjective
  <2>2. l \in Surjection(1..Len(l), ToSet(l))
    BY <1>2 DEF Surjection
  <2> QED BY <2>1, <2>2 DEF Bijection
<1>5. ExistsBijection(1..Len(l), ToSet(l))
  BY <1>4 DEF ExistsBijection
<1> QED BY <1>1, <1>5, FS_CountingElements

(* There is always an object that is not used: of one number more than are  *)
(* used, one is free.                                                       *)
LEMMA FreshObject ==
  ASSUME NEW p, NEW s \in Sessions, IsFiniteSet(Used(p))
  PROVE  NewObject(p, s) \in Objects /\ NewObject(p, s) \notin Used(p) /\ NewObject(p, s).id = s
<1> DEFINE n == Cardinality(Used(p)) + 1
           all == [id : {s}, nr : 1..n]
           f == [k \in 1..n |-> [id |-> s, nr |-> k]]
<1>1. Cardinality(Used(p)) \in Nat /\ n \in Nat
  BY FS_CardinalityType
<1>2. IsFiniteSet(1..n) /\ Cardinality(1..n) = n
  BY <1>1, FS_Interval
<1>3. \E o \in all : o \notin Used(p)
  <2> SUFFICES ASSUME \A o \in all : o \in Used(p) PROVE FALSE
    OBVIOUS
  <2>1. f \in [1..n -> Used(p)]
    OBVIOUS
  <2>2. Cardinality(Used(p)) < Cardinality(1..n)
    BY <1>1, <1>2
  <2>3. \A x, y \in 1..n : f[x] = f[y] => x = y
    OBVIOUS
  <2> HIDE DEF f, n
  <2>4. \E x, y \in 1..n : x # y /\ f[x] = f[y]
    BY <1>2, <2>1, <2>2, FS_PigeonHole
  <2> QED BY <2>3, <2>4
<1>4. NewObject(p, s) \in all /\ NewObject(p, s) \notin Used(p)
  BY <1>3 DEF NewObject
<1>5. \A o \in all : o.id = s /\ o \in Objects
  BY <1>1 DEF Objects
<1> QED BY <1>4, <1>5

(* The objects a list and a set have together are finitely many.            *)
LEMMA UsedFinite ==
  ASSUME NEW p, NEW S, list[p] \in Seq(S), IsFiniteSet(alive[p]) PROVE IsFiniteSet(Used(p))
<1> DEFINE l == list[p]
<1>1. Len(l) \in Nat /\ DOMAIN l = 1..Len(l) /\ l \in [1..Len(l) -> S]
  BY LenProperties
<1>2. l \in [1..Len(l) -> ToSet(l)] /\ \A y \in ToSet(l) : \E x \in 1..Len(l) : l[x] = y
  BY <1>1 DEF ToSet
<1>3. l \in Surjection(1..Len(l), ToSet(l))
  BY <1>2 DEF Surjection
<1>4. IsFiniteSet(1..Len(l))
  BY <1>1, FS_Interval
<1>5. IsFiniteSet(ToSet(l))
  BY <1>3, <1>4, FS_Surjection
<1> QED BY <1>5, FS_Union DEF Used

(* destroySession finds the object it is called for, ...                    *)
LEMMA FoundPlace ==
  ASSUME NEW p \in Peers, list[p] \in Seq(Objects), NEW o \in ToSet(list[p]),
         NEW from \in Peers \cup {None}, NEW to \in SUBSET (Peers \cup {None}), NEW event \in Farewells,
         NEW box \in BOOLEAN, NEW f, f = DestroyFrame(p, from, o, to, event, box)
  PROVE  /\ f \in Frames /\ f.call = "destroySession" /\ f.object = o
         /\ f.index \in DOMAIN list[p] /\ list[p][f.index] = o
<1> DEFINE l == list[p]
           found == {i \in DOMAIN l : l[i] = o}
<1>0. Len(l) \in Nat /\ DOMAIN l = 1..Len(l)
  BY LenProperties
<1>1. found \in SUBSET (1..Len(l)) /\ found # {} /\ l \in Seq(Objects) /\ DOMAIN l = 1..Len(l)
  BY <1>0 DEF ToSet
<1>2. \E i \in found : \A j \in 1..(i - 1) : j \notin found
  <2> HIDE DEF l, found
  <2> QED BY <1>1, FirstItem
<1>3. \A i \in found : \A j \in 1..(i - 1) : j \in DOMAIN l
  BY <1>1
<1>4. \E i \in DOMAIN l : l[i] = o /\ \A j \in 1..(i - 1) : l[j] # o
  BY <1>2, <1>3
<1>5. f.index \in DOMAIN l /\ l[f.index] = o
  BY <1>4 DEF DestroyFrame
<1>6. f.index \in Nat /\ o \in Objects
  BY <1>0, <1>1, <1>5, ElementOfSeq
<1>7. f \in Frames /\ f.call = "destroySession" /\ f.object = o
  BY <1>6 DEF DestroyFrame, Frames, DestroyFrames
<1> QED BY <1>5, <1>7

(* ... and getSessionFromSessionId one that it knows.                       *)
LEMMA FoundSession ==
  ASSUME NEW p \in Peers, list[p] \in Seq(Objects), NEW s, Known(p, s)
  PROVE  Find(p, s) \in ToSet(list[p]) /\ Find(p, s).id = s
<1> DEFINE l == list[p]
           found == {i \in DOMAIN l : l[i].id = s}
<1>1. Len(l) \in Nat /\ DOMAIN l = 1..Len(l)
  BY LenProperties
<1>0. found \in SUBSET (1..Len(l)) /\ found # {} /\ l \in Seq(Objects)
  BY <1>1 DEF Known
<1>2. \E i \in found : \A j \in 1..(i - 1) : j \notin found
  <2> HIDE DEF l, found
  <2> QED BY <1>0, FirstItem
<1>3. \A i \in found : \A j \in 1..(i - 1) : j \in DOMAIN l
  BY <1>1
<1>4. \E i \in DOMAIN l : l[i].id = s /\ \A j \in 1..(i - 1) : l[j].id # s
  BY <1>2, <1>3
<1> DEFINE i == CHOOSE i \in DOMAIN l : l[i].id = s /\ \A j \in 1..(i - 1) : l[j].id # s
<1>5. i \in DOMAIN l /\ l[i].id = s
  BY <1>4
<1> QED BY <1>5 DEF Find, ToSet
----------------------------------------------------------------------------
(* Calls in progress *)

(* A stack of calls that has no destroySession that another does not have   *)
(* at the same place.                                                       *)
Within(g, fs) ==
  \A i \in DOMAIN g : g[i].call = "destroySession" => i \in DOMAIN fs /\ g[i] = fs[i]

(* FramesInv for a stack of calls and a list.                               *)
Destroying(fs)  == {i \in DOMAIN fs : fs[i].call = "destroySession"}
InPlace(fs, l) ==
  /\ \A i, j \in Destroying(fs) : i = j
  /\ \A i \in Destroying(fs) : fs[i].index \in DOMAIN l /\ l[fs[i].index] = fs[i].object

LEMMA FramesInvIs ==
  ASSUME NEW p PROVE FramesInv(p) <=> InPlace(frames[p], list[p])
BY DEF FramesInv, InPlace, Destroys, Destroying

LEMMA InPlaceWithin ==
  ASSUME NEW g, NEW fs, NEW l, Within(g, fs), InPlace(fs, l) PROVE InPlace(g, l)
BY DEF Within, InPlace, Destroying

(* A list that has only grown at its end.                                   *)
LEMMA InPlaceGrown ==
  ASSUME NEW fs, NEW S, NEW l \in Seq(S), NEW o \in S, InPlace(fs, l)
  PROVE  InPlace(fs, Append(l, o))
BY Appended DEF InPlace

(* Pushing and returning from other calls.                                  *)
LEMMA OtherCalls ==
  ASSUME NEW fs \in Seq(Frames), NEW f \in Frames
  PROVE  /\ Append(fs, f) \in Seq(Frames)
         /\ Within(fs, fs)
         /\ f.call # "destroySession" => Within(Append(fs, f), fs)
         /\ fs # <<>> => /\ Front(fs) \in Seq(Frames) /\ Within(Front(fs), fs)
                         /\ Append(Front(fs), f) \in Seq(Frames)
                         /\ f.call # "destroySession" => Within(Append(Front(fs), f), fs)
                         /\ Last(fs) \in Frames
<1>1. ASSUME NEW g \in Seq(Frames), Within(g, fs), f.call # "destroySession"
      PROVE  Within(Append(g, f), fs)
  BY <1>1, Appended DEF Within
<1>2. Append(fs, f) \in Seq(Frames) /\ Within(fs, fs)
  BY Appended DEF Within
<1>3. ASSUME fs # <<>>
      PROVE  Front(fs) \in Seq(Frames) /\ Within(Front(fs), fs) /\ Last(fs) \in Frames
  BY <1>3, Fronted DEF Within
<1>4. fs # <<>> => Append(Front(fs), f) \in Seq(Frames)
  BY <1>3, Appended
<1> QED BY <1>1, <1>2, <1>3, <1>4

(* A call of destroySession from others is in its place, when none of these *)
(* is one.                                                                  *)
LEMMA InPlaceDestroy ==
  ASSUME NEW g \in Seq(Frames), Destroying(g) = {}, NEW f \in Frames, NEW l,
         f.index \in DOMAIN l, l[f.index] = f.object
  PROVE  InPlace(Append(g, f), l)
<1>1. Destroying(Append(g, f)) \subseteq {Len(g) + 1}
  BY Appended DEF Destroying
<1>2. Append(g, f)[Len(g) + 1] = f
  BY Appended
<1> QED BY <1>1, <1>2 DEF InPlace
----------------------------------------------------------------------------
(* Packets *)

Chans == [Peers -> [Peers -> Seq(Packets)]]

(* Requests to join go to masters only.                                     *)
Asks(c, masters) ==
  \A p, q \in Peers : \A m \in ToSet(c[q][p]) : m.type = "join" => masters[m.id] = p

LEMMA SentAll ==
  ASSUME NEW c \in Chans, NEW p \in Peers, NEW to, NEW m \in Packets
  PROVE  /\ SendAll(c, p, to, m) \in Chans
         /\ \A masters : Asks(c, masters) /\ (m.type = "join" => to = {masters[m.id]}) =>
                           Asks(SendAll(c, p, to, m), masters)
<1> DEFINE row == [q \in Peers |-> IF q \in to THEN Append(c[p][q], m) ELSE c[p][q]]
           d == SendAll(c, p, to, m)
<1>1. c[p] \in [Peers -> Seq(Packets)] /\ \A q \in Peers : c[p][q] \in Seq(Packets)
  BY DEF Chans
<1>2. \A q \in Peers : row[q] \in Seq(Packets) /\ row[q] = IF q \in to THEN Append(c[p][q], m) ELSE c[p][q]
  BY <1>1, Appended
<1>3. row \in [Peers -> Seq(Packets)]
  BY <1>2
<1>4. d = [c EXCEPT ![p] = row]
  BY DEF SendAll
<1> HIDE DEF row, d
<1>5. d \in Chans /\ \A a \in Peers : d[a] = IF a = p THEN row ELSE c[a]
  BY <1>3, <1>4 DEF Chans
<1>6. ASSUME NEW masters, Asks(c, masters), m.type = "join" => to = {masters[m.id]}
      PROVE  Asks(d, masters)
  <2> SUFFICES ASSUME NEW a \in Peers, NEW b \in Peers, NEW x \in ToSet(d[a][b]), x.type = "join"
               PROVE  masters[x.id] = b
    BY DEF Asks
  <2>1. x \in ToSet(c[a][b]) \/ (x = m /\ b \in to)
    <3>1. b \in to => ToSet(Append(c[p][b], m)) = ToSet(c[p][b]) \cup {m}
      BY <1>1, Appended
    <3> QED BY <1>2, <1>5, <3>1
  <2> QED BY <1>6, <2>1 DEF Asks
<1> QED BY <1>5, <1>6 DEF d

LEMMA ReceivedOne ==
  ASSUME chan \in Chans, NEW p \in Peers, NEW q \in Peers, chan[q][p] # <<>>
  PROVE  /\ Received(p, q) \in Chans
         /\ \A masters : Asks(chan, masters) => Asks(Received(p, q), masters)
         /\ Head(chan[q][p]) \in Packets
         /\ \A masters : Asks(chan, masters) /\ Head(chan[q][p]).type = "join" =>
                           masters[Head(chan[q][p]).id] = p
<1>1. chan[q] \in [Peers -> Seq(Packets)] /\ chan[q][p] \in Seq(Packets)
  BY DEF Chans
<1> DEFINE t == Tail(chan[q][p])
           d == Received(p, q)
           h == Head(chan[q][p])
<1>2. t \in Seq(Packets) /\ ToSet(t) \subseteq ToSet(chan[q][p]) /\ h \in ToSet(chan[q][p]) /\ h \in Packets
  BY <1>1, Tailed
<1>3. d = [chan EXCEPT ![q] = [chan[q] EXCEPT ![p] = t]]
  BY DEF Received
<1> HIDE DEF t, d, h
<1>4. [chan[q] EXCEPT ![p] = t] \in [Peers -> Seq(Packets)]
  BY <1>1, <1>2
<1>5. d \in Chans /\ \A a, b \in Peers : d[a][b] = IF a = q /\ b = p THEN t ELSE chan[a][b]
  BY <1>1, <1>3, <1>4 DEF Chans
<1>6. ASSUME NEW masters, Asks(chan, masters) PROVE Asks(d, masters)
  <2>1. \A a, b \in Peers : ToSet(d[a][b]) \subseteq ToSet(chan[a][b])
    BY <1>2, <1>5
  <2> QED BY <1>6, <2>1 DEF Asks
<1>7. ASSUME NEW masters, Asks(chan, masters), h.type = "join" PROVE masters[h.id] = p
  BY <1>2, <1>7 DEF Asks
<1> QED BY <1>2, <1>5, <1>6, <1>7 DEF d, h

LEMMA CutChans ==
  ASSUME chan \in Chans, NEW p \in Peers, NEW q \in Peers
  PROVE  /\ Cut(chan, p, q) \in Chans
         /\ \A masters : Asks(chan, masters) => Asks(Cut(chan, p, q), masters)
<1> DEFINE d == Cut(chan, p, q)
           item(a, b) == IF {a, b} = {p, q} THEN Append(chan[a][b], Lost) ELSE chan[a][b]
<1>1. Lost \in Packets /\ Lost.type # "join"
  BY DEF Lost, Packets
<1>2. ASSUME NEW a \in Peers, NEW b \in Peers
      PROVE  item(a, b) \in Seq(Packets) /\ ToSet(item(a, b)) \subseteq ToSet(chan[a][b]) \cup {Lost}
  <2>1. chan[a][b] \in Seq(Packets)
    BY DEF Chans
  <2> QED BY <1>1, <2>1, Appended
<1>3. d = [a \in Peers |-> [b \in Peers |-> item(a, b)]]
  BY DEF Cut
<1> HIDE DEF d, item
<1>4. d \in Chans /\ \A a, b \in Peers : d[a][b] = item(a, b)
  BY <1>2, <1>3 DEF Chans
<1>5. \A masters : Asks(chan, masters) => Asks(d, masters)
  <2>1. \A a, b \in Peers : ToSet(d[a][b]) \subseteq ToSet(chan[a][b]) \cup {Lost}
    BY <1>2, <1>4
  <2> QED BY <1>1, <2>1 DEF Asks
<1> QED BY <1>4, <1>5 DEF d
----------------------------------------------------------------------------
(* The parts of the invariant *)

Types ==
  /\ master \in [Sessions -> Peers \cup {None}]
  /\ list \in [Peers -> Seq(Objects)] /\ alive \in [Peers -> SUBSET Objects]
  /\ collaborators \in [Peers -> [Sessions -> SUBSET Peers]]
  /\ saving \in [Peers -> SUBSET Objects]
  /\ frames \in [Peers -> Seq(Frames)]
  /\ buddies \in [Peers -> SUBSET Peers] /\ chan \in Chans
  /\ asked \in [Peers -> SUBSET Sessions]
  /\ joins \in 0..MaxJoins /\ saves \in 0..MaxSaves /\ breaks \in 0..MaxBreaks
  /\ ended \in [Peers -> {"no", "quit", "crash"}] /\ nested \subseteq Peers

CollaboratorsKnown == \A p \in Peers \ nested, s \in Sessions : collaborators[p][s] # {} => Known(p, s)
CollaboratorsMine  == \A p \in Peers, s \in Sessions : collaborators[p][s] # {} => master[s] = p
Finite             == \A p \in Peers : IsFiniteSet(alive[p])
Places ==
  \A p \in Peers \ nested :
    ended[p] # "crash" /\ ListInv(p) /\ InPlace(frames[p], list[p])

LEMMA IInvParts ==
  IInv <=> Types /\ CollaboratorsKnown /\ CollaboratorsMine /\ Asks(chan, master) /\ Finite /\ Places
<1>1. TypeOK <=> Types /\ CollaboratorsKnown
  BY DEF TypeOK, Types, CollaboratorsKnown, Chans
<1>2. OnlyMastersAsked <=> CollaboratorsMine /\ Asks(chan, master)
  BY DEF OnlyMastersAsked, CollaboratorsMine, Asks
<1>3. (\A p \in Peers \ nested : ended[p] # "crash" /\ ListInv(p) /\ FramesInv(p)) <=> Places
  BY FramesInvIs DEF Places
<1> QED BY <1>1, <1>2, <1>3 DEF IInv, Finite

(* The parts hold after a step: so does the invariant.                      *)
LEMMA IInvAfter ==
  ASSUME Types', CollaboratorsKnown', CollaboratorsMine', Asks(chan', master'), Finite', Places'
  PROVE  IInv'
<1>1. (IInv <=> Types /\ CollaboratorsKnown /\ CollaboratorsMine /\ Asks(chan, master) /\ Finite /\ Places)'
  BY IInvParts, PTL
<1> QED BY <1>1

(* What the calls in progress must still be after a step.                   *)
CallsKept ==
  /\ frames' \in [Peers -> Seq(Frames)] /\ nested' \subseteq Peers /\ nested \subseteq nested'
  /\ \A r \in Peers \ nested' : InPlace(frames'[r], list[r])

(* A step that leaves the sessions alone keeps the invariant, if it keeps   *)
(* the calls and the rest.                                                  *)
LEMMA SameSessions ==
  ASSUME IInv, CallsKept, list' = list, alive' = alive, saving' = saving,
         \A r \in Peers \ nested' : ended'[r] = ended[r]
  PROVE  /\ Finite' /\ Places'
         /\ collaborators' = collaborators => CollaboratorsKnown'
<1>1. Types /\ CollaboratorsKnown /\ Finite /\ Places
  BY IInvParts
<1>2. Finite'
  BY <1>1 DEF Finite
<1>3. Places'
  <2> SUFFICES ASSUME NEW r \in Peers \ nested'
               PROVE  (ended[r] # "crash" /\ ListInv(r) /\ InPlace(frames[r], list[r]))'
    BY DEF Places
  <2>1. r \in Peers \ nested
    BY DEF CallsKept
  <2>2. ended[r] # "crash" /\ ListInv(r)
    BY <1>1, <2>1 DEF Places
  <2>3. ListInv(r)'
    BY <2>2 DEF ListInv
  <2> QED BY <2>2, <2>3 DEF CallsKept
<1>4. collaborators' = collaborators => CollaboratorsKnown'
  BY <1>1 DEF CollaboratorsKnown, CallsKept, Known
<1> QED BY <1>2, <1>3, <1>4

LEMMA SameCalls ==
  ASSUME IInv, frames' = frames, nested' = nested PROVE CallsKept
BY IInvParts DEF CallsKept, Places, Types

(* A call is pushed or returns, and it is not destroySession.               *)
LEMMA OtherCall ==
  ASSUME IInv, NEW p \in Peers, NEW g \in Seq(Frames), Within(g, frames[p]),
         frames' = [frames EXCEPT ![p] = g], nested' = nested
  PROVE  CallsKept
<1>1. Types /\ Places
  BY IInvParts
<1>2. frames' \in [Peers -> Seq(Frames)] /\ \A r \in Peers : frames'[r] = IF r = p THEN g ELSE frames[r]
  BY <1>1 DEF Types
<1>3. ASSUME NEW r \in Peers \ nested' PROVE InPlace(frames'[r], list[r])
  <2>1. InPlace(frames[r], list[r])
    BY <1>1 DEF Places
  <2>2. r = p => InPlace(g, list[p])
    BY <2>1, InPlaceWithin
  <2> QED BY <1>2, <2>1, <2>2
<1> QED BY <1>1, <1>2, <1>3 DEF CallsKept, Types

(* destroySession is called for an object that it has found.                *)
LEMMA DestroyCall ==
  ASSUME IInv, NEW p \in Peers, NEW stack \in Seq(Frames), NEW f \in Frames,
         f.call = "destroySession", f.index \in DOMAIN list[p], list[p][f.index] = f.object,
         Destroy(p, stack, f)
  PROVE  CallsKept
<1>1. Types /\ Places
  BY IInvParts
<1>2. Append(stack, f) \in Seq(Frames)
  BY Appended
<1>3. /\ frames' \in [Peers -> Seq(Frames)]
      /\ \A r \in Peers : frames'[r] = IF r = p THEN Append(stack, f) ELSE frames[r]
  BY <1>1, <1>2 DEF Types, Destroy
<1>4. /\ nested' \subseteq Peers /\ nested \subseteq nested'
      /\ p \notin nested' => Destroying(stack) = {}
  BY <1>1 DEF Types, Destroy, Destroying
<1>5. ASSUME NEW r \in Peers \ nested' PROVE InPlace(frames'[r], list[r])
  <2>1. CASE r = p
    <3>1. InPlace(Append(stack, f), list[p])
      BY <1>4, <2>1, InPlaceDestroy
    <3> QED BY <1>3, <2>1, <3>1
  <2>2. CASE r # p
    BY <1>1, <1>3, <1>4, <2>2 DEF Places
  <2> QED BY <2>1, <2>2
<1> QED BY <1>3, <1>4, <1>5 DEF CallsKept

LEMMA DisconnectCall ==
  ASSUME IInv, NEW p \in Peers, NEW stack \in Seq(Frames), NEW o \in ToSet(list[p]), Disconnect(p, stack, o)
  PROVE  CallsKept
<1>1. Types
  BY IInvParts
<1>2. list[p] \in Seq(Objects) /\ buddies[p] \subseteq Peers
  BY <1>1 DEF Types
<1>3. o.id \in Sessions /\ Known(p, o.id)
  <2>1. PICK i \in DOMAIN list[p] : list[p][i] = o
    BY DEF ToSet
  <2>2. o \in Objects
    BY <1>2, <2>1
  <2> QED BY <2>1, <2>2 DEF Known, Objects
<1>4. master[o.id] \in Peers \cup {None}
  BY <1>1, <1>3 DEF Types
<1>5. Close(o.id) \in Farewells /\ Disjoin(o.id) \in Farewells
  BY <1>3 DEF Close, Disjoin, Farewells
<1> DEFINE f == DestroyFrame(p, None, o, buddies[p], Close(o.id), FALSE)
           g == DestroyFrame(p, None, Find(p, o.id), {master[o.id]}, Disjoin(o.id), FALSE)
<1>6. CASE Destroy(p, stack, f)
  <2>1. /\ f \in Frames /\ f.call = "destroySession" /\ f.object = o
        /\ f.index \in DOMAIN list[p] /\ list[p][f.index] = o
    <3>1. None \in Peers \cup {None} /\ buddies[p] \in SUBSET (Peers \cup {None}) /\ FALSE \in BOOLEAN
      BY <1>2
    <3>2. \A box \in BOOLEAN :
            LET h == DestroyFrame(p, None, o, buddies[p], Close(o.id), box)
            IN  /\ h \in Frames /\ h.call = "destroySession" /\ h.object = o
                /\ h.index \in DOMAIN list[p] /\ list[p][h.index] = o
      BY <1>2, <1>5, <3>1, FoundPlace
    <3> QED BY <3>1, <3>2, Zenon
  <2> HIDE DEF f
  <2> QED BY <1>6, <2>1, DestroyCall
<1>7. CASE Destroy(p, stack, g)
  <2>1. Find(p, o.id) \in ToSet(list[p])
    BY <1>2, <1>3, FoundSession
  <2>2. /\ g \in Frames /\ g.call = "destroySession" /\ g.object = Find(p, o.id)
        /\ g.index \in DOMAIN list[p] /\ list[p][g.index] = Find(p, o.id)
    <3>1. None \in Peers \cup {None} /\ {master[o.id]} \in SUBSET (Peers \cup {None}) /\ FALSE \in BOOLEAN
      BY <1>4
    <3>2. \A box \in BOOLEAN :
            LET h == DestroyFrame(p, None, Find(p, o.id), {master[o.id]}, Disjoin(o.id), box)
            IN  /\ h \in Frames /\ h.call = "destroySession" /\ h.object = Find(p, o.id)
                /\ h.index \in DOMAIN list[p] /\ list[p][h.index] = Find(p, o.id)
      BY <1>2, <1>5, <2>1, <3>1, FoundPlace
    <3> QED BY <3>1, <3>2, Zenon
  <2> HIDE DEF g
  <2> QED BY <1>7, <2>2, DestroyCall
<1> QED BY <1>6, <1>7 DEF Disconnect

(* destroySession for a session of the other end of a connection: there is  *)
(* a box then.                                                              *)
LEMMA LostCall ==
  ASSUME IInv, NEW p \in Peers, NEW q \in Peers, NEW stack \in Seq(Frames), NEW o \in ToSet(list[p]),
         NEW event \in Farewells, Destroy(p, stack, DestroyFrame(p, q, o, {}, event, TRUE))
  PROVE  CallsKept
<1>1. list[p] \in Seq(Objects) /\ q \in Peers \cup {None} /\ {} \in SUBSET (Peers \cup {None})
  BY IInvParts DEF Types
<1>2. \A box \in BOOLEAN :
        LET h == DestroyFrame(p, q, o, {}, event, box)
        IN  /\ h \in Frames /\ h.call = "destroySession" /\ h.object = o
            /\ h.index \in DOMAIN list[p] /\ list[p][h.index] = o
  BY <1>1, FoundPlace
<1> DEFINE f == DestroyFrame(p, q, o, {}, event, TRUE)
<1>3. TRUE \in BOOLEAN
  OBVIOUS
<1>4. /\ f \in Frames /\ f.call = "destroySession" /\ f.object = o
      /\ f.index \in DOMAIN list[p] /\ list[p][f.index] = o
  BY <1>2, <1>3, Zenon
<1> HIDE DEF f
<1>5. Destroy(p, stack, f)
  BY DEF f
<1> QED BY <1>4, <1>5, DestroyCall
----------------------------------------------------------------------------
(* Initially *)

LEMMA InitIInv == Init => IInv
<1> SUFFICES ASSUME Init PROVE IInv
  OBVIOUS
<1> USE PeersAssumption, SessionsAssumption, MayStartAssumption, LimitsAssumption
<1>1. Types
  <2>1. \A S : <<>> \in Seq(S)
    BY EmptySeq
  <2>2. chan \in Chans
    BY <2>1 DEF Init, Chans
  <2> QED BY <2>1, <2>2 DEF Init, Types
<1>2. CollaboratorsKnown /\ CollaboratorsMine
  BY DEF Init, CollaboratorsKnown, CollaboratorsMine
<1>3. Asks(chan, master)
  <2>1. \A p, q \in Peers : chan[q][p] = <<>>
    BY DEF Init
  <2>2. ToSet(<<>>) = {}
    BY DEF ToSet
  <2> QED BY <2>1, <2>2 DEF Asks
<1>4. Finite
  BY FS_EmptySet DEF Init, Finite
<1>5. Places
  <2> SUFFICES ASSUME NEW p \in Peers PROVE ended[p] # "crash" /\ ListInv(p) /\ InPlace(frames[p], list[p])
    BY DEF Places
  <2>1. list[p] = <<>> /\ alive[p] = {} /\ saving[p] = {} /\ frames[p] = <<>> /\ ended[p] = "no"
    BY DEF Init
  <2>2. DOMAIN <<>> = {} /\ ToSet(<<>>) = {}
    BY DEF ToSet
  <2>3. ListInv(p)
    BY <2>1, <2>2 DEF ListInv
  <2>4. InPlace(frames[p], list[p])
    BY <2>1, <2>2 DEF InPlace, Destroying
  <2> QED BY <2>1, <2>3, <2>4
<1> QED BY <1>1, <1>2, <1>3, <1>4, <1>5, IInvParts
----------------------------------------------------------------------------
(* What users do *)

(* A new object at the end of the list.                                     *)
LEMMA NewSession ==
  ASSUME IInv, NEW p \in Peers, NEW s \in Sessions, NEW o, o = NewObject(p, s),
         list' = [list EXCEPT ![p] = Append(@, o)], alive' = [alive EXCEPT ![p] = @ \cup {o}],
         UNCHANGED <<collaborators, saving, frames, ended, nested>>
  PROVE  /\ list' \in [Peers -> Seq(Objects)] /\ alive' \in [Peers -> SUBSET Objects]
         /\ CollaboratorsKnown' /\ Finite' /\ Places'
<1>1. Types /\ CollaboratorsKnown /\ Finite /\ Places
  BY IInvParts
<1>2. list[p] \in Seq(Objects) /\ IsFiniteSet(alive[p])
  BY <1>1 DEF Types, Finite
<1>3. IsFiniteSet(Used(p))
  BY <1>2, UsedFinite
<1>4. o \in Objects /\ o \notin Used(p)
  BY <1>3, FreshObject
<1> DEFINE l == list[p]
           d == Append(l, o)
<1>5. /\ d \in Seq(Objects) /\ ToSet(d) = ToSet(l) \cup {o}
      /\ DOMAIN d = DOMAIN l \cup {Len(l) + 1} /\ Len(l) + 1 \notin DOMAIN l
      /\ \A i \in DOMAIN l : d[i] = l[i]
      /\ d[Len(l) + 1] = o
  BY <1>2, <1>4, Appended
<1>6. list' \in [Peers -> Seq(Objects)] /\ \A r \in Peers : list'[r] = IF r = p THEN d ELSE list[r]
  BY <1>1, <1>5 DEF Types
<1>7. /\ alive' \in [Peers -> SUBSET Objects]
      /\ \A r \in Peers : alive'[r] = IF r = p THEN alive[p] \cup {o} ELSE alive[r]
  BY <1>1, <1>4 DEF Types
<1>8. o \notin ToSet(l) /\ o \notin alive[p]
  BY <1>4 DEF Used
<1>9. \A fs : InPlace(fs, l) => InPlace(fs, d)
  BY <1>2, <1>4, InPlaceGrown
<1> HIDE DEF d, l
<1>10. CollaboratorsKnown'
  <2> SUFFICES ASSUME NEW r \in Peers \ nested', NEW x \in Sessions, collaborators'[r][x] # {}
               PROVE  Known(r, x)'
    BY DEF CollaboratorsKnown
  <2>1. PICK i \in DOMAIN list[r] : list[r][i].id = x
    BY <1>1 DEF CollaboratorsKnown, Known
  <2>2. i \in DOMAIN list'[r] /\ list'[r][i].id = x
    BY <1>5, <1>6, <2>1 DEF l
  <2> QED BY <2>2 DEF Known
<1>11. Finite'
  <2>1. IsFiniteSet(alive[p] \cup {o})
    BY <1>2, FS_AddElement
  <2> QED BY <1>1, <1>7, <2>1 DEF Finite
<1>12. Places'
  <2> SUFFICES ASSUME NEW r \in Peers \ nested'
               PROVE  (ended[r] # "crash" /\ ListInv(r) /\ InPlace(frames[r], list[r]))'
    BY DEF Places
  <2>1. ended[r] # "crash" /\ ListInv(r) /\ InPlace(frames[r], list[r]) /\ r \in Peers
    BY <1>1 DEF Places
  <2>2. CASE r # p
    <3>1. list'[r] = list[r] /\ alive'[r] = alive[r]
      BY <1>6, <1>7, <2>2
    <3>2. ListInv(r)'
      BY <2>1, <3>1 DEF ListInv
    <3> QED BY <2>1, <3>1, <3>2
  <2>3. CASE r = p
    <3>1. list'[p] = d /\ alive'[p] = alive[p] \cup {o} /\ ToSet(l) = alive[p] /\ saving[p] \subseteq alive[p]
      BY <1>6, <1>7, <2>1, <2>3 DEF ListInv, l
    <3>2. \A i, j \in DOMAIN l : l[i] = l[j] => i = j
      BY <2>1, <2>3 DEF ListInv, l
    <3>3. \A i \in DOMAIN l : l[i] # o
      BY <1>8 DEF ToSet
    <3>4. \A i, j \in DOMAIN d : d[i] = d[j] => i = j
      BY <1>5, <3>2, <3>3
    <3>5. ListInv(p)'
      BY <1>5, <3>1, <3>4 DEF ListInv
    <3>6. InPlace(frames'[p], list'[p])
      BY <1>9, <2>1, <2>3, <3>1 DEF l
    <3> QED BY <2>1, <2>3, <3>5, <3>6
  <2> QED BY <2>2, <2>3
<1> QED BY <1>6, <1>7, <1>10, <1>11, <1>12

LEMMA StartSessionIInv ==
  ASSUME IInv, NEW p \in Peers, NEW s \in Sessions, StartSession(p, s) PROVE IInv'
<1> USE PeersAssumption
<1>1. Types /\ CollaboratorsMine /\ Asks(chan, master)
  BY IInvParts
<1> DEFINE o == NewObject(p, s)
<1>2. /\ list' = [list EXCEPT ![p] = Append(@, o)] /\ alive' = [alive EXCEPT ![p] = @ \cup {o}]
      /\ UNCHANGED <<collaborators, saving, frames, ended, nested>>
      /\ master[s] = None
  BY DEF StartSession
<1> HIDE DEF o
<1>3. /\ list' \in [Peers -> Seq(Objects)] /\ alive' \in [Peers -> SUBSET Objects]
      /\ CollaboratorsKnown' /\ Finite' /\ Places'
  BY <1>2, NewSession DEF o
<1>4. /\ master' \in [Sessions -> Peers \cup {None}]
      /\ \A x \in Sessions : master[x] # None => master'[x] = master[x]
  BY <1>1, <1>2 DEF StartSession, Types
<1>5. Start(s) \in Packets /\ Start(s).type # "join"
  BY DEF Start, Packets
<1>6. chan \in Chans
  BY <1>1 DEF Types
<1>7. chan' \in Chans /\ Asks(chan', master)
  BY <1>1, <1>5, <1>6, SentAll DEF StartSession
<1>8. Types'
  BY <1>1, <1>3, <1>4, <1>7 DEF StartSession, Types, bounds
<1>9. CollaboratorsMine'
  BY <1>1, <1>2, <1>4 DEF CollaboratorsMine
<1>10. Asks(chan', master')
  <2> SUFFICES ASSUME NEW a \in Peers, NEW b \in Peers, NEW m \in ToSet(chan'[b][a]), m.type = "join"
               PROVE  master'[m.id] = a
    BY DEF Asks
  <2>1. master[m.id] = a
    BY <1>7 DEF Asks
  <2>2. chan'[b][a] \in Seq(Packets)
    BY <1>7 DEF Chans
  <2>3. m \in Packets
    BY <2>2 DEF ToSet
  <2>4. m.id \in Sessions
    BY <2>3 DEF Packets, Lost
  <2> QED BY <1>4, <2>1, <2>4
<1> QED BY <1>3, <1>8, <1>9, <1>10, IInvAfter

LEMMA AskToJoinIInv ==
  ASSUME IInv, NEW p \in Peers, NEW s \in Sessions, AskToJoin(p, s) PROVE IInv'
<1> USE LimitsAssumption
<1>1. Types /\ CollaboratorsMine /\ Asks(chan, master)
  BY IInvParts
<1>2. Finite' /\ Places' /\ CollaboratorsKnown'
  BY SameCalls, SameSessions DEF AskToJoin
<1>3. JoinRequest(s) \in Packets /\ JoinRequest(s).id = s
  BY DEF JoinRequest, Packets
<1>4. chan \in Chans
  BY <1>1 DEF Types
<1>5. chan' \in Chans /\ Asks(chan', master)
  BY <1>1, <1>3, <1>4, SentAll DEF AskToJoin
<1>6. Types'
  BY <1>1, <1>5 DEF AskToJoin, Types
<1>7. CollaboratorsMine'
  BY <1>1 DEF AskToJoin, CollaboratorsMine
<1>8. Asks(chan', master')
  BY <1>5 DEF AskToJoin
<1> QED BY <1>2, <1>6, <1>7, <1>8, IInvAfter

(* Steps that change nothing but calls, and what hangs on none of the rest. *)
LEMMA CallsOnly ==
  ASSUME IInv, CallsKept, UNCHANGED <<master, list, alive, collaborators, saving, ended>>,
         buddies' \in [Peers -> SUBSET Peers], chan' \in Chans, Asks(chan', master),
         asked' \in [Peers -> SUBSET Sessions],
         joins' \in 0..MaxJoins, saves' \in 0..MaxSaves, breaks' \in 0..MaxBreaks
  PROVE  IInv'
<1>1. Types /\ CollaboratorsMine
  BY IInvParts
<1>2. Finite' /\ Places' /\ CollaboratorsKnown'
  BY SameSessions
<1>3. Types'
  BY <1>1 DEF Types, CallsKept
<1>4. CollaboratorsMine' /\ Asks(chan', master')
  BY <1>1 DEF CollaboratorsMine
<1> QED BY <1>2, <1>3, <1>4, IInvAfter

LEMMA DisconnectSessionIInv ==
  ASSUME IInv, NEW p \in Peers, NEW o \in ToSet(list[p]), DisconnectSession(p, o) PROVE IInv'
<1>1. Types /\ Asks(chan, master)
  BY IInvParts
<1>2. frames[p] \in Seq(Frames)
  BY <1>1 DEF Types
<1>3. CallsKept
  BY <1>2, DisconnectCall DEF DisconnectSession
<1> QED BY <1>1, <1>3, CallsOnly DEF DisconnectSession, Types, bounds

LEMMA SaveIInv ==
  ASSUME IInv, NEW p \in Peers, NEW o \in ToSet(list[p]), Save(p, o) PROVE IInv'
<1> USE LimitsAssumption
<1>1. Types /\ CollaboratorsKnown /\ CollaboratorsMine /\ Asks(chan, master) /\ Finite /\ Places
  BY IInvParts
<1>2. o \in Objects
  BY <1>1 DEF Types, ToSet
<1>3. Types'
  BY <1>1, <1>2 DEF Save, Types
<1>4. CollaboratorsKnown' /\ CollaboratorsMine' /\ Asks(chan', master') /\ Finite'
  BY <1>1 DEF Save, CollaboratorsKnown, CollaboratorsMine, Finite, Known
<1>5. \A r \in Peers : saving'[r] = IF r = p THEN saving[p] \cup {o} ELSE saving[r]
  BY <1>1 DEF Save, Types
<1>6. \A r \in Peers \ nested : ListInv(r)'
  <2> SUFFICES ASSUME NEW r \in Peers \ nested PROVE ListInv(r)'
    OBVIOUS
  <2>1. ListInv(r)
    BY <1>1 DEF Places
  <2> QED BY <1>5, <2>1 DEF Save, ListInv
<1>7. Places'
  BY <1>1, <1>6 DEF Save, Places
<1> QED BY <1>3, <1>4, <1>7, IInvAfter

LEMMA SaveCbIInv ==
  ASSUME IInv, NEW p \in Peers, NEW o \in saving[p], SaveCb(p, o) PROVE IInv'
<1>1. Types /\ CollaboratorsKnown /\ CollaboratorsMine /\ Asks(chan, master) /\ Finite /\ Places
  BY IInvParts
<1>2. Types'
  BY <1>1 DEF SaveCb, Types, bounds
<1>3. CollaboratorsKnown' /\ CollaboratorsMine' /\ Asks(chan', master') /\ Finite'
  BY <1>1 DEF SaveCb, CollaboratorsKnown, CollaboratorsMine, Finite, Known
<1>4. \A r \in Peers : saving'[r] \subseteq saving[r]
  BY <1>1 DEF SaveCb, Types
<1>5. \A r \in Peers \ nested : ListInv(r)'
  <2> SUFFICES ASSUME NEW r \in Peers \ nested PROVE ListInv(r)'
    OBVIOUS
  <2>1. ListInv(r)
    BY <1>1 DEF Places
  <2> QED BY <1>4, <2>1 DEF SaveCb, ListInv
<1>6. Places'
  BY <1>1, <1>5 DEF SaveCb, Places
<1> QED BY <1>2, <1>3, <1>6, IInvAfter

LEMMA DismissIInv ==
  ASSUME IInv, NEW p \in Peers, Dismiss(p) PROVE IInv'
<1>1. Types /\ Asks(chan, master)
  BY IInvParts
<1>2. frames[p] \in Seq(Frames) /\ frames[p] # <<>>
  BY <1>1 DEF Types, Dismiss, Runs
<1>3. Front(frames[p]) \in Seq(Frames) /\ Within(Front(frames[p]), frames[p])
  BY <1>2, Fronted DEF Within
<1>4. CallsKept
  BY <1>3, OtherCall DEF Dismiss
<1> QED BY <1>1, <1>4, CallsOnly DEF Dismiss, Types, bounds

LEMMA QuitIInv ==
  ASSUME IInv, NEW p \in Peers, Quit(p) PROVE IInv'
<1> USE LimitsAssumption
<1>1. Types /\ Asks(chan, master)
  BY IInvParts
<1> DEFINE f == DisconnectFrame(1)
<1>2. f \in Frames /\ f.call # "destroySession"
  BY DEF DisconnectFrame, Frames
<1> HIDE DEF f
<1>3. frames' = [frames EXCEPT ![p] = <<f>>] /\ nested' = nested
  BY DEF Quit, f
<1>4. <<f>> \in Seq(Frames) /\ Within(<<f>>, frames[p])
  BY <1>2 DEF Within
<1>5. CallsKept
  BY <1>3, <1>4, OtherCall
<1> QED BY <1>1, <1>5, CallsOnly DEF Quit, Types

LEMMA BreakIInv ==
  ASSUME IInv, NEW p \in Peers, NEW q \in Peers, Break(p, q) \/ Gone(p, q) PROVE IInv'
<1> USE LimitsAssumption
<1>1. Types /\ Asks(chan, master)
  BY IInvParts
<1>2. CallsKept
  BY SameCalls DEF Break, Gone
<1>3. chan \in Chans
  BY <1>1 DEF Types
<1>4. chan' \in Chans /\ Asks(chan', master)
  BY <1>1, <1>3, CutChans DEF Break, Gone
<1>5. buddies' \in [Peers -> SUBSET Peers]
  <2>1. buddies \in [Peers -> SUBSET Peers]
    BY <1>1 DEF Types
  <2>2. buddies[p] \ {q} \in SUBSET Peers /\ buddies[q] \ {p} \in SUBSET Peers
    BY <2>1
  <2>3. buddies' = [buddies EXCEPT ![p] = @ \ {q}, ![q] = @ \ {p}]
    BY DEF Break, Gone
  <2> QED BY <2>1, <2>2, <2>3
<1>6. breaks' \in 0..MaxBreaks
  BY <1>1 DEF Break, Gone, Types, bounds
<1>7. /\ UNCHANGED <<master, list, alive, collaborators, saving, ended, asked, joins, saves>>
  BY DEF Break, Gone, bounds
<1> QED BY <1>1, <1>2, <1>4, <1>5, <1>6, <1>7, CallsOnly DEF Types
----------------------------------------------------------------------------
(* Packets *)

LEMMA HeadHandled ==
  ASSUME IInv, NEW p \in Peers, NEW q \in Peers, NEW type, HeadIs(p, q, type)
  PROVE  /\ Received(p, q) \in Chans /\ Asks(Received(p, q), master)
         /\ Head(chan[q][p]) \in Packets /\ Head(chan[q][p]).type = type
         /\ type = "join" => master[Head(chan[q][p]).id] = p
         /\ type \in {"start", "join", "joined", "disjoin", "close"} => Head(chan[q][p]).id \in Sessions
<1>1. chan \in Chans /\ Asks(chan, master)
  BY IInvParts DEF Types
<1>2. chan[q][p] # <<>> /\ Head(chan[q][p]).type = type
  BY DEF HeadIs
<1>3. /\ Received(p, q) \in Chans /\ Asks(Received(p, q), master) /\ Head(chan[q][p]) \in Packets
      /\ Head(chan[q][p]).type = "join" => master[Head(chan[q][p]).id] = p
  BY <1>1, <1>2, ReceivedOne
<1>4. \A m \in Packets : m.type \in {"start", "join", "joined", "disjoin", "close"} => m.id \in Sessions
  BY DEF Packets, Lost
<1> QED BY <1>2, <1>3, <1>4

LEMMA HandleStartIInv ==
  ASSUME IInv, NEW p \in Peers, NEW q \in Peers, HandleStart(p, q) PROVE IInv'
<1>1. Types
  BY IInvParts
<1> DEFINE c == Received(p, q)
           m == Head(chan[q][p])
<1>2. c \in Chans /\ Asks(c, master) /\ m \in Packets /\ m.type = "start"
  BY HeadHandled DEF HandleStart
<1>3. chan' = SendAll(c, p, buddies[p] \ {q}, m)
  BY DEF HandleStart
<1> HIDE DEF c, m
<1>4. chan' \in Chans /\ Asks(chan', master)
  BY <1>2, <1>3, SentAll
<1>5. CallsKept
  BY SameCalls DEF HandleStart
<1> QED BY <1>1, <1>4, <1>5, CallsOnly DEF HandleStart, Types, bounds

(* Steps that change the collaborators of one session, besides.             *)
LEMMA CollaboratorsOnly ==
  ASSUME IInv, CallsKept, UNCHANGED <<master, list, alive, saving, buddies, asked, bounds, ended>>,
         chan' \in Chans, Asks(chan', master),
         NEW p \in Peers, NEW s \in Sessions, NEW few \in SUBSET Peers,
         collaborators' = [collaborators EXCEPT ![p][s] = few],
         few # {} => master[s] = p /\ (p \notin nested => Known(p, s))
  PROVE  IInv'
<1>1. Types /\ CollaboratorsKnown /\ CollaboratorsMine
  BY IInvParts
<1>2. Finite' /\ Places'
  BY SameSessions
<1>3. collaborators[p] \in [Sessions -> SUBSET Peers]
  BY <1>1 DEF Types
<1>4. /\ collaborators' \in [Peers -> [Sessions -> SUBSET Peers]]
      /\ \A r \in Peers, x \in Sessions :
           collaborators'[r][x] = IF r = p /\ x = s THEN few ELSE collaborators[r][x]
  <2> DEFINE row == [collaborators[p] EXCEPT ![s] = few]
  <2>1. row \in [Sessions -> SUBSET Peers] /\ \A x \in Sessions : row[x] = IF x = s THEN few ELSE collaborators[p][x]
    BY <1>3
  <2>2. collaborators' = [collaborators EXCEPT ![p] = row]
    OBVIOUS
  <2> HIDE DEF row
  <2> QED BY <1>1, <2>1, <2>2 DEF Types
<1>5. Types'
  BY <1>1, <1>4 DEF Types, CallsKept, bounds
<1>6. CollaboratorsKnown'
  <2> SUFFICES ASSUME NEW r \in Peers \ nested', NEW x \in Sessions, collaborators'[r][x] # {}
               PROVE  Known(r, x)'
    BY DEF CollaboratorsKnown
  <2>1. r \in Peers \ nested
    BY DEF CallsKept
  <2>2. Known(r, x)
    BY <1>1, <1>4, <2>1 DEF CollaboratorsKnown
  <2> QED BY <2>2 DEF Known
<1>7. CollaboratorsMine'
  BY <1>1, <1>4 DEF CollaboratorsMine
<1> QED BY <1>2, <1>5, <1>6, <1>7, IInvAfter

LEMMA HandleJoinRequestIInv ==
  ASSUME IInv, NEW p \in Peers, NEW q \in Peers, HandleJoinRequest(p, q) PROVE IInv'
<1>1. Types
  BY IInvParts
<1> DEFINE c == Received(p, q)
           s == Head(chan[q][p]).id
<1>2. c \in Chans /\ Asks(c, master) /\ s \in Sessions /\ master[s] = p
  BY HeadHandled DEF HandleJoinRequest
<1>3. CallsKept
  BY SameCalls DEF HandleJoinRequest
<1>4. JoinResponse(s) \in Packets /\ JoinResponse(s).type # "join"
  BY <1>2 DEF JoinResponse, Packets
<1>5. CASE Known(p, s)
  <2>1. /\ chan' = SendAll(c, p, {q} \cap buddies[p], JoinResponse(s))
        /\ collaborators' = [collaborators EXCEPT ![p][s] = collaborators[p][s] \cup {q}]
    BY <1>5 DEF HandleJoinRequest
  <2>2. collaborators[p][s] \cup {q} \in SUBSET Peers
    BY <1>1, <1>2 DEF Types
  <2>3. UNCHANGED <<master, list, alive, saving, buddies, asked, bounds, ended>>
    BY DEF HandleJoinRequest
  <2> HIDE DEF c, s
  <2>4. chan' \in Chans /\ Asks(chan', master)
    BY <1>2, <1>4, <2>1, SentAll
  <2> QED BY <1>2, <1>3, <1>5, <2>1, <2>2, <2>3, <2>4, CollaboratorsOnly
<1>6. CASE ~Known(p, s)
  <2>1. chan' = c /\ UNCHANGED collaborators
    BY <1>6 DEF HandleJoinRequest
  <2> HIDE DEF c, s
  <2> QED BY <1>1, <1>2, <1>3, <2>1, CallsOnly DEF HandleJoinRequest, Types, bounds
<1> QED BY <1>5, <1>6

LEMMA HandleJoinResponseIInv ==
  ASSUME IInv, NEW p \in Peers, NEW q \in Peers, HandleJoinResponse(p, q) PROVE IInv'
<1>1. Types /\ CollaboratorsMine
  BY IInvParts
<1> DEFINE s == Head(chan[q][p]).id
           o == NewObject(p, s)
<1>2. Received(p, q) \in Chans /\ Asks(Received(p, q), master) /\ s \in Sessions
  BY HeadHandled DEF HandleJoinResponse
<1>3. /\ list' = [list EXCEPT ![p] = Append(@, o)] /\ alive' = [alive EXCEPT ![p] = @ \cup {o}]
      /\ asked' = [asked EXCEPT ![p] = @ \ {s}]
      /\ chan' = Received(p, q)
      /\ UNCHANGED <<master, collaborators, saving, frames, buddies, bounds, ended, nested>>
  BY DEF HandleJoinResponse
<1> HIDE DEF s
<1>4. \A x : x = o =>
        list' = [list EXCEPT ![p] = Append(@, x)] /\ alive' = [alive EXCEPT ![p] = @ \cup {x}]
  BY <1>3
<1> HIDE DEF o
<1>5. /\ list' \in [Peers -> Seq(Objects)] /\ alive' \in [Peers -> SUBSET Objects]
      /\ CollaboratorsKnown' /\ Finite' /\ Places'
  BY <1>2, <1>3, <1>4, NewSession DEF o
<1>6. asked' \in [Peers -> SUBSET Sessions]
  BY <1>1, <1>3 DEF Types
<1>7. Types'
  BY <1>1, <1>2, <1>3, <1>5, <1>6 DEF Types, bounds
<1>8. CollaboratorsMine' /\ Asks(chan', master')
  BY <1>1, <1>2, <1>3 DEF CollaboratorsMine
<1> QED BY <1>5, <1>7, <1>8, IInvAfter

LEMMA HandleDisjoinIInv ==
  ASSUME IInv, NEW p \in Peers, NEW q \in Peers, HandleDisjoin(p, q) PROVE IInv'
<1>1. Types /\ CollaboratorsKnown /\ CollaboratorsMine
  BY IInvParts
<1> DEFINE s == Head(chan[q][p]).id
<1>2. Received(p, q) \in Chans /\ Asks(Received(p, q), master) /\ s \in Sessions
  BY HeadHandled DEF HandleDisjoin
<1>3. CallsKept
  BY SameCalls DEF HandleDisjoin
<1>4. /\ collaborators' = IF Known(p, s) THEN [collaborators EXCEPT ![p][s] = collaborators[p][s] \ {q}]
                                         ELSE collaborators
      /\ chan' = Received(p, q)
      /\ UNCHANGED <<master, list, alive, saving, buddies, asked, bounds, ended>>
  BY DEF HandleDisjoin
<1> HIDE DEF s
<1>5. CASE Known(p, s)
  <2>1. collaborators[p][s] \ {q} \in SUBSET Peers /\ (collaborators[p][s] # {} => master[s] = p)
    BY <1>1, <1>2 DEF Types, CollaboratorsMine
  <2> QED BY <1>2, <1>3, <1>4, <1>5, <2>1, CollaboratorsOnly
<1>6. CASE ~Known(p, s)
  <2> QED BY <1>1, <1>2, <1>3, <1>4, <1>6, CallsOnly DEF Types, bounds
<1> QED BY <1>5, <1>6

LEMMA HandleCloseIInv ==
  ASSUME IInv, NEW p \in Peers, NEW q \in Peers, HandleClose(p, q) PROVE IInv'
<1>1. Types
  BY IInvParts
<1> DEFINE s == Head(chan[q][p]).id
<1>2. Received(p, q) \in Chans /\ Asks(Received(p, q), master) /\ s \in Sessions
  BY HeadHandled DEF HandleClose
<1>3. list[p] \in Seq(Objects) /\ frames[p] \in Seq(Frames)
  BY <1>1 DEF Types
<1>4. /\ chan' = Received(p, q)
      /\ UNCHANGED <<master, list, alive, collaborators, saving, buddies, asked, bounds, ended>>
      /\ IF Known(p, s) /\ ~isLocallyControlled(p, s)
           THEN Destroy(p, frames[p], DestroyFrame(p, q, Find(p, s), {}, Close(s), TRUE))
           ELSE UNCHANGED <<frames, nested>>
  BY DEF HandleClose
<1> HIDE DEF s
<1>5. CallsKept
  <2>1. CASE Known(p, s) /\ ~isLocallyControlled(p, s)
    <3>1. Find(p, s) \in ToSet(list[p])
      BY <1>3, <2>1, FoundSession
    <3>2. Close(s) \in Farewells
      BY <1>2 DEF Close, Farewells
    <3>3. Destroy(p, frames[p], DestroyFrame(p, q, Find(p, s), {}, Close(s), TRUE))
      BY <1>4, <2>1
    <3> QED BY <1>3, <3>1, <3>2, <3>3, LostCall
  <2>2. CASE ~(Known(p, s) /\ ~isLocallyControlled(p, s))
    BY <1>4, <2>2, SameCalls
  <2> QED BY <2>1, <2>2
<1> QED BY <1>1, <1>2, <1>4, <1>5, CallsOnly DEF Types, bounds

LEMMA HandleLostIInv ==
  ASSUME IInv, NEW p \in Peers, NEW q \in Peers, HandleLost(p, q) PROVE IInv'
<1>1. Types
  BY IInvParts
<1>2. Received(p, q) \in Chans /\ Asks(Received(p, q), master)
  BY HeadHandled DEF HandleLost
<1> DEFINE f == RemoveFrame(q, Len(list[p]))
           g == Append(frames[p], f)
<1>3. frames[p] \in Seq(Frames) /\ list[p] \in Seq(Objects)
  BY <1>1 DEF Types
<1>4. f \in Frames /\ f.call # "destroySession"
  <2>1. Len(list[p]) \in Nat
    BY <1>3, LenProperties
  <2> QED BY <2>1 DEF RemoveFrame, Frames
<1>5. frames' = [frames EXCEPT ![p] = g] /\ nested' = nested
  BY DEF HandleLost
<1> HIDE DEF f
<1>6. g \in Seq(Frames) /\ Within(g, frames[p])
  BY <1>3, <1>4, OtherCalls
<1> HIDE DEF g
<1>7. CallsKept
  BY <1>5, <1>6, OtherCall
<1>8. asked' \in [Peers -> SUBSET Sessions]
  BY <1>1 DEF HandleLost, Types
<1> QED BY <1>1, <1>2, <1>7, <1>8, CallsOnly DEF HandleLost, Types, bounds
----------------------------------------------------------------------------
(* Calls in progress *)

LEMMA Running ==
  ASSUME IInv, NEW p \in Peers, NEW call, Runs(p, call)
  PROVE  /\ frames[p] \in Seq(Frames) /\ frames[p] # <<>> /\ Front(frames[p]) \in Seq(Frames)
         /\ Within(Front(frames[p]), frames[p])
         /\ Last(frames[p]) \in Frames /\ Last(frames[p]).call = call
         /\ Last(frames[p]) = frames[p][Len(frames[p])] /\ Len(frames[p]) \in DOMAIN frames[p]
         /\ DOMAIN Front(frames[p]) = DOMAIN frames[p] \ {Len(frames[p])}
<1>1. frames[p] \in Seq(Frames)
  BY IInvParts DEF Types
<1>2. frames[p] # <<>> /\ Last(frames[p]).call = call
  BY DEF Runs
<1>3. /\ Front(frames[p]) \in Seq(Frames) /\ Last(frames[p]) \in Frames
      /\ DOMAIN Front(frames[p]) = DOMAIN frames[p] \ {Len(frames[p])} /\ Len(frames[p]) \in DOMAIN frames[p]
      /\ \A i \in DOMAIN Front(frames[p]) : Front(frames[p])[i] = frames[p][i]
      /\ Last(frames[p]) = frames[p][Len(frames[p])]
  BY <1>1, <1>2, Fronted
<1> QED BY <1>1, <1>2, <1>3 DEF Within

LEMMA RemoveBuddyIInv ==
  ASSUME IInv, NEW p \in Peers, RemoveBuddy(p) PROVE IInv'
<1>1. Types /\ CollaboratorsMine /\ Asks(chan, master)
  BY IInvParts
<1> DEFINE last == Last(frames[p])
           q == last.from
           i == last.index
           o == list[p][i]
           f == RemoveFrame(q, i - 1)
           stack == Append(Front(frames[p]), f)
<1>2. /\ frames[p] \in Seq(Frames) /\ frames[p] # <<>>
      /\ last \in Frames /\ last.call = "removeBuddy" /\ i > 0
  BY Running DEF RemoveBuddy
<1>3. /\ UNCHANGED <<master, list, alive, saving, buddies, chan, asked, bounds, ended>>
      /\ \/ /\ i \in DOMAIN list[p] /\ master[o.id] = p
            /\ collaborators' = [collaborators EXCEPT ![p][o.id] = collaborators[p][o.id] \ {q}]
            /\ frames' = [frames EXCEPT ![p] = stack]
            /\ UNCHANGED nested
         \/ /\ i \in DOMAIN list[p] /\ master[o.id] = q
            /\ Destroy(p, stack, DestroyFrame(p, q, o, {}, Lost, TRUE))
            /\ UNCHANGED collaborators
         \/ /\ frames' = [frames EXCEPT ![p] = stack]
            /\ UNCHANGED <<collaborators, nested>>
  BY DEF RemoveBuddy
<1> HIDE DEF last
<1>4. q \in Peers /\ i \in Nat
  BY <1>2 DEF Frames, DestroyFrames
<1>5. f \in Frames /\ f.call # "destroySession"
  BY <1>2, <1>4 DEF RemoveFrame, Frames
<1> HIDE DEF q, i, f
<1>6. stack \in Seq(Frames) /\ Within(stack, frames[p])
  BY <1>2, <1>5, OtherCalls
<1> HIDE DEF stack
<1>7. ASSUME i \in DOMAIN list[p]
      PROVE  o \in ToSet(list[p]) /\ o \in Objects /\ o.id \in Sessions
  <2>1. list[p] \in Seq(Objects)
    BY <1>1 DEF Types
  <2>2. o \in Objects
    BY <1>7, <2>1
  <2> QED BY <1>7, <2>2 DEF ToSet, Objects
<1> HIDE DEF o
<1>8. CASE /\ i \in DOMAIN list[p] /\ master[o.id] = p
           /\ collaborators' = [collaborators EXCEPT ![p][o.id] = collaborators[p][o.id] \ {q}]
           /\ frames' = [frames EXCEPT ![p] = stack]
           /\ UNCHANGED nested
  <2>1. CallsKept
    BY <1>6, <1>8, OtherCall
  <2>2. o.id \in Sessions /\ collaborators[p][o.id] \ {q} \in SUBSET Peers
    BY <1>1, <1>7, <1>8 DEF Types
  <2>3. p \notin nested => Known(p, o.id)
    BY <1>8 DEF Known, o
  <2>4. chan \in Chans /\ chan' = chan
    BY <1>1, <1>3 DEF Types
  <2>5. chan' \in Chans /\ Asks(chan', master)
    BY <1>1, <2>4
  <2>6. UNCHANGED <<master, list, alive, saving, buddies, asked, bounds, ended>>
    BY <1>3
  <2> QED BY <1>8, <2>1, <2>2, <2>3, <2>5, <2>6, CollaboratorsOnly
<1>9. CASE /\ i \in DOMAIN list[p] /\ master[o.id] = q
           /\ Destroy(p, stack, DestroyFrame(p, q, o, {}, Lost, TRUE))
           /\ UNCHANGED collaborators
  <2>1. Lost \in Farewells
    BY DEF Farewells
  <2>2. CallsKept
    BY <1>4, <1>6, <1>7, <1>9, <2>1, LostCall
  <2> QED BY <1>1, <1>3, <1>9, <2>2, CallsOnly DEF Types, bounds
<1>10. CASE /\ frames' = [frames EXCEPT ![p] = stack]
            /\ UNCHANGED <<collaborators, nested>>
  <2>1. CallsKept
    BY <1>6, <1>10, OtherCall
  <2> QED BY <1>1, <1>3, <1>10, <2>1, CallsOnly DEF Types, bounds
<1> QED BY <1>3, <1>8, <1>9, <1>10

LEMMA RemoveBuddyReturnsIInv ==
  ASSUME IInv, NEW p \in Peers, RemoveBuddyReturns(p) PROVE IInv'
<1>1. Types /\ Asks(chan, master)
  BY IInvParts
<1>2. Front(frames[p]) \in Seq(Frames) /\ Within(Front(frames[p]), frames[p])
  BY Running DEF RemoveBuddyReturns
<1>3. CallsKept
  BY <1>2, OtherCall DEF RemoveBuddyReturns
<1> QED BY <1>1, <1>3, CallsOnly DEF RemoveBuddyReturns, Types, bounds

LEMMA DisconnectSessionsIInv ==
  ASSUME IInv, NEW p \in Peers, DisconnectSessions(p) PROVE IInv'
<1>1. Types /\ CollaboratorsMine /\ Asks(chan, master)
  BY IInvParts
<1> DEFINE last == Last(frames[p])
           i == last.index
           f == DisconnectFrame(i + 1)
           stack == Append(Front(frames[p]), f)
<1>2. /\ frames[p] \in Seq(Frames) /\ frames[p] # <<>>
      /\ last \in Frames /\ last.call = "disconnectSessions"
  BY Running DEF DisconnectSessions
<1>3. /\ UNCHANGED <<master, list, alive, collaborators, saving, buddies, chan, asked, bounds>>
      /\ \/ i \in DOMAIN list[p] /\ Disconnect(p, stack, list[p][i]) /\ UNCHANGED ended
         \/ ended' = [ended EXCEPT ![p] = "quit"] /\ UNCHANGED <<frames, nested>>
  BY DEF DisconnectSessions
<1> HIDE DEF last
<1>4. i \in Nat
  BY <1>2 DEF Frames, DestroyFrames
<1>5. f \in Frames
  BY <1>4 DEF DisconnectFrame, Frames
<1> HIDE DEF i, f
<1>6. stack \in Seq(Frames)
  BY <1>2, <1>5, OtherCalls
<1> HIDE DEF stack
<1>7. CASE i \in DOMAIN list[p] /\ Disconnect(p, stack, list[p][i]) /\ UNCHANGED ended
  <2>1. list[p][i] \in ToSet(list[p])
    BY <1>7 DEF ToSet
  <2>2. CallsKept
    BY <1>6, <1>7, <2>1, DisconnectCall
  <2> QED BY <1>1, <1>3, <1>7, <2>2, CallsOnly DEF Types, bounds
<1>8. CASE ended' = [ended EXCEPT ![p] = "quit"] /\ UNCHANGED <<frames, nested>>
  <2>1. CollaboratorsKnown /\ Finite /\ Places
    BY IInvParts
  <2>2. ended' \in [Peers -> {"no", "quit", "crash"}] /\ \A r \in Peers : ended'[r] = "crash" => ended[r] = "crash"
    BY <1>1, <1>8 DEF Types
  <2>3. Types'
    BY <1>1, <1>3, <1>8, <2>2 DEF Types, bounds
  <2>4. CollaboratorsKnown' /\ CollaboratorsMine' /\ Finite' /\ Asks(chan', master')
    BY <1>1, <1>3, <1>8, <2>1 DEF CollaboratorsKnown, CollaboratorsMine, Finite, Known
  <2>5. Places'
    <3>1. \A r \in Peers \ nested : ListInv(r)'
      BY <1>3, <2>1 DEF Places, ListInv
    <3> QED BY <1>3, <1>8, <2>1, <2>2, <3>1 DEF Places
  <2> QED BY <2>3, <2>4, <2>5, IInvAfter
<1> QED BY <1>3, <1>7, <1>8

(* What destroySession has found before it waits is right after it, unless  *)
(* another session has been destroyed meanwhile.                            *)
LEMMA DestroyedInPlace ==
  ASSUME IInv, NEW p \in Peers \ nested, Runs(p, "destroySession")
  PROVE  /\ Last(frames[p]).index \in DOMAIN list[p]
         /\ list[p][Last(frames[p]).index] = Last(frames[p]).object
         /\ Last(frames[p]).object \in alive[p] /\ Distinct(list[p]) /\ ToSet(list[p]) = alive[p]
         /\ saving[p] \subseteq alive[p] /\ Destroying(Front(frames[p])) = {}
<1>1. InPlace(frames[p], list[p]) /\ ListInv(p)
  BY IInvParts DEF Places
<1> DEFINE n == Len(frames[p])
<1>2. /\ Last(frames[p]) = frames[p][n] /\ n \in DOMAIN frames[p]
      /\ Last(frames[p]).call = "destroySession"
      /\ DOMAIN Front(frames[p]) = DOMAIN frames[p] \ {n} /\ Within(Front(frames[p]), frames[p])
  BY Running
<1> HIDE DEF n
<1>3. n \in Destroying(frames[p])
  BY <1>2 DEF Destroying
<1>4. Destroying(Front(frames[p])) = {}
  BY <1>1, <1>2, <1>3 DEF InPlace, Destroying, Within
<1>5. /\ Last(frames[p]).index \in DOMAIN list[p]
      /\ list[p][Last(frames[p]).index] = Last(frames[p]).object
  BY <1>1, <1>2, <1>3 DEF InPlace
<1>6. Distinct(list[p]) /\ ToSet(list[p]) = alive[p] /\ saving[p] \subseteq alive[p]
  BY <1>1 DEF ListInv, Distinct
<1>7. Last(frames[p]).object \in alive[p]
  BY <1>5, <1>6 DEF ToSet
<1> QED BY <1>4, <1>5, <1>6, <1>7

LEMMA DestroySessionIInv ==
  ASSUME IInv, NEW p \in Peers, DestroySession(p) PROVE IInv'
<1>1. Types /\ CollaboratorsKnown /\ CollaboratorsMine /\ Asks(chan, master) /\ Finite /\ Places
  BY IInvParts
<1> DEFINE f == Last(frames[p])
           o == f.object
           l == list[p]
           d == RemoveAt(l, f.index)
           box == IF f.box THEN <<MessageBoxFrame(f.from)>> ELSE <<>>
           g == Front(frames[p]) \o box
<1>2. /\ Runs(p, "destroySession") /\ f \in Frames /\ f.call = "destroySession"
      /\ Front(frames[p]) \in Seq(Frames)
  BY Running DEF DestroySession
<1>3. o \notin saving[p]
  BY <1>2 DEF DestroySession, Waits
<1>4. /\ o \in Objects /\ o.id \in Sessions /\ f.from \in Peers \cup {None} /\ f.event \in Farewells
         /\ f.box \in BOOLEAN
  BY <1>2 DEF Frames, DestroyFrames, Objects
<1>5. UNCHANGED <<master, saving, buddies, asked, bounds, nested>>
  BY DEF DestroySession
<1>6. CASE o \in alive[p] /\ f.index \in DOMAIN l
  <2>1. /\ alive' = [alive EXCEPT ![p] = alive[p] \ {o}]
        /\ list' = [list EXCEPT ![p] = d]
        /\ collaborators' = IF master[o.id] = p THEN [collaborators EXCEPT ![p][o.id] = {}] ELSE collaborators
        /\ chan' = SendAll(chan, p, f.to \cap buddies[p], f.event)
        /\ frames' = [frames EXCEPT ![p] = g]
        /\ ended' = ended
    BY <1>6 DEF DestroySession, isLocallyControlled
  <2>2. l \in Seq(Objects) /\ chan \in Chans
    BY <1>1 DEF Types
  <2>3. d \in Seq(Objects) /\ (Distinct(l) => Distinct(d) /\ ToSet(d) = ToSet(l) \ {l[f.index]})
    BY <1>6, <2>2, Deleted
  <2>4. f.event \in Packets /\ f.event.type # "join"
    BY <1>4 DEF Farewells, Packets, Lost
  <2>5. chan' \in Chans /\ Asks(chan', master)
    BY <1>1, <2>1, <2>2, <2>4, SentAll
  <2>6. /\ g \in Seq(Frames)
        /\ Destroying(Front(frames[p])) = {} => Destroying(g) = {}
    <3> DEFINE m == MessageBoxFrame(f.from)
               h == Front(frames[p])
    <3>1. m \in Frames /\ m.call # "destroySession"
      BY <1>4 DEF MessageBoxFrame, Frames
    <3> HIDE DEF m, h
    <3>2. h \in Seq(Frames) /\ g = h \o (IF f.box THEN <<m>> ELSE <<>>)
      BY <1>2 DEF h, m
    <3>3. CASE f.box
      <4>1. g = Append(h, m)
        BY <3>1, <3>2, <3>3, AppendIsConcat
      <4>2. Within(g, h) /\ g \in Seq(Frames)
        BY <3>1, <3>2, <4>1, OtherCalls
      <4> QED BY <4>2 DEF Within, Destroying, h
    <3>4. CASE ~f.box
      <4>1. g = h
        BY <3>2, <3>4, ConcatEmptySeq
      <4> QED BY <3>2, <4>1 DEF h
    <3> QED BY <3>3, <3>4
  <2> HIDE DEF d, g, o
  <2>7. list' \in [Peers -> Seq(Objects)] /\ \A r \in Peers : list'[r] = IF r = p THEN d ELSE list[r]
    BY <1>1, <2>1, <2>3 DEF Types
  <2>8. /\ alive' \in [Peers -> SUBSET Objects]
        /\ \A r \in Peers : alive'[r] = IF r = p THEN alive[p] \ {o} ELSE alive[r]
    BY <1>1, <2>1 DEF Types
  <2>9. frames' \in [Peers -> Seq(Frames)] /\ \A r \in Peers : frames'[r] = IF r = p THEN g ELSE frames[r]
    BY <1>1, <2>1, <2>6 DEF Types
  <2>10. /\ collaborators' \in [Peers -> [Sessions -> SUBSET Peers]]
         /\ \A r \in Peers, x \in Sessions :
              collaborators'[r][x] = IF r = p /\ x = o.id /\ master[x] = p THEN {} ELSE collaborators[r][x]
    <3> DEFINE row == [collaborators[p] EXCEPT ![o.id] = {}]
    <3>1. collaborators[p] \in [Sessions -> SUBSET Peers]
      BY <1>1 DEF Types
    <3>2. row \in [Sessions -> SUBSET Peers] /\ \A x \in Sessions : row[x] = IF x = o.id THEN {} ELSE collaborators[p][x]
      BY <3>1
    <3>3. collaborators' = IF master[o.id] = p THEN [collaborators EXCEPT ![p] = row] ELSE collaborators
      BY <2>1
    <3> HIDE DEF row
    <3> QED BY <1>1, <3>2, <3>3 DEF Types
  <2>11. Types'
    BY <1>1, <1>5, <2>1, <2>5, <2>7, <2>8, <2>9, <2>10 DEF Types, bounds
  <2>12. CollaboratorsMine' /\ Asks(chan', master')
    BY <1>1, <1>5, <2>5, <2>10 DEF CollaboratorsMine
  <2>13. Finite'
    <3>1. IsFiniteSet(alive[p] \ {o})
      BY <1>1, FS_RemoveElement DEF Finite
    <3> QED BY <1>1, <2>8, <3>1 DEF Finite
  <2>14. ASSUME NEW r \in Peers \ nested, r # p
         PROVE  /\ ended'[r] # "crash" /\ ListInv(r)' /\ InPlace(frames'[r], list'[r])
                /\ \A x \in Sessions : collaborators'[r][x] # {} => Known(r, x)'
    <3>1. list'[r] = list[r] /\ alive'[r] = alive[r] /\ frames'[r] = frames[r]
      BY <2>7, <2>8, <2>9, <2>14
    <3>2. ended[r] # "crash" /\ ListInv(r) /\ InPlace(frames[r], list[r])
      BY <1>1 DEF Places
    <3>3. ListInv(r)'
      BY <1>5, <3>1, <3>2 DEF ListInv
    <3>4. \A x \in Sessions : collaborators'[r][x] # {} => Known(r, x)'
      BY <1>1, <2>10, <2>14, <3>1 DEF CollaboratorsKnown, Known
    <3> QED BY <2>1, <3>1, <3>2, <3>3, <3>4
  <2>15. ASSUME p \notin nested
         PROVE  /\ ended'[p] # "crash" /\ ListInv(p)' /\ InPlace(frames'[p], list'[p])
                /\ \A x \in Sessions : collaborators'[p][x] # {} => Known(p, x)'
    <3>1. /\ l[f.index] = o /\ Distinct(l) /\ ToSet(l) = alive[p]
          /\ saving[p] \subseteq alive[p] /\ Destroying(Front(frames[p])) = {}
      BY <1>2, <2>15, DestroyedInPlace DEF o
    <3>2. Distinct(d) /\ ToSet(d) = alive[p] \ {o}
      BY <2>3, <3>1
    <3>3. list'[p] = d /\ alive'[p] = alive[p] \ {o} /\ frames'[p] = g
      BY <2>7, <2>8, <2>9
    <3>4. ListInv(p)'
      BY <1>3, <1>5, <3>1, <3>2, <3>3 DEF ListInv, Distinct
    <3>5. InPlace(frames'[p], list'[p])
      BY <2>6, <3>1, <3>3 DEF InPlace
    <3>6. ASSUME NEW x \in Sessions, collaborators'[p][x] # {} PROVE Known(p, x)'
      <4>1. collaborators[p][x] # {} /\ ~(x = o.id /\ master[x] = p)
        BY <2>10, <3>6
      <4>2. master[x] = p /\ Known(p, x)
        BY <1>1, <2>15, <4>1 DEF CollaboratorsMine, CollaboratorsKnown
      <4>3. PICK i \in DOMAIN l : l[i].id = x
        BY <4>2 DEF Known
      <4>4. l[i] \in ToSet(d)
        BY <3>1, <3>2, <4>1, <4>2, <4>3 DEF ToSet
      <4>5. PICK j \in DOMAIN d : d[j] = l[i]
        BY <4>4 DEF ToSet
      <4> QED BY <3>3, <4>3, <4>5 DEF Known
    <3>7. ended'[p] # "crash"
      BY <1>1, <2>1, <2>15 DEF Places
    <3> QED BY <3>4, <3>5, <3>6, <3>7
  <2>16. CollaboratorsKnown' /\ Places'
    BY <1>5, <2>14, <2>15 DEF CollaboratorsKnown, Places
  <2> QED BY <2>11, <2>12, <2>13, <2>16, IInvAfter
<1>7. CASE ~(o \in alive[p] /\ f.index \in DOMAIN l)
  <2>1. /\ ended' = [ended EXCEPT ![p] = "crash"]
        /\ UNCHANGED <<alive, list, collaborators, chan, frames>>
    BY <1>7 DEF DestroySession
  <2>2. p \in nested
    BY <1>2, <1>7, DestroyedInPlace
  <2>3. /\ ended' \in [Peers -> {"no", "quit", "crash"}]
        /\ \A r \in Peers \ nested : ended'[r] = ended[r]
    BY <1>1, <2>1, <2>2 DEF Types
  <2>4. CallsKept
    BY <1>5, <2>1, SameCalls
  <2>5. Finite' /\ Places' /\ CollaboratorsKnown'
    BY <1>5, <2>1, <2>3, <2>4, SameSessions
  <2>6. Types'
    BY <1>1, <1>5, <2>1, <2>3 DEF Types, bounds
  <2>7. CollaboratorsMine' /\ Asks(chan', master')
    BY <1>1, <1>5, <2>1 DEF CollaboratorsMine
  <2> QED BY <2>5, <2>6, <2>7, IInvAfter
<1> QED BY <1>6, <1>7
----------------------------------------------------------------------------
(* Theorems *)

LEMMA NextIInv ==
  ASSUME IInv, [Next]_vars PROVE IInv'
<1>1. CASE \E p \in Peers : Calls(p)
  BY <1>1, RemoveBuddyIInv, RemoveBuddyReturnsIInv, DisconnectSessionsIInv, DestroySessionIInv DEF Calls
<1>2. CASE \E p \in Peers : Dismiss(p) \/ \E o \in saving[p] : SaveCb(p, o)
  BY <1>2, DismissIInv, SaveCbIInv
<1>3. CASE \E p, q \in Peers : Handle(p, q)
  BY <1>3, HandleStartIInv, HandleJoinRequestIInv, HandleJoinResponseIInv, HandleDisjoinIInv,
     HandleCloseIInv, HandleLostIInv DEF Handle
<1>4. CASE \E p, q \in Peers : Break(p, q) \/ Gone(p, q)
  BY <1>4, BreakIInv
<1>5. CASE \E p \in Peers : Users(p)
  BY <1>5, StartSessionIInv, AskToJoinIInv, DisconnectSessionIInv, SaveIInv, QuitIInv DEF Users
<1>6. CASE UNCHANGED vars
  <2>1. CallsKept
    BY <1>6, SameCalls DEF vars
  <2> QED BY <1>6, <2>1, CallsOnly, IInvParts DEF vars, bounds, Types
<1> QED BY <1>1, <1>2, <1>3, <1>4, <1>5, <1>6 DEF Next, System

(* No step of a user, a packet, a connection, the service or a call in      *)
(* progress breaks the invariant.                                           *)
THEOREM IInvInductive == (Init => IInv) /\ (IInv /\ [Next]_vars => IInv')
BY InitIInv, NextIInv

(* So it always holds, whatever peers, links and sessions there are.        *)
THEOREM AlwaysIInv == Spec => []IInv
BY IInvInductive, PTL DEF Spec

(* The types of the module, and that only sessions a peer has have          *)
(* collaborators (m_vCollaborators dies with its AbiCollab).                *)
THEOREM AlwaysTypeOK == Spec => []TypeOK
<1>1. IInv => TypeOK
  BY DEF IInv
<1> QED BY <1>1, AlwaysIInv, PTL

(* Whatever is destroyed from nested main loops and from within the walks   *)
(* over m_vecSessions, the vector and the objects stay together, nothing is *)
(* deleted twice, and no operation outlives its session, as long as no      *)
(* session is destroyed within the wait for another.                        *)
THEOREM AlwaysSessionsExist == Spec => []SessionsExist
<1>1. IInv => SessionsExist
  <2> SUFFICES ASSUME IInv, NEW p \in Peers \ nested
               PROVE  /\ ended[p] # "crash"
                      /\ ToSet(list[p]) = alive[p] /\ Len(list[p]) = Cardinality(alive[p])
                      /\ saving[p] \subseteq alive[p]
    BY DEF SessionsExist
  <2>1. ended[p] # "crash" /\ ListInv(p) /\ list[p] \in Seq(Objects) /\ IsFiniteSet(alive[p])
    BY IInvParts DEF Places, Types, Finite
  <2>2. Distinct(list[p]) /\ ToSet(list[p]) = alive[p] /\ saving[p] \subseteq alive[p]
    BY <2>1 DEF ListInv, Distinct
  <2>3. Len(list[p]) = Cardinality(ToSet(list[p]))
    <3> DEFINE l == list[p]
    <3>1. l \in Seq(Objects) /\ Distinct(l) /\ IsFiniteSet(ToSet(l))
      BY <2>1, <2>2
    <3> HIDE DEF l
    <3>2. Len(l) = Cardinality(ToSet(l))
      BY <3>1, DistinctLength
    <3> QED BY <3>2 DEF l
  <2> QED BY <2>1, <2>2, <2>3
<1> QED BY <1>1, AlwaysIInv, PTL
----------------------------------------------------------------------------
(* Announcements *)

(* Links without a cycle are those that have two sides each: a set side[q][p] *)
(* for the peers on the side of q of the link {p, q}, with all that q is    *)
(* linked to but p.                                                         *)
Sides(side) ==
  \A p, q \in Peers : {p, q} \in Links =>
    /\ q \in side[q][p] /\ p \notin side[q][p]
    /\ \A r \in Peers \ {p} : {q, r} \in Links => side[r][q] \subseteq side[q][p]

(* Then an announcement only moves away from its master.                    *)
Outward(side, c) ==
  \A s \in Sessions : \A p, q \in Peers :
    Start(s) \in ToSet(c[q][p]) => master[s] \in Peers /\ {p, q} \in Links /\ master[s] \in side[q][p]

BuddiesLinked == \A p, q \in Peers : q \in buddies[p] => {p, q} \in Links

EchoInv(side) == BuddiesLinked /\ Outward(side, chan)

LEMMA SentItems ==
  ASSUME NEW c \in Chans, NEW p \in Peers, NEW to, NEW m \in Packets
  PROVE  \A a, b \in Peers : \A x \in ToSet(SendAll(c, p, to, m)[a][b]) :
           x \in ToSet(c[a][b]) \/ (x = m /\ a = p /\ b \in to)
<1> SUFFICES ASSUME NEW a \in Peers, NEW b \in Peers, NEW x \in ToSet(SendAll(c, p, to, m)[a][b])
             PROVE  x \in ToSet(c[a][b]) \/ (x = m /\ a = p /\ b \in to)
  OBVIOUS
<1>1. c[a][b] \in Seq(Packets)
  BY DEF Chans
<1>2. SendAll(c, p, to, m)[a][b] = IF a = p /\ b \in to THEN Append(c[a][b], m) ELSE c[a][b]
  BY DEF SendAll, Chans
<1>3. ToSet(Append(c[a][b], m)) = ToSet(c[a][b]) \cup {m}
  BY <1>1, Appended
<1> QED BY <1>2, <1>3

LEMMA ReceivedItems ==
  ASSUME chan \in Chans, NEW p \in Peers, NEW q \in Peers, chan[q][p] # <<>>
  PROVE  /\ \A a, b \in Peers : ToSet(Received(p, q)[a][b]) \subseteq ToSet(chan[a][b])
         /\ Head(chan[q][p]) \in ToSet(chan[q][p])
<1>1. chan[q][p] \in Seq(Packets)
  BY DEF Chans
<1>2. ToSet(Tail(chan[q][p])) \subseteq ToSet(chan[q][p]) /\ Head(chan[q][p]) \in ToSet(chan[q][p])
  BY <1>1, Tailed
<1>3. \A a, b \in Peers : Received(p, q)[a][b] = IF a = q /\ b = p THEN Tail(chan[a][b]) ELSE chan[a][b]
  BY DEF Received, Chans
<1> QED BY <1>2, <1>3

LEMMA CutItems ==
  ASSUME chan \in Chans, NEW p \in Peers, NEW q \in Peers
  PROVE  \A a, b \in Peers : ToSet(Cut(chan, p, q)[a][b]) \subseteq ToSet(chan[a][b]) \cup {Lost}
<1> SUFFICES ASSUME NEW a \in Peers, NEW b \in Peers
             PROVE  ToSet(Cut(chan, p, q)[a][b]) \subseteq ToSet(chan[a][b]) \cup {Lost}
  OBVIOUS
<1>1. chan[a][b] \in Seq(Packets) /\ Lost \in Packets
  BY DEF Chans, Packets
<1>2. Cut(chan, p, q)[a][b] = IF {a, b} = {p, q} THEN Append(chan[a][b], Lost) ELSE chan[a][b]
  BY DEF Cut
<1>3. ToSet(Append(chan[a][b], Lost)) = ToSet(chan[a][b]) \cup {Lost}
  BY <1>1, Appended
<1> QED BY <1>2, <1>3

(* What a step adds to the queues, of announcements.                        *)
LEMMA Announced ==
  ASSUME IInv, [Next]_vars
  PROVE  \A s \in Sessions : \A a, b \in Peers : Start(s) \in ToSet(chan'[a][b]) =>
           \/ Start(s) \in ToSet(chan[a][b])
           \/ StartSession(a, s) /\ b \in buddies[a]
           \/ \E q \in Peers : Start(s) \in ToSet(chan[q][a]) /\ b \in buddies[a] \ {q}
<1> SUFFICES ASSUME NEW s \in Sessions, NEW a \in Peers, NEW b \in Peers,
                    Start(s) \in ToSet(chan'[a][b]), Start(s) \notin ToSet(chan[a][b])
             PROVE  \/ StartSession(a, s) /\ b \in buddies[a]
                    \/ \E q \in Peers : Start(s) \in ToSet(chan[q][a]) /\ b \in buddies[a] \ {q}
  OBVIOUS
<1>1. chan \in Chans
  BY IInvParts DEF Types
<1>2. ASSUME NEW p \in Peers, NEW r \in Sessions, StartSession(p, r)
      PROVE  StartSession(a, s) /\ b \in buddies[a]
  <2>1. Start(r) \in Packets /\ chan' = SendAll(chan, p, buddies[p], Start(r))
    BY <1>2 DEF Start, Packets, StartSession
  <2>2. Start(s) = Start(r) /\ a = p /\ b \in buddies[p]
    BY <1>1, <2>1, SentItems
  <2>3. s = r
    BY <2>2 DEF Start
  <2> QED BY <1>2, <2>2, <2>3
<1>3. ASSUME NEW p \in Peers, NEW r \in Sessions, AskToJoin(p, r) PROVE FALSE
  <2>1. JoinRequest(r) \in Packets /\ chan' = SendAll(chan, p, {master[r]}, JoinRequest(r))
    BY <1>3 DEF JoinRequest, Packets, AskToJoin
  <2>2. Start(s) = JoinRequest(r)
    BY <1>1, <2>1, SentItems
  <2> QED BY <2>2 DEF Start, JoinRequest
<1>4. ASSUME NEW p \in Peers, NEW q \in Peers, Break(p, q) \/ Gone(p, q) PROVE FALSE
  <2>1. Start(s) = Lost
    BY <1>1, <1>4, CutItems DEF Break, Gone
  <2> QED BY <2>1 DEF Start, Lost
<1>5. ASSUME NEW p \in Peers, NEW q \in Peers, Handle(p, q)
      PROVE  \E x \in Peers : Start(s) \in ToSet(chan[x][a]) /\ b \in buddies[a] \ {x}
  <2> DEFINE c == Received(p, q)
             h == Head(chan[q][p])
  <2>1. PICK type : HeadIs(p, q, type)
    BY <1>5 DEF Handle, HandleStart, HandleJoinRequest, HandleJoinResponse, HandleDisjoin, HandleClose,
         HandleLost
  <2>2. chan[q][p] # <<>>
    BY <2>1 DEF HeadIs
  <2>3. c \in Chans /\ h \in Packets
    BY <2>1, HeadHandled
  <2>4. Start(s) \notin ToSet(c[a][b]) /\ h \in ToSet(chan[q][p])
    BY <1>1, <2>2, ReceivedItems
  <2>5. CASE HandleStart(p, q)
    <3>1. chan' = SendAll(c, p, buddies[p] \ {q}, h)
      BY <2>5 DEF HandleStart
    <3> HIDE DEF c, h
    <3>2. Start(s) = h /\ a = p /\ b \in buddies[p] \ {q}
      BY <2>3, <2>4, <3>1, SentItems
    <3> QED BY <2>4, <3>2
  <2>6. CASE HandleJoinRequest(p, q)
    <3>1. h.id \in Sessions
      BY <2>6, HeadHandled DEF HandleJoinRequest
    <3>2. JoinResponse(h.id) \in Packets
      BY <3>1 DEF JoinResponse, Packets
    <3>3. chan' = c \/ chan' = SendAll(c, p, {q} \cap buddies[p], JoinResponse(h.id))
      BY <2>6 DEF HandleJoinRequest
    <3> HIDE DEF c, h
    <3>4. Start(s) = JoinResponse(h.id)
      BY <2>3, <2>4, <3>2, <3>3, SentItems
    <3> QED BY <3>4 DEF Start, JoinResponse
  <2>7. CASE HandleJoinResponse(p, q) \/ HandleDisjoin(p, q) \/ HandleClose(p, q) \/ HandleLost(p, q)
    BY <2>4, <2>7 DEF HandleJoinResponse, HandleDisjoin, HandleClose, HandleLost
  <2> QED BY <1>5, <2>5, <2>6, <2>7 DEF Handle
<1>6. ASSUME NEW p \in Peers, DestroySession(p) PROVE FALSE
  <2> DEFINE f == Last(frames[p])
  <2>1. f \in Frames /\ f.call = "destroySession"
    BY <1>6, Running DEF DestroySession
  <2>2. f.event \in Farewells
    BY <2>1 DEF Frames, DestroyFrames
  <2>3. f.event \in Packets
    BY <2>2 DEF Farewells, Packets
  <2>4. chan' = chan \/ chan' = SendAll(chan, p, f.to \cap buddies[p], f.event)
    BY <1>6 DEF DestroySession
  <2> HIDE DEF f
  <2>5. Start(s) = f.event
    BY <1>1, <2>3, <2>4, SentItems
  <2> QED BY <2>2, <2>5 DEF Start, Farewells, Lost
<1>7. ASSUME NEW p \in Peers, RemoveBuddy(p) \/ RemoveBuddyReturns(p) \/ DisconnectSessions(p) \/ Dismiss(p) \/ Quit(p)
      PROVE  FALSE
  BY <1>7 DEF RemoveBuddy, RemoveBuddyReturns, DisconnectSessions, Dismiss, Quit
<1>8. ASSUME NEW p \in Peers, NEW o, DisconnectSession(p, o) \/ Save(p, o) \/ SaveCb(p, o) PROVE FALSE
  BY <1>8 DEF DisconnectSession, Save, SaveCb
<1>9. ~UNCHANGED vars
  BY DEF vars
<1>10. \E p \in Peers : Users(p) \/ Calls(p) \/ Dismiss(p) \/ (\E o \in saving[p] : SaveCb(p, o))
                        \/ \E q \in Peers : Handle(p, q) \/ Gone(p, q) \/ Break(p, q)
  BY <1>9 DEF Next, System
<1> QED BY <1>2, <1>3, <1>4, <1>5, <1>6, <1>7, <1>8, <1>10 DEF Users, Calls

(* Only StartSession names a master, and only the end of a connection takes *)
(* a buddy away.                                                            *)
LEMMA Settling ==
  ASSUME [Next]_vars
  PROVE  /\ master' = master \/ \E p \in Peers, s \in Sessions : StartSession(p, s)
         /\ \/ buddies' = buddies
            \/ \E p, q \in Peers : buddies' = [buddies EXCEPT ![p] = @ \ {q}, ![q] = @ \ {p}]
<1> DEFINE Same == master' = master /\ buddies' = buddies
<1>1. CASE UNCHANGED vars
  BY <1>1 DEF vars
<1>2. ASSUME NEW p \in Peers, NEW s \in Sessions, StartSession(p, s) PROVE buddies' = buddies
  BY <1>2 DEF StartSession
<1>3. ASSUME NEW p \in Peers, NEW s \in Sessions, AskToJoin(p, s) PROVE Same
  BY <1>3 DEF AskToJoin
<1>4. ASSUME NEW p \in Peers, NEW o, DisconnectSession(p, o) \/ Save(p, o) \/ SaveCb(p, o) PROVE Same
  BY <1>4 DEF DisconnectSession, Save, SaveCb
<1>5. ASSUME NEW p \in Peers, Quit(p) \/ Dismiss(p) PROVE Same
  BY <1>5 DEF Quit, Dismiss
<1>6. ASSUME NEW p \in Peers, Calls(p) PROVE Same
  BY <1>6 DEF Calls, RemoveBuddy, RemoveBuddyReturns, DisconnectSessions, DestroySession
<1>7. ASSUME NEW p \in Peers, NEW q \in Peers, Handle(p, q) PROVE Same
  BY <1>7 DEF Handle, HandleStart, HandleJoinRequest, HandleJoinResponse, HandleDisjoin, HandleClose,
       HandleLost
<1>8. ASSUME NEW p \in Peers, NEW q \in Peers, Break(p, q) \/ Gone(p, q)
      PROVE  /\ master' = master
             /\ buddies' = [buddies EXCEPT ![p] = @ \ {q}, ![q] = @ \ {p}]
  BY <1>8 DEF Break, Gone
<1>9. CASE Next
  <2>1. \E p \in Peers : Users(p) \/ Calls(p) \/ Dismiss(p) \/ (\E o \in saving[p] : SaveCb(p, o))
                         \/ \E q \in Peers : Handle(p, q) \/ Gone(p, q) \/ Break(p, q)
    BY <1>9 DEF Next, System
  <2> QED BY <1>2, <1>3, <1>4, <1>5, <1>6, <1>7, <1>8, <2>1 DEF Users
<1> QED BY <1>1, <1>9

LEMMA NextEchoInv ==
  ASSUME NEW side, Sides(side), IInv, EchoInv(side), [Next]_vars PROVE EchoInv(side)'
<1>1. Types
  BY IInvParts
<1>2. \A s \in Sessions : master[s] \in Peers => master'[s] = master[s]
  BY <1>1, Settling, PeersAssumption DEF Types, StartSession
<1>3. \A p \in Peers : buddies'[p] \subseteq buddies[p]
  <2>1. CASE buddies' = buddies
    BY <2>1
  <2>2. ASSUME NEW p \in Peers, NEW q \in Peers, buddies' = [buddies EXCEPT ![p] = @ \ {q}, ![q] = @ \ {p}]
        PROVE  \A r \in Peers : buddies'[r] \subseteq buddies[r]
    <3>1. buddies \in [Peers -> SUBSET Peers]
      BY <1>1 DEF Types
    <3> QED BY <2>2, <3>1
  <2> QED BY <2>1, <2>2, Settling
<1>4. BuddiesLinked'
  BY <1>3 DEF EchoInv, BuddiesLinked
<1>5. Outward(side, chan)'
  <2> SUFFICES ASSUME NEW s \in Sessions, NEW p \in Peers, NEW q \in Peers, Start(s) \in ToSet(chan'[q][p])
               PROVE  master'[s] \in Peers /\ {p, q} \in Links /\ master'[s] \in side[q][p]
    BY DEF Outward
  <2>1. CASE Start(s) \in ToSet(chan[q][p])
    BY <1>2, <2>1 DEF EchoInv, Outward
  <2>2. CASE StartSession(q, s) /\ p \in buddies[q]
    <3>1. master'[s] = q
      BY <1>1, <2>2 DEF StartSession, Types
    <3>2. {p, q} \in Links
      BY <2>2 DEF EchoInv, BuddiesLinked
    <3> QED BY <3>1, <3>2 DEF Sides
  <2>3. ASSUME NEW r \in Peers, Start(s) \in ToSet(chan[r][q]), p \in buddies[q] \ {r}
        PROVE  master'[s] \in Peers /\ {p, q} \in Links /\ master'[s] \in side[q][p]
    <3>1. master[s] \in Peers /\ {q, r} \in Links /\ master[s] \in side[r][q]
      BY <2>3 DEF EchoInv, Outward
    <3>2. {p, q} \in Links /\ r \in Peers \ {p}
      BY <2>3 DEF EchoInv, BuddiesLinked
    <3>3. side[r][q] \subseteq side[q][p]
      BY <3>1, <3>2 DEF Sides
    <3> QED BY <1>2, <3>1, <3>2, <3>3
  <2> QED BY <2>1, <2>2, <2>3, Announced
<1> QED BY <1>4, <1>5 DEF EchoInv

LEMMA InitEchoInv ==
  ASSUME NEW side, Init PROVE EchoInv(side)
<1>1. BuddiesLinked
  BY DEF Init, BuddiesLinked
<1>2. \A p, q \in Peers : chan[q][p] = <<>>
  BY DEF Init
<1>3. Outward(side, chan)
  BY <1>2 DEF Outward, ToSet
<1> QED BY <1>1, <1>3 DEF EchoInv

LEMMA EchoInvNoEcho ==
  ASSUME NEW side, Sides(side), Types, EchoInv(side) PROVE NoEcho
<1> SUFFICES ASSUME NEW s \in Sessions, master[s] # None, NEW q \in Peers,
                    Start(s) \in ToSet(chan[q][master[s]])
             PROVE  FALSE
  BY DEF NoEcho
<1>1. master[s] \in Peers
  BY DEF Types
<1>2. {master[s], q} \in Links /\ master[s] \in side[q][master[s]]
  BY <1>1 DEF EchoInv, Outward
<1> QED BY <1>1, <1>2 DEF Sides

(* Among buddies whose links have no cycle, an announcement never comes     *)
(* back to the master that has sent it: HandleStart forwards it to all      *)
(* buddies but the one it is from (processPacket, StartSessionEvent).       *)
THEOREM NoEchoWithoutCycle ==
  ASSUME NEW side, Sides(side)
  PROVE  Spec => []NoEcho
<1>1. Init => EchoInv(side)
  BY InitEchoInv
<1>2. IInv /\ EchoInv(side) /\ [Next]_vars => EchoInv(side)'
  BY NextEchoInv
<1>3. IInv /\ EchoInv(side) => NoEcho
  BY IInvParts, EchoInvNoEcho
<1> QED BY <1>1, <1>2, <1>3, AlwaysIInv, PTL DEF Spec

(* The clients of one TCP server have only the server as their buddy, and   *)
(* no announcement comes back.                                              *)
THEOREM NoEchoInStar ==
  ASSUME NEW hub, \A l \in Links : hub \in l
  PROVE  Spec => []NoEcho
<1> DEFINE side == [q \in Peers |-> [p \in Peers |-> IF q = hub THEN Peers \ {p} ELSE {q}]]
<1>1. ASSUME NEW p \in Peers, NEW q \in Peers, {p, q} \in Links
      PROVE  /\ q \in side[q][p] /\ p \notin side[q][p]
             /\ \A r \in Peers \ {p} : {q, r} \in Links => side[r][q] \subseteq side[q][p]
  <2>1. p # q /\ (p = hub \/ q = hub)
    BY <1>1, LinksAssumption
  <2>2. CASE q = hub
    <3>1. \A r \in Peers : {q, r} \in Links => r # hub
      BY <2>2, LinksAssumption
    <3> QED BY <2>1, <2>2, <3>1
  <2>3. CASE q # hub
    BY <2>1, <2>3
  <2> QED BY <2>2, <2>3
<1>2. Sides(side)
  BY <1>1 DEF Sides
<1> HIDE DEF side
<1> QED BY <1>2, NoEchoWithoutCycle
=============================================================================
