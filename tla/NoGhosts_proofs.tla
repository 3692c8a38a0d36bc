-------------------------- MODULE NoGhosts_proofs ---------------------------
(***************************************************************************)
(* Proof of NoGhosts of SessionManager, for any peers, links, sessions and *)
(* users: a master and a slave with nothing under way between them agree   *)
(* on whether the slave is in the session.  GhostInv says it of every      *)
(* state, with what is under way: the packets between the two about the    *)
(* session, the end of their connection, and their calls in progress.      *)
(*                                                                         *)
(* First lemmas on queues, on what the two know of one another (Free, with *)
(* one lemma for each way in which it changes), on connections and calls;  *)
(* then one lemma for each action; the theorems are at the end.            *)
(***************************************************************************)
EXTENDS SessionManager_proofs
----------------------------------------------------------------------------
(* Where the packets of a session are in a queue *)

LEMMA AtIn ==
  ASSUME NEW l \in Seq(Packets), NEW m PROVE At(l, m) \subseteq 1..Len(l) /\ Len(l) \in Nat
BY LenProperties DEF At

LEMMA AtAppend ==
  ASSUME NEW l \in Seq(Packets), NEW x \in Packets, NEW m
  PROVE  At(Append(l, x), m) = At(l, m) \cup (IF x = m THEN {Len(l) + 1} ELSE {})
<1> DEFINE d == Append(l, x)
<1>1. DOMAIN d = DOMAIN l \cup {Len(l) + 1} /\ \A i \in DOMAIN l : d[i] = l[i]
  BY Appended
<1>2. d[Len(l) + 1] = x
  BY Appended
<1> HIDE DEF d
<1> QED BY <1>1, <1>2 DEF At, d

LEMMA AtSent ==
  ASSUME NEW l \in Seq(Packets), NEW x \in Packets
  PROVE  /\ \A m : m # x => At(Append(l, x), m) = At(l, m)
         /\ At(Append(l, x), x) = At(l, x) \cup {Len(l) + 1} /\ At(Append(l, x), x) # {}
<1>1. \A m : At(Append(l, x), m) = At(l, m) \cup (IF x = m THEN {Len(l) + 1} ELSE {})
  BY AtAppend
<1>2. ASSUME NEW m, m # x PROVE At(Append(l, x), m) = At(l, m)
  BY <1>1, <1>2
<1>3. At(Append(l, x), x) = At(l, x) \cup {Len(l) + 1}
  BY <1>1
<1> QED BY <1>2, <1>3

LEMMA AtTail ==
  ASSUME NEW l \in Seq(Packets), l # <<>>, NEW m
  PROVE  /\ At(Tail(l), m) = {i \in Nat \ {0} : i + 1 \in At(l, m)}
         /\ 1 \in At(l, m) <=> Head(l) = m
<1>1. Len(l) \in Nat /\ Len(l) # 0 /\ DOMAIN l = 1..Len(l)
  BY EmptySeq, LenProperties
<1>2. DOMAIN Tail(l) = 1..(Len(l) - 1) /\ \A i \in 1..(Len(l) - 1) : Tail(l)[i] = l[i + 1]
  <2>1. Len(Tail(l)) = Len(l) - 1 /\ Tail(l) \in Seq(Packets) /\ \A i \in 1..Len(Tail(l)) : Tail(l)[i] = l[i + 1]
    BY HeadTailProperties
  <2> QED BY <2>1, LenProperties
<1>3. Head(l) = l[1] /\ 1 \in DOMAIN l
  BY <1>1
<1>4. At(Tail(l), m) = {i \in 1..(Len(l) - 1) : l[i + 1] = m}
  BY <1>2 DEF At
<1>5. {i \in 1..(Len(l) - 1) : l[i + 1] = m} = {i \in Nat \ {0} : i + 1 \in At(l, m)}
  BY <1>1 DEF At
<1> QED BY <1>3, <1>4, <1>5 DEF At

LEMMA AtNothing == \A m : At(<<>>, m) = {}
BY EmptySeq DEF At

(* The packets between a master and a slave about a session, and the end of *)
(* their connection.                                                        *)
About(s) == {JoinRequest(s), JoinResponse(s), Disjoin(s), Close(s), Lost}

LEMMA AboutDistinct ==
  ASSUME NEW s
  PROVE  /\ JoinRequest(s) # JoinResponse(s) /\ JoinRequest(s) # Disjoin(s) /\ JoinRequest(s) # Close(s)
         /\ JoinResponse(s) # Disjoin(s) /\ JoinResponse(s) # Close(s) /\ Disjoin(s) # Close(s)
         /\ Lost \notin {JoinRequest(s), JoinResponse(s), Disjoin(s), Close(s)}
         /\ JoinRequest(s).type = "join" /\ JoinResponse(s).type = "joined" /\ Disjoin(s).type = "disjoin"
         /\ Close(s).type = "close" /\ Lost.type = "lost"
         /\ \A m \in About(s) : m.id = s \/ m = Lost
<1>1. /\ JoinRequest(s).type = "join" /\ JoinResponse(s).type = "joined" /\ Disjoin(s).type = "disjoin"
      /\ Close(s).type = "close" /\ Lost.type = "lost"
      /\ JoinRequest(s).id = s /\ JoinResponse(s).id = s /\ Disjoin(s).id = s /\ Close(s).id = s
  BY DEF JoinRequest, JoinResponse, Disjoin, Close, Lost
<1> QED BY <1>1 DEF About

LEMMA AboutPackets ==
  ASSUME NEW s \in Sessions PROVE About(s) \subseteq Packets /\ Start(s) \in Packets
BY DEF About, Packets, JoinRequest, JoinResponse, Disjoin, Close, Lost, Start

(* A packet is about a session if it names it, or is the last of all.       *)
LEMMA AboutIs ==
  ASSUME NEW s, NEW m \in Packets, m.id = s
  PROVE  /\ m.type = "join" => m = JoinRequest(s)
         /\ m.type = "joined" => m = JoinResponse(s)
         /\ m.type = "disjoin" => m = Disjoin(s)
         /\ m.type = "close" => m = Close(s)
<1>1. ASSUME NEW x \in [type : {"start", "join", "joined", "disjoin", "close"}, id : Sessions]
      PROVE  x = [type |-> x.type, id |-> x.id]
  OBVIOUS
<1> QED BY <1>1 DEF Packets, JoinRequest, JoinResponse, Disjoin, Close, Lost

(* Queues that say the same about a session.                                *)
Alike(a, b, s) ==
  \E d \in Nat : \A m \in About(s) :
    /\ \A i \in At(a, m) : i \in Nat /\ i > d
    /\ At(b, m) = {i \in Nat \ {0} : i + d \in At(a, m)}

LEMMA AlikeSame == ASSUME NEW l \in Seq(Packets), NEW s PROVE Alike(l, l, s)
<1>1. \A m \in About(s) : At(l, m) \subseteq Nat \ {0}
  BY AtIn
<1>2. \A m \in About(s) : At(l, m) = {i \in Nat \ {0} : i + 0 \in At(l, m)}
  <2> SUFFICES ASSUME NEW m \in About(s) PROVE At(l, m) = {i \in Nat \ {0} : i + 0 \in At(l, m)}
    OBVIOUS
  <2> DEFINE A == At(l, m)
  <2>1. A \subseteq Nat \ {0}
    BY <1>1
  <2> HIDE DEF A
  <2>2. \A i \in Nat \ {0} : i + 0 = i
    OBVIOUS
  <2>3. A = {i \in Nat \ {0} : i + 0 \in A}
    BY <2>1, <2>2
  <2> QED BY <2>3 DEF A
<1>3. \A m \in About(s) : \A i \in At(l, m) : i \in Nat /\ i > 0
  BY <1>1
<1> QED BY <1>2, <1>3 DEF Alike

LEMMA AlikeSent ==
  ASSUME NEW l \in Seq(Packets), NEW x \in Packets, NEW s, x \notin About(s)
  PROVE  Alike(l, Append(l, x), s)
<1>1. ASSUME NEW m \in About(s) PROVE At(Append(l, x), m) = At(l, m)
  <2>1. x # m /\ At(Append(l, x), m) = At(l, m) \cup (IF x = m THEN {Len(l) + 1} ELSE {})
    BY AtAppend
  <2> QED BY <2>1
<1>2. PICK d \in Nat : \A m \in About(s) : /\ \A i \in At(l, m) : i \in Nat /\ i > d
                                           /\ At(l, m) = {i \in Nat \ {0} : i + d \in At(l, m)}
  BY AlikeSame DEF Alike
<1> QED BY <1>1, <1>2 DEF Alike

LEMMA AlikeReceived ==
  ASSUME NEW l \in Seq(Packets), l # <<>>, NEW s, Head(l) \notin About(s)
  PROVE  Alike(l, Tail(l), s)
<1>1. \A m \in About(s) : At(Tail(l), m) = {i \in Nat \ {0} : i + 1 \in At(l, m)} /\ 1 \notin At(l, m)
  BY AtTail
<1>2. \A m \in About(s) : \A i \in At(l, m) : i \in Nat /\ i > 1
  <2> SUFFICES ASSUME NEW m \in About(s), NEW i \in At(l, m) PROVE i \in Nat /\ i > 1
    OBVIOUS
  <2>1. i \in Nat \ {0} /\ i # 1
    BY <1>1, AtIn
  <2> QED BY <2>1
<1> QED BY <1>1, <1>2 DEF Alike

LEMMA AlikeBoth ==
  ASSUME NEW a, NEW b, NEW c, NEW s, Alike(a, b, s), Alike(b, c, s)
  PROVE  Alike(a, c, s)
<1>1. PICK d \in Nat : \A m \in About(s) : /\ \A i \in At(a, m) : i \in Nat /\ i > d
                                           /\ At(b, m) = {i \in Nat \ {0} : i + d \in At(a, m)}
  BY DEF Alike
<1>2. PICK e \in Nat : \A m \in About(s) : /\ \A i \in At(b, m) : i \in Nat /\ i > e
                                           /\ At(c, m) = {i \in Nat \ {0} : i + e \in At(b, m)}
  BY DEF Alike
<1>3. ASSUME NEW m \in About(s), NEW i \in At(a, m) PROVE i \in Nat /\ i > d + e
  <2>1. i \in Nat /\ i > d /\ i - d \in Nat \ {0} /\ (i - d) + d = i
    BY <1>1
  <2>2. i - d \in At(b, m)
    BY <1>1, <2>1
  <2>3. i - d > e
    BY <1>2, <2>2
  <2> QED BY <2>1, <2>3
<1>4. ASSUME NEW m \in About(s) PROVE At(c, m) = {i \in Nat \ {0} : i + (d + e) \in At(a, m)}
  <2>1. \A i \in Nat \ {0} : i + e \in At(b, m) <=> i + (d + e) \in At(a, m)
    <3> SUFFICES ASSUME NEW i \in Nat \ {0} PROVE i + e \in At(b, m) <=> i + (d + e) \in At(a, m)
      OBVIOUS
    <3>1. i + e \in Nat \ {0} /\ (i + e) + d = i + (d + e)
      OBVIOUS
    <3> QED BY <1>1, <3>1
  <2> QED BY <1>2, <2>1
<1>5. d + e \in Nat
  OBVIOUS
<1> QED BY <1>3, <1>4, <1>5 DEF Alike

(* They have the same packets in the same order.                            *)
LEMMA AlikeFacts ==
  ASSUME NEW a, NEW b, NEW s, Alike(a, b, s)
  PROVE  \A m, n \in About(s) :
           /\ At(a, m) = {} <=> At(b, m) = {}
           /\ (\A i, j \in At(a, m) : i = j) => \A i, j \in At(b, m) : i = j
           /\ (\A i \in At(a, m), j \in At(a, n) : i < j) => \A i \in At(b, m), j \in At(b, n) : i < j
           /\ \A i \in At(b, m) : \E k \in At(a, m) :
                (\E j \in At(a, n) : k < j) => \E j \in At(b, n) : i < j
<1> SUFFICES ASSUME NEW m \in About(s), NEW n \in About(s)
             PROVE  /\ At(a, m) = {} <=> At(b, m) = {}
                    /\ (\A i, j \in At(a, m) : i = j) => \A i, j \in At(b, m) : i = j
                    /\ (\A i \in At(a, m), j \in At(a, n) : i < j) => \A i \in At(b, m), j \in At(b, n) : i < j
                    /\ \A i \in At(b, m) : \E k \in At(a, m) :
                         (\E j \in At(a, n) : k < j) => \E j \in At(b, n) : i < j
  OBVIOUS
<1> DEFINE A == At(a, m)
           B == At(b, m)
           C == At(a, n)
           D == At(b, n)
<1>1. PICK d \in Nat : /\ \A i \in A : i \in Nat /\ i > d
                       /\ B = {i \in Nat \ {0} : i + d \in A}
                       /\ \A i \in C : i \in Nat /\ i > d
                       /\ D = {i \in Nat \ {0} : i + d \in C}
  BY DEF Alike
<1> HIDE DEF A, B, C, D
<1>2. \A i \in A : i - d \in B
  BY <1>1
<1>3. \A i \in B : i \in Nat /\ i + d \in A
  BY <1>1
<1>4. \A i \in C : i \in Nat /\ i - d \in D
  BY <1>1
<1>5. \A i \in D : i \in Nat /\ i + d \in C
  BY <1>1
<1>6. A = {} <=> B = {}
  BY <1>2, <1>3
<1>7. ASSUME \A i, j \in A : i = j, NEW i \in B, NEW j \in B PROVE i = j
  <2>1. i \in Nat /\ j \in Nat /\ i + d = j + d
    BY <1>3, <1>7
  <2> QED BY <2>1
<1>8. ASSUME \A i \in A, j \in C : i < j, NEW i \in B, NEW j \in D PROVE i < j
  <2>1. i \in Nat /\ j \in Nat /\ i + d < j + d
    BY <1>3, <1>5, <1>8
  <2> QED BY <2>1
<1>9. ASSUME NEW i \in B PROVE \E k \in A : (\E j \in C : k < j) => \E j \in D : i < j
  <2>1. i \in Nat /\ i + d \in A
    BY <1>3
  <2>2. ASSUME NEW j \in C, i + d < j PROVE j - d \in D /\ i < j - d
    BY <1>4, <2>1, <2>2
  <2> QED BY <2>1, <2>2
<1> QED BY <1>6, <1>7, <1>8, <1>9 DEF A, B, C, D
----------------------------------------------------------------------------
(* What a master and a slave know of one another, as values (GhostFree):    *)
(* the queues between them, the sessions of the slave, whether he is a      *)
(* collaborator, whether they are connected, whether he waits for an        *)
(* answer, leaves, leaves without a word, whether walks of hers or his over *)
(* the sessions are going to notice, and whether her session is gone.       *)
Free(up, down, S, is, linked, waits, leaves, silent, hers, his, gone, s) ==
  /\ Once(up, down, S, s)
  /\ Awaiting(up, down, linked, waits, s)
  /\ Member(up, down, S, is, linked, leaves, s)
  /\ Parted(up, down, S, is, linked, leaves, hers, his)
  /\ At(down, Close(s)) # {} => gone
  /\ silent => ~linked \/ gone

(* Facts the lemmas below are told by name.                                 *)
Sure(fact) == fact = TRUE
Void(S) == S = {}
Ended(l) == l = <<>>
Sent(l, m, l2) == l2 = Append(l, m)
Told(linked, l, m, l2) == l2 = IF linked THEN Append(l, m) ELSE l
Heard(linked, l) == ~linked => At(l, Lost) # {}
Taken(l, m, l2) == l # <<>> /\ Head(l) = m /\ l2 = Tail(l)

Silent(q, s) == \E f \in Leaving(q, s) : f.to = {}

LEMMA FreeIs ==
  ASSUME NEW p, NEW q, NEW s
  PROVE  GhostFree(p, q, s) <=>
           Free(chan[q][p], chan[p][q], {o \in alive[q] : o.id = s}, q \in collaborators[p][s],
                q \in buddies[p], s \in asked[q], Leaving(q, s) # {}, Silent(q, s), Walks(p, q, s),
                Walks(q, p, s), ~Known(p, s), s)
BY DEF GhostFree, Free, Silent

(* Nothing is said about the session; calls are made, but none that notices *)
(* is over.                                                                 *)
LEMMA FreeKept ==
  ASSUME NEW up, NEW down, NEW S, NEW is \in BOOLEAN, NEW linked \in BOOLEAN, NEW waits \in BOOLEAN,
         NEW leaves \in BOOLEAN, NEW silent \in BOOLEAN, NEW hers \in BOOLEAN, NEW his \in BOOLEAN,
         NEW gone \in BOOLEAN, NEW s,
         Free(up, down, S, is, linked, waits, leaves, silent, hers, his, gone, s),
         NEW up2, NEW down2, Alike(up, up2, s), Alike(down, down2, s),
         NEW waits2 \in BOOLEAN, waits => waits2,
         NEW leaves2 \in BOOLEAN, leaves => leaves2,
         NEW silent2 \in BOOLEAN, silent2 => silent \/ ~linked \/ gone,
         NEW hers2 \in BOOLEAN, is /\ hers => hers2,
         NEW his2 \in BOOLEAN, S # {} /\ his => his2 \/ leaves2,
         NEW gone2 \in BOOLEAN, gone => gone2
  PROVE  Free(up2, down2, S, is, linked, waits2, leaves2, silent2, hers2, his2, gone2, s)
<1> DEFINE A == About(s)
<1>1. /\ JoinRequest(s) \in A /\ JoinResponse(s) \in A /\ Disjoin(s) \in A /\ Close(s) \in A /\ Lost \in A
  BY DEF About
<1>2. \A m, n \in A :
           /\ At(up, m) = {} <=> At(up2, m) = {}
           /\ (\A i, j \in At(up, m) : i = j) => \A i, j \in At(up2, m) : i = j
           /\ (\A i \in At(up, m), j \in At(up, n) : i < j) => \A i \in At(up2, m), j \in At(up2, n) : i < j
  BY AlikeFacts
<1>3. \A m, n \in A :
           /\ At(down, m) = {} <=> At(down2, m) = {}
           /\ (\A i, j \in At(down, m) : i = j) => \A i, j \in At(down2, m) : i = j
           /\ \A i \in At(down2, m) : \E k \in At(down, m) :
                (\E j \in At(down, n) : k < j) => \E j \in At(down2, n) : i < j
  BY AlikeFacts
<1> HIDE DEF A
<1>4. Once(up2, down2, S, s)
  BY <1>1, <1>2, <1>3 DEF Free, Once
<1>5. Awaiting(up2, down2, linked, waits2, s)
  BY <1>1, <1>2, <1>3 DEF Free, Awaiting
<1>6. Member(up2, down2, S, is, linked, leaves2, s)
  <2>1. \A i \in At(down2, JoinResponse(s)) : \E k \in At(down, JoinResponse(s)) :
                (\E j \in At(down, Close(s)) : k < j) => \E j \in At(down2, Close(s)) : i < j
    BY <1>1, <1>3
  <2>2. /\ At(up, Disjoin(s)) = {} <=> At(up2, Disjoin(s)) = {}
        /\ At(down, JoinResponse(s)) = {} <=> At(down2, JoinResponse(s)) = {}
        /\ At(down, Close(s)) = {} <=> At(down2, Close(s)) = {}
    BY <1>1, <1>2, <1>3
  <2> QED BY <2>1, <2>2 DEF Free, Member
<1>7. Parted(up2, down2, S, is, linked, leaves2, hers2, his2)
  BY <1>1, <1>2, <1>3 DEF Free, Parted
<1>8. At(down2, Close(s)) # {} => gone2
  BY <1>1, <1>3 DEF Free
<1>9. silent2 => ~linked \/ gone2
  BY DEF Free
<1> QED BY <1>4, <1>5, <1>6, <1>7, <1>8, <1>9 DEF Free

(* The session begins.                                                      *)
LEMMA FreeStart ==
  ASSUME NEW up, NEW down, NEW S, Void(S), NEW is \in BOOLEAN, NEW linked \in BOOLEAN, NEW waits \in BOOLEAN,
         NEW hers \in BOOLEAN,
         NEW his \in BOOLEAN, NEW gone \in BOOLEAN, NEW s,
         NEW leaves \in BOOLEAN, NEW silent \in BOOLEAN, ~is, ~silent,
         At(up, JoinRequest(s)) = {}, At(up, Disjoin(s)) = {}, At(down, JoinResponse(s)) = {},
         At(down, Close(s)) = {}
  PROVE  Free(up, down, S, is, linked, waits, leaves, silent, hers, his, gone, s)
BY DEF Free, Once, Awaiting, Member, Parted, Void

(* The slave asks to join.                                                  *)
LEMMA FreeAsk ==
  ASSUME NEW up \in Seq(Packets), NEW down, NEW S, Void(S), NEW is \in BOOLEAN, NEW linked \in BOOLEAN,
         NEW waits \in BOOLEAN, NEW leaves \in BOOLEAN, NEW silent \in BOOLEAN, NEW hers \in BOOLEAN,
         NEW his \in BOOLEAN,
         NEW gone \in BOOLEAN, NEW s \in Sessions,
         Free(up, down, S, is, linked, waits, leaves, silent, hers, his, gone, s), Sure(linked), ~waits,
         NEW waits2 \in BOOLEAN, Sure(waits2), NEW up2, Sent(up, JoinRequest(s), up2)
  PROVE  Free(up2, down, S, is, linked, waits2, leaves, silent, hers, his, gone, s)
<1>0. linked /\ waits2 /\ up2 = Append(up, JoinRequest(s)) /\ S = {}
  BY DEF Sure, Sent, Void
<1>1. JoinRequest(s) \in Packets
  BY AboutPackets DEF About
<1>2. /\ At(up2, JoinRequest(s)) = At(up, JoinRequest(s)) \cup {Len(up) + 1}
      /\ At(up2, Disjoin(s)) = At(up, Disjoin(s))
  BY <1>0, <1>1, AtSent, AboutDistinct
<1>3. At(up, JoinRequest(s)) = {} /\ At(down, JoinResponse(s)) = {}
  BY <1>0 DEF Free, Awaiting
<1>4. \A i \in At(up, Disjoin(s)) : i < Len(up) + 1
  <2>1. At(up, Disjoin(s)) \subseteq 1..Len(up) /\ Len(up) \in Nat
    BY AtIn
  <2> QED BY <2>1
<1>5. Once(up2, down, S, s)
  BY <1>0, <1>2, <1>3, <1>4 DEF Free, Once
<1>6. Awaiting(up2, down, linked, waits2, s)
  BY <1>0 DEF Awaiting
<1> QED BY <1>0, <1>2, <1>5, <1>6 DEF Free, Member, Parted

(* The connection is cut.                                                   *)
LEMMA FreeCut ==
  ASSUME NEW up \in Seq(Packets), NEW down \in Seq(Packets), NEW S, NEW is \in BOOLEAN, NEW linked \in BOOLEAN,
         NEW waits \in BOOLEAN,
         NEW leaves \in BOOLEAN, NEW silent \in BOOLEAN, NEW hers \in BOOLEAN, NEW his \in BOOLEAN,
         NEW gone \in BOOLEAN, NEW s,
         Free(up, down, S, is, linked, waits, leaves, silent, hers, his, gone, s), NEW linked2 \in BOOLEAN, ~linked2,
         NEW up2, Sent(up, Lost, up2), NEW down2, Sent(down, Lost, down2)
  PROVE  Free(up2, down2, S, is, linked2, waits, leaves, silent, hers, his, gone, s)
<1>1. Lost \in Packets /\ up2 = Append(up, Lost) /\ down2 = Append(down, Lost)
  BY DEF Packets, Sent
<1>2. /\ At(up2, JoinRequest(s)) = At(up, JoinRequest(s)) /\ At(up2, Disjoin(s)) = At(up, Disjoin(s))
      /\ At(down2, JoinResponse(s)) = At(down, JoinResponse(s)) /\ At(down2, Close(s)) = At(down, Close(s))
      /\ At(up2, Lost) # {} /\ At(down2, Lost) # {}
  BY <1>1, AtSent, AboutDistinct
<1>3. Once(up2, down2, S, s)
  BY <1>2 DEF Free, Once
<1> QED BY <1>2, <1>3 DEF Free, Awaiting, Member, Parted
----------------------------------------------------------------------------
(* What handling a packet about the session makes of it *)

(* The first packet is taken from a queue.                                  *)
LEMMA AtTaken ==
  ASSUME NEW l \in Seq(Packets), l # <<>>
  PROVE  /\ \A m : At(Tail(l), m) = {i \in Nat \ {0} : i + 1 \in At(l, m)}
         /\ \A m : At(l, m) \subseteq Nat \ {0}
         /\ \A m : At(l, m) = {} => At(Tail(l), m) = {}
         /\ \A m : m # Head(l) => (At(Tail(l), m) = {} <=> At(l, m) = {})
         /\ 1 \in At(l, Head(l))
         /\ \A m, n : (\A i \in At(l, m), j \in At(l, n) : i < j) =>
                      \A i \in At(Tail(l), m), j \in At(Tail(l), n) : i < j
         /\ \A m, n : \A i \in At(Tail(l), m) :
                        (\E j \in At(l, n) : i + 1 < j) => \E j \in At(Tail(l), n) : i < j
<1>1. \A m : /\ At(Tail(l), m) = {i \in Nat \ {0} : i + 1 \in At(l, m)}
             /\ 1 \in At(l, m) <=> Head(l) = m
  BY AtTail
<1>2. ASSUME NEW m PROVE At(l, m) \subseteq Nat \ {0}
  BY AtIn
<1>3. ASSUME NEW m, At(l, m) = {} PROVE At(Tail(l), m) = {}
  BY <1>1, <1>3
<1>4. ASSUME NEW m, m # Head(l) PROVE At(Tail(l), m) = {} <=> At(l, m) = {}
  <2>1. ASSUME NEW i \in At(l, m) PROVE i - 1 \in At(Tail(l), m)
    <3>1. i \in Nat \ {0} /\ i # 1
      BY <1>1, <1>2, <1>4
    <3>2. i - 1 \in Nat \ {0} /\ (i - 1) + 1 = i
      BY <3>1
    <3> QED BY <1>1, <3>2
  <2> QED BY <1>3, <2>1
<1>5. ASSUME NEW m, NEW n, \A i \in At(l, m), j \in At(l, n) : i < j,
             NEW i \in At(Tail(l), m), NEW j \in At(Tail(l), n)
      PROVE  i < j
  <2>1. i \in Nat /\ j \in Nat /\ i + 1 < j + 1
    BY <1>1, <1>5
  <2> QED BY <2>1
<1>6. ASSUME NEW m, NEW n, NEW i \in At(Tail(l), m), NEW j \in At(l, n), i + 1 < j
      PROVE  \E k \in At(Tail(l), n) : i < k
  <2>1. i \in Nat /\ j \in Nat
    BY <1>1, <1>2
  <2>2. j - 1 \in Nat \ {0} /\ (j - 1) + 1 = j /\ i < j - 1
    BY <1>6, <2>1
  <2> QED BY <1>1, <2>2
<1> QED BY <1>1, <1>2, <1>3, <1>4, <1>5, <1>6

(* She handles a request to join; he has left before he has asked.          *)
LEMMA OnceAsked ==
  ASSUME NEW up \in Seq(Packets), NEW down, NEW S, NEW s, Once(up, down, S, s),
         up # <<>>, Head(up) = JoinRequest(s)
  PROVE  /\ S = {} /\ At(Tail(up), JoinRequest(s)) = {} /\ At(Tail(up), Disjoin(s)) = {}
         /\ At(up, JoinRequest(s)) # {} /\ At(up, Disjoin(s)) = {} /\ At(down, JoinResponse(s)) = {}
         /\ At(Tail(up), Lost) = {} <=> At(up, Lost) = {}
<1>1. 1 \in At(up, JoinRequest(s))
  BY AtTaken
<1>2. S = {} /\ At(down, JoinResponse(s)) = {}
  BY <1>1 DEF Once
<1>3. At(up, Disjoin(s)) = {}
  <2> SUFFICES ASSUME NEW i \in At(up, Disjoin(s)) PROVE FALSE
    OBVIOUS
  <2>1. i \in Nat \ {0} /\ i < 1
    BY <1>1, AtTaken DEF Once
  <2> QED BY <2>1
<1>4. At(Tail(up), JoinRequest(s)) = {}
  <2> SUFFICES ASSUME NEW i \in At(Tail(up), JoinRequest(s)) PROVE FALSE
    OBVIOUS
  <2>1. i \in Nat \ {0} /\ i + 1 \in At(up, JoinRequest(s))
    BY AtTaken
  <2>2. i + 1 = 1
    BY <1>1, <2>1 DEF Once
  <2> QED BY <2>1, <2>2
<1>5. At(Tail(up), Disjoin(s)) = {} /\ (At(Tail(up), Lost) = {} <=> At(up, Lost) = {})
  BY <1>3, AtTaken, AboutDistinct
<1> QED BY <1>1, <1>2, <1>3, <1>4, <1>5

LEMMA FreeJoin ==
  ASSUME NEW up \in Seq(Packets), NEW down \in Seq(Packets), NEW S, NEW is \in BOOLEAN, NEW linked \in BOOLEAN,
         NEW waits \in BOOLEAN, NEW leaves \in BOOLEAN, NEW silent \in BOOLEAN, NEW hers \in BOOLEAN,
         NEW his \in BOOLEAN, NEW gone \in BOOLEAN, NEW s \in Sessions,
         Free(up, down, S, is, linked, waits, leaves, silent, hers, his, gone, s),
         Heard(linked, up), NEW is2 \in BOOLEAN, Sure(is2),
         NEW up2, Taken(up, JoinRequest(s), up2),
         NEW down2, Told(linked, down, JoinResponse(s), down2)
  PROVE  Free(up2, down2, S, is2, linked, waits, leaves, silent, hers, his, gone, s)
<1>a. /\ is2 /\ up # <<>> /\ Head(up) = JoinRequest(s) /\ up2 = Tail(up)
      /\ down2 = IF linked THEN Append(down, JoinResponse(s)) ELSE down
  BY DEF Sure, Taken, Told
<1>1. /\ S = {} /\ At(up2, JoinRequest(s)) = {} /\ At(up2, Disjoin(s)) = {} /\ At(down, JoinResponse(s)) = {}
      /\ At(up2, Lost) = {} <=> At(up, Lost) = {}
      /\ At(up, JoinRequest(s)) # {}
  BY <1>a, OnceAsked DEF Free
<1>0. (waits \/ ~linked) /\ (~linked => At(up, Lost) # {})
  BY <1>1 DEF Free, Awaiting, Heard
<1>2. JoinResponse(s) \in Packets
  BY AboutPackets DEF About
<1>3. /\ At(down2, Close(s)) = At(down, Close(s))
      /\ linked => At(down2, JoinResponse(s)) = {Len(down) + 1}
      /\ ~linked => At(down2, JoinResponse(s)) = {}
  BY <1>a, <1>1, <1>2, AtSent, AboutDistinct
<1>4. Once(up2, down2, S, s)
  BY <1>1, <1>3 DEF Once
<1>5. Awaiting(up2, down2, linked, waits, s)
  BY <1>0, <1>1, <1>3 DEF Awaiting
<1>6. Member(up2, down2, S, is2, linked, leaves, s)
  BY <1>a, <1>1, <1>3 DEF Member
<1>7. Parted(up2, down2, S, is2, linked, leaves, hers, his)
  BY <1>0, <1>1 DEF Parted
<1> QED BY <1>3, <1>4, <1>5, <1>6, <1>7 DEF Free

LEMMA FreeJoinNothing ==
  ASSUME NEW up \in Seq(Packets), NEW down \in Seq(Packets), NEW S, NEW is \in BOOLEAN, NEW linked \in BOOLEAN,
         NEW waits \in BOOLEAN, NEW leaves \in BOOLEAN, NEW silent \in BOOLEAN, NEW hers \in BOOLEAN,
         NEW his \in BOOLEAN, NEW gone \in BOOLEAN, NEW s \in Sessions,
         Free(up, down, S, is, linked, waits, leaves, silent, hers, his, gone, s),
         NEW up2, Taken(up, JoinRequest(s), up2)
  PROVE  Free(up2, down, S, is, linked, waits, leaves, silent, hers, his, gone, s)
<1>0. up # <<>> /\ Head(up) = JoinRequest(s) /\ up2 = Tail(up)
  BY DEF Taken
<1>1. /\ S = {} /\ At(up2, JoinRequest(s)) = {} /\ At(up2, Disjoin(s)) = {} /\ At(down, JoinResponse(s)) = {}
      /\ At(up2, Lost) = {} <=> At(up, Lost) = {}
      /\ At(up, Disjoin(s)) = {}
  BY <1>0, OnceAsked DEF Free
<1>4. Once(up2, down, S, s)
  BY <1>1 DEF Once
<1> QED BY <1>1, <1>4 DEF Free, Awaiting, Member, Parted

(* He gets the answer.                                                      *)
LEMMA FreeJoined ==
  ASSUME NEW up, NEW down \in Seq(Packets), NEW S, NEW is \in BOOLEAN, NEW linked \in BOOLEAN,
         NEW waits \in BOOLEAN, NEW leaves \in BOOLEAN, NEW silent \in BOOLEAN, NEW hers \in BOOLEAN,
         NEW his \in BOOLEAN, NEW gone \in BOOLEAN, NEW s,
         Free(up, down, S, is, linked, waits, leaves, silent, hers, his, gone, s),
         Heard(linked, down), NEW waits2 \in BOOLEAN, ~waits2,
         NEW S2, S2 # {}, \A o1, o2 \in S2 : o1 = o2, NEW his2 \in BOOLEAN, NEW down2, Taken(down,
         JoinResponse(s), down2)
  PROVE  Free(up, down2, S2, is, linked, waits2, leaves, silent, hers, his2, gone, s)
<1>0. down # <<>> /\ Head(down) = JoinResponse(s) /\ down2 = Tail(down)
  BY DEF Taken
<1>1. 1 \in At(down, JoinResponse(s))
  BY <1>0, AtTaken
<1>2. At(down2, JoinResponse(s)) = {}
  <2> SUFFICES ASSUME NEW i \in At(down2, JoinResponse(s)) PROVE FALSE
    OBVIOUS
  <2>1. i \in Nat \ {0} /\ i + 1 \in At(down, JoinResponse(s))
    BY <1>0, AtTaken
  <2>2. i + 1 = 1
    BY <1>1, <2>1 DEF Free, Once
  <2> QED BY <2>1, <2>2
<1>3. /\ At(down2, Lost) = {} <=> At(down, Lost) = {}
      /\ At(down2, Close(s)) = {} <=> At(down, Close(s)) = {}
  <2>1. \A m : m # Head(down) => (At(Tail(down), m) = {} <=> At(down, m) = {})
    BY <1>0, AtTaken
  <2>2. Lost # JoinResponse(s) /\ Close(s) # JoinResponse(s)
    BY AboutDistinct
  <2> QED BY <1>0, <2>1, <2>2
<1>4. S = {} /\ At(up, JoinRequest(s)) = {} /\ At(up, Disjoin(s)) = {}
  BY <1>1 DEF Free, Once
<1>5. linked => is \/ At(down, Close(s)) # {}
  BY <1>1 DEF Free, Member
<1>6. Once(up, down2, S2, s)
  BY <1>2, <1>4 DEF Once
<1>7. Awaiting(up, down2, linked, waits2, s)
  BY <1>2, <1>4 DEF Awaiting
<1>8. Member(up, down2, S2, is, linked, leaves, s)
  BY <1>2, <1>3, <1>5 DEF Member
<1>9. Parted(up, down2, S2, is, linked, leaves, hers, his2)
  BY <1>3 DEF Free, Parted, Heard
<1> QED BY <1>3, <1>6, <1>7, <1>8, <1>9 DEF Free

(* She hears that he has left.                                              *)
LEMMA FreeDisjoin ==
  ASSUME NEW up \in Seq(Packets), NEW down, NEW S, NEW is \in BOOLEAN, NEW linked \in BOOLEAN,
         NEW waits \in BOOLEAN, NEW leaves \in BOOLEAN, NEW silent \in BOOLEAN, NEW hers \in BOOLEAN,
         NEW his \in BOOLEAN, NEW gone \in BOOLEAN, NEW s,
         Free(up, down, S, is, linked, waits, leaves, silent, hers, his, gone, s),
         NEW is2 \in BOOLEAN, ~is2, NEW up2, Taken(up, Disjoin(s), up2)
  PROVE  Free(up2, down, S, is2, linked, waits, leaves, silent, hers, his, gone, s)
<1> DEFINE J == JoinRequest(s)
<1>0. up # <<>> /\ Head(up) = Disjoin(s) /\ up2 = Tail(up)
  BY DEF Taken
<1>1. 1 \in At(up, Disjoin(s))
  BY <1>0, AtTaken
<1>2. S = {} /\ At(down, JoinResponse(s)) = {}
  BY <1>1 DEF Free, Once
<1>3. \A i, j \in At(up2, J) : i = j
  <2> SUFFICES ASSUME NEW i \in At(up2, J), NEW j \in At(up2, J) PROVE i = j
    OBVIOUS
  <2>1. i \in Nat /\ j \in Nat /\ i + 1 \in At(up, J) /\ j + 1 \in At(up, J)
    BY <1>0, AtTaken
  <2>2. i + 1 = j + 1
    BY <2>1 DEF Free, Once
  <2> QED BY <2>1, <2>2
<1>4. \A i \in At(up2, Disjoin(s)), j \in At(up2, J) : i < j
  BY <1>0, AtTaken DEF Free, Once
<1>5. /\ At(up2, J) # {} => At(up, J) # {}
      /\ At(up, Lost) # {} => At(up2, Lost) # {}
  BY <1>0, AtTaken, AboutDistinct
<1>6. Once(up2, down, S, s)
  BY <1>2, <1>3, <1>4 DEF Once, J
<1> QED BY <1>2, <1>5, <1>6 DEF Free, Awaiting, Member, Parted, J

(* He hears that the session is closed.                                     *)
LEMMA FreeClose ==
  ASSUME NEW up, NEW down \in Seq(Packets), NEW S, NEW is \in BOOLEAN, NEW linked \in BOOLEAN,
         NEW waits \in BOOLEAN, NEW leaves \in BOOLEAN, NEW silent \in BOOLEAN, NEW hers \in BOOLEAN,
         NEW his \in BOOLEAN, NEW gone \in BOOLEAN, NEW s,
         Free(up, down, S, is, linked, waits, leaves, silent, hers, his, gone, s),
         NEW leaves2 \in BOOLEAN, NEW silent2 \in BOOLEAN, leaves => leaves2, S # {} => leaves2,
         NEW down2, Taken(down, Close(s), down2)
  PROVE  Free(up, down2, S, is, linked, waits, leaves2, silent2, hers, his, gone, s)
<1> DEFINE R == JoinResponse(s)
<1>0. down # <<>> /\ Head(down) = Close(s) /\ down2 = Tail(down)
  BY DEF Taken
<1>1. gone
  BY <1>0, AtTaken DEF Free
<1>2. /\ At(down2, R) = {} <=> At(down, R) = {}
      /\ At(down2, Lost) = {} <=> At(down, Lost) = {}
  BY <1>0, AtTaken, AboutDistinct
<1>3. \A i, j \in At(down2, R) : i = j
  <2> SUFFICES ASSUME NEW i \in At(down2, R), NEW j \in At(down2, R) PROVE i = j
    OBVIOUS
  <2>1. i \in Nat /\ j \in Nat /\ i + 1 \in At(down, R) /\ j + 1 \in At(down, R)
    BY <1>0, AtTaken
  <2>2. i + 1 = j + 1
    BY <2>1 DEF Free, Once
  <2> QED BY <2>1, <2>2
<1>4. ASSUME linked, ~is, NEW i \in At(down2, R) PROVE \E j \in At(down2, Close(s)) : i < j
  <2>1. i + 1 \in At(down, R)
    BY <1>0, AtTaken
  <2>2. \E j \in At(down, Close(s)) : i + 1 < j
    BY <1>4, <2>1 DEF Free, Member
  <2> QED BY <1>0, <2>2, AtTaken
<1>5. Once(up, down2, S, s)
  BY <1>2, <1>3 DEF Free, Once, R
<1>6. Member(up, down2, S, is, linked, leaves2, s)
  BY <1>2, <1>4 DEF Free, Member, R
<1>7. Awaiting(up, down2, linked, waits, s)
  BY <1>2 DEF Free, Awaiting, R
<1>8. Parted(up, down2, S, is, linked, leaves2, hers, his)
  BY <1>2 DEF Free, Parted
<1> QED BY <1>1, <1>5, <1>6, <1>7, <1>8 DEF Free
(* She, or he, notices that the connection is cut.                          *)
LEMMA FreeLostHere ==
  ASSUME NEW up, NEW down, NEW S, NEW is \in BOOLEAN, NEW linked \in BOOLEAN, ~linked, NEW waits \in BOOLEAN,
         NEW leaves \in BOOLEAN,
         NEW silent \in BOOLEAN, NEW hers \in BOOLEAN, NEW his \in BOOLEAN, NEW gone \in BOOLEAN, NEW s,
         Free(up, down, S, is, linked, waits, leaves, silent, hers, his, gone, s),
         NEW hers2 \in BOOLEAN, is => hers2,
         NEW up2, Ended(up2)
  PROVE  Free(up2, down, S, is, linked, waits, leaves, silent, hers2, his, gone, s)
<1>1. \A m : At(up2, m) = {}
  BY AtNothing DEF Ended
<1>2. Once(up2, down, S, s)
  BY <1>1 DEF Free, Once
<1> QED BY <1>1, <1>2 DEF Free, Awaiting, Member, Parted

LEMMA FreeLostThere ==
  ASSUME NEW up, NEW down, NEW S, NEW is \in BOOLEAN, NEW linked \in BOOLEAN, ~linked, NEW waits \in BOOLEAN,
         NEW leaves \in BOOLEAN,
         NEW silent \in BOOLEAN, NEW hers \in BOOLEAN, NEW his \in BOOLEAN, NEW gone \in BOOLEAN, NEW s,
         Free(up, down, S, is, linked, waits, leaves, silent, hers, his, gone, s),
         NEW waits2 \in BOOLEAN, NEW his2 \in BOOLEAN, S # {} => his2,
         NEW down2, Ended(down2)
  PROVE  Free(up, down2, S, is, linked, waits2, leaves, silent, hers, his2, gone, s)
<1>1. \A m : At(down2, m) = {}
  BY AtNothing DEF Ended
<1>2. Once(up, down2, S, s)
  BY <1>1 DEF Free, Once
<1> QED BY <1>1, <1>2 DEF Free, Awaiting, Member, Parted

(* She crosses off the lost one.                                            *)
LEMMA FreeNoticed ==
  ASSUME NEW up, NEW down, NEW S, NEW is \in BOOLEAN, NEW linked \in BOOLEAN, ~linked, NEW waits \in BOOLEAN,
         NEW leaves \in BOOLEAN,
         NEW silent \in BOOLEAN, NEW hers \in BOOLEAN, NEW his \in BOOLEAN, NEW gone \in BOOLEAN, NEW s,
         Free(up, down, S, is, linked, waits, leaves, silent, hers, his, gone, s), NEW hers2 \in BOOLEAN,
         NEW is2 \in BOOLEAN, ~is2
  PROVE  Free(up, down, S, is2, linked, waits, leaves, silent, hers2, his, gone, s)
BY DEF Free, Awaiting, Member, Parted

(* He has destroyed the session, and says so, or has been told.             *)
LEMMA FreeLeft ==
  ASSUME NEW up \in Seq(Packets), NEW down, NEW S, NEW is \in BOOLEAN, NEW linked \in BOOLEAN, NEW waits \in BOOLEAN,
         NEW leaves \in BOOLEAN, NEW silent \in BOOLEAN, NEW hers \in BOOLEAN, NEW his \in BOOLEAN,
         NEW gone \in BOOLEAN, NEW s \in Sessions,
         Free(up, down, S, is, linked, waits, leaves, silent, hers, his, gone, s), S # {},
         NEW S2, Void(S2), NEW his2 \in BOOLEAN, NEW leaves2 \in BOOLEAN, NEW silent2 \in BOOLEAN, ~silent2,
         NEW up2, Sent(up, Disjoin(s), up2)
  PROVE  Free(up2, down, S2, is, linked, waits, leaves2, silent2, hers, his2, gone, s)
<1>1. Disjoin(s) \in Packets /\ up2 = Append(up, Disjoin(s)) /\ S2 = {}
  BY AboutPackets DEF About, Sent, Void
<1>2. At(up, JoinRequest(s)) = {} /\ At(down, JoinResponse(s)) = {}
  BY DEF Free, Once
<1>3. At(up2, JoinRequest(s)) = {} /\ At(up2, Disjoin(s)) # {} /\ At(up2, Lost) = At(up, Lost)
  BY <1>1, <1>2, AtSent, AboutDistinct
<1>4. Once(up2, down, S2, s)
  BY <1>1, <1>2, <1>3 DEF Once
<1> QED BY <1>1, <1>2, <1>3, <1>4 DEF Free, Awaiting, Member, Parted

LEMMA FreeLeftSilently ==
  ASSUME NEW up, NEW down, NEW S, NEW is \in BOOLEAN, NEW linked \in BOOLEAN, NEW waits \in BOOLEAN,
         NEW leaves \in BOOLEAN, NEW silent \in BOOLEAN, NEW hers \in BOOLEAN, NEW his \in BOOLEAN,
         NEW gone \in BOOLEAN, NEW s,
         Free(up, down, S, is, linked, waits, leaves, silent, hers, his, gone, s), S # {},
         NEW S2, Void(S2), ~linked \/ ~is, NEW his2 \in BOOLEAN, NEW leaves2 \in BOOLEAN,
         NEW silent2 \in BOOLEAN, ~silent2
  PROVE  Free(up, down, S2, is, linked, waits, leaves2, silent2, hers, his2, gone, s)
<1>0. S2 = {}
  BY DEF Void
<1>1. At(up, JoinRequest(s)) = {} /\ At(down, JoinResponse(s)) = {} /\ At(up, Disjoin(s)) = {}
  BY DEF Free, Once
<1>2. Once(up, down, S2, s)
  BY <1>0, <1>1 DEF Once
<1> QED BY <1>0, <1>1, <1>2 DEF Free, Awaiting, Member, Parted

(* She has destroyed the session, and tells whoever is connected.           *)
LEMMA FreeOver ==
  ASSUME NEW up, NEW down \in Seq(Packets), NEW S, NEW is \in BOOLEAN, NEW linked \in BOOLEAN,
         NEW waits \in BOOLEAN, NEW leaves \in BOOLEAN, NEW silent \in BOOLEAN, NEW hers \in BOOLEAN,
         NEW his \in BOOLEAN, NEW gone \in BOOLEAN, NEW s \in Sessions,
         Free(up, down, S, is, linked, waits, leaves, silent, hers, his, gone, s),
         NEW hers2 \in BOOLEAN, NEW is2 \in BOOLEAN, ~is2, NEW gone2 \in BOOLEAN, Sure(gone2),
         NEW down2, Told(linked, down, Close(s), down2)
  PROVE  Free(up, down2, S, is2, linked, waits, leaves, silent, hers2, his, gone2, s)
<1>0. gone2
  BY DEF Sure
<1>1. Close(s) \in Packets /\ down2 = IF linked THEN Append(down, Close(s)) ELSE down
  BY AboutPackets DEF About, Told
<1>2. /\ At(down2, JoinResponse(s)) = At(down, JoinResponse(s))
      /\ At(down2, Lost) = At(down, Lost)
      /\ linked => Len(down) + 1 \in At(down2, Close(s))
  BY <1>1, AtSent, AboutDistinct
<1>3. \A i \in At(down, JoinResponse(s)) : i < Len(down) + 1
  <2>1. At(down, JoinResponse(s)) \subseteq 1..Len(down) /\ Len(down) \in Nat
    BY AtIn
  <2> QED BY <2>1
<1>4. Once(up, down2, S, s)
  BY <1>2 DEF Free, Once
<1> QED BY <1>0, <1>2, <1>3, <1>4 DEF Free, Awaiting, Member, Parted
----------------------------------------------------------------------------
(* Connections (LinesInv) *)

LEMMA SentIs ==
  ASSUME NEW c \in Chans, NEW p \in Peers, NEW to, NEW m
  PROVE  \A a, b \in Peers : SendAll(c, p, to, m)[a][b] = IF a = p /\ b \in to THEN Append(c[a][b], m) ELSE c[a][b]
BY DEF SendAll, Chans

LEMMA ReceivedIs ==
  ASSUME chan \in Chans, NEW p \in Peers, NEW q \in Peers
  PROVE  \A a, b \in Peers : Received(p, q)[a][b] = IF a = q /\ b = p THEN Tail(chan[q][p]) ELSE chan[a][b]
BY DEF Received, Chans

LEMMA CutIs ==
  ASSUME NEW p \in Peers, NEW q \in Peers
  PROVE  \A a, b \in Peers :
           Cut(chan, p, q)[a][b] = IF {a, b} = {p, q} THEN Append(chan[a][b], Lost) ELSE chan[a][b]
BY DEF Cut

LEMMA LineSent ==
  ASSUME NEW l \in Seq(Packets), Line(l, TRUE), NEW m \in Packets, m # Lost
  PROVE  Line(Append(l, m), TRUE)
BY AtSent DEF Line

LEMMA LineCut ==
  ASSUME NEW l \in Seq(Packets), Line(l, TRUE) PROVE Line(Append(l, Lost), FALSE)
<1>1. Lost \in Packets
  BY DEF Packets
<1>2. At(Append(l, Lost), Lost) = {Len(l) + 1} /\ Len(Append(l, Lost)) = Len(l) + 1
  BY <1>1, AtSent, AppendProperties DEF Line
<1> QED BY <1>2 DEF Line

LEMMA LineReceived ==
  ASSUME NEW l \in Seq(Packets), NEW k \in BOOLEAN, Line(l, k), l # <<>>
  PROVE  /\ Line(Tail(l), k)
         /\ Head(l) = Lost => ~k /\ Tail(l) = <<>>
         /\ ~k => At(l, Lost) # {}
<1>1. /\ Len(l) \in Nat \ {0} /\ Len(Tail(l)) = Len(l) - 1 /\ Tail(l) \in Seq(Packets)
      /\ At(Tail(l), Lost) = {i \in Nat \ {0} : i + 1 \in At(l, Lost)}
      /\ Head(l) = Lost => 1 \in At(l, Lost)
  BY EmptySeq, LenProperties, HeadTailProperties, AtTail
<1>2. CASE k
  BY <1>1, <1>2 DEF Line
<1>3. CASE ~k
  <2>1. At(l, Lost) = {Len(l)}
    BY <1>3 DEF Line
  <2>2. CASE Len(l) = 1
    <3>0. Len(Tail(l)) = 0 /\ Tail(l) \in Seq(Packets)
      BY <1>1, <2>2
    <3>1. Tail(l) = <<>>
      BY <3>0, EmptySeq
    <3> QED BY <1>3, <2>1, <3>1 DEF Line
  <2>3. CASE Len(l) # 1
    <3>1. At(Tail(l), Lost) = {Len(l) - 1}
      BY <1>1, <2>1, <2>3
    <3> QED BY <1>1, <1>3, <2>1, <2>3, <3>1 DEF Line
  <2> QED BY <2>2, <2>3
<1> QED BY <1>2, <1>3

(* The connections, for any queues between them.                            *)
LinesOK(c, b) ==
  /\ \A p \in Peers : p \notin b[p] /\ c[p][p] = <<>>
  /\ \A p, q \in Peers : (q \in b[p] => p \in b[q]) /\ Line(c[p][q], q \in b[p])

LEMMA LinesInvIs == LinesInv <=> LinesOK(chan, buddies)
BY DEF LinesInv, LinesOK

LEMMA LinesSent ==
  ASSUME NEW c \in Chans, NEW b \in [Peers -> SUBSET Peers], LinesOK(c, b), NEW p \in Peers, NEW to, to \subseteq b[p],
         NEW m \in Packets, m # Lost \/ to = {}
  PROVE  LinesOK(SendAll(c, p, to, m), b)
<1> DEFINE d == SendAll(c, p, to, m)
<1>1. \A x, y \in Peers : d[x][y] = IF x = p /\ y \in to THEN Append(c[x][y], m) ELSE c[x][y]
  BY SentIs
<1> HIDE DEF d
<1>2. ASSUME NEW x \in Peers PROVE d[x][x] = <<>>
  BY <1>1 DEF LinesOK
<1>3. ASSUME NEW x \in Peers, NEW y \in Peers PROVE Line(d[x][y], y \in b[x])
  <2>1. CASE x = p /\ y \in to
    <3>1. y \in b[x] /\ m # Lost /\ Line(c[x][y], y \in b[x]) /\ c[x][y] \in Seq(Packets)
      BY <2>1 DEF LinesOK, Chans
    <3>2. (y \in b[x]) = TRUE
      BY <3>1
    <3>3. Line(c[x][y], TRUE)
      BY <3>1, <3>2
    <3>4. Line(Append(c[x][y], m), TRUE)
      BY <3>1, <3>3, LineSent
    <3> QED BY <1>1, <2>1, <3>2, <3>4
  <2>2. CASE ~(x = p /\ y \in to)
    BY <1>1, <2>2 DEF LinesOK
  <2> QED BY <2>1, <2>2
<1> QED BY <1>2, <1>3 DEF LinesOK, d

LEMMA LinesReceived ==
  ASSUME chan \in Chans, LinesInv, NEW p \in Peers, NEW q \in Peers, chan[q][p] # <<>>
  PROVE  /\ LinesOK(Received(p, q), buddies)
         /\ p # q
         /\ Head(chan[q][p]) = Lost => p \notin buddies[q] /\ q \notin buddies[p] /\ Tail(chan[q][p]) = <<>>
         /\ p \notin buddies[q] => At(chan[q][p], Lost) # {}
<1> DEFINE d == Received(p, q)
<1>1. \A x, y \in Peers : d[x][y] = IF x = q /\ y = p THEN Tail(chan[q][p]) ELSE chan[x][y]
  BY ReceivedIs
<1> HIDE DEF d
<1>2. p # q
  BY DEF LinesInv
<1>3. chan[q][p] \in Seq(Packets) /\ Line(chan[q][p], p \in buddies[q]) /\ (p \in buddies[q]) \in BOOLEAN
  BY DEF LinesInv, Chans
<1>4. /\ Line(Tail(chan[q][p]), p \in buddies[q])
      /\ Head(chan[q][p]) = Lost => ~(p \in buddies[q]) /\ Tail(chan[q][p]) = <<>>
      /\ ~(p \in buddies[q]) => At(chan[q][p], Lost) # {}
  BY <1>3, LineReceived
<1>5. LinesOK(d, buddies)
  <2>1. \A x \in Peers : x \notin buddies[x] /\ d[x][x] = <<>>
    BY <1>1, <1>2 DEF LinesInv
  <2>2. \A x, y \in Peers : (y \in buddies[x] => x \in buddies[y]) /\ Line(d[x][y], y \in buddies[x])
    BY <1>1, <1>4 DEF LinesInv
  <2> QED BY <2>1, <2>2 DEF LinesOK
<1> QED BY <1>2, <1>4, <1>5 DEF d, LinesInv

LEMMA LinesCut ==
  ASSUME chan \in Chans, LinesInv, buddies \in [Peers -> SUBSET Peers], NEW p \in Peers, NEW q \in Peers,
         q \in buddies[p], NEW b, b = [buddies EXCEPT ![p] = @ \ {q}, ![q] = @ \ {p}]
  PROVE  /\ LinesOK(Cut(chan, p, q), b)
         /\ p # q /\ p \in buddies[q]
         /\ b \in [Peers -> SUBSET Peers]
         /\ \A x, y \in Peers : y \in b[x] <=> y \in buddies[x] /\ {x, y} # {p, q}
<1> DEFINE d == Cut(chan, p, q)
<1>1. \A x, y \in Peers : d[x][y] = IF {x, y} = {p, q} THEN Append(chan[x][y], Lost) ELSE chan[x][y]
  BY CutIs
<1> HIDE DEF d
<1>2. p # q /\ p \in buddies[q]
  BY DEF LinesInv
<1>3. /\ b \in [Peers -> SUBSET Peers]
      /\ \A x \in Peers : b[x] = IF x = p THEN buddies[x] \ {q} ELSE IF x = q THEN buddies[x] \ {p} ELSE buddies[x]
  BY <1>2
<1> DEFINE E(x, y) == (x = p /\ y = q) \/ (x = q /\ y = p)
<1>4. \A x, y \in Peers : {x, y} = {p, q} <=> E(x, y)
  OBVIOUS
<1>5. \A x, y \in Peers : y \in b[x] <=> y \in buddies[x] /\ ~E(x, y)
  BY <1>2, <1>3
<1>a. \A x, y \in Peers : d[x][y] = IF E(x, y) THEN Append(chan[x][y], Lost) ELSE chan[x][y]
  BY <1>1, <1>4
<1>b. \A x, y \in Peers : E(x, y) <=> E(y, x)
  OBVIOUS
<1>c. \A x \in Peers : ~E(x, x)
  BY <1>2
<1> HIDE DEF E
<1>6. ASSUME NEW x \in Peers PROVE x \notin b[x] /\ d[x][x] = <<>>
  BY <1>5, <1>a, <1>c DEF LinesInv
<1>7. ASSUME NEW x \in Peers, NEW y \in Peers PROVE (y \in b[x] => x \in b[y]) /\ Line(d[x][y], y \in b[x])
  <2>1. CASE E(x, y)
    <3>0. y \in buddies[x]
      BY <1>2, <2>1 DEF E
    <3>1. y \notin b[x] /\ y \in buddies[x] /\ Line(chan[x][y], y \in buddies[x]) /\ chan[x][y] \in Seq(Packets)
      BY <1>5, <2>1, <3>0 DEF LinesInv, Chans
    <3>2. (y \in buddies[x]) = TRUE /\ (y \in b[x]) = FALSE
      BY <3>1
    <3>3. Line(chan[x][y], TRUE)
      BY <3>1, <3>2
    <3>4. Line(d[x][y], FALSE)
      BY <1>a, <2>1, <3>1, <3>3, LineCut
    <3> QED BY <3>1, <3>2, <3>4
  <2>2. CASE ~E(x, y)
    <3>1. (y \in b[x] <=> y \in buddies[x]) /\ (x \in b[y] <=> x \in buddies[y]) /\ d[x][y] = chan[x][y]
      BY <1>5, <1>a, <1>b, <2>2
    <3>2. (y \in b[x]) = (y \in buddies[x])
      BY <3>1
    <3> QED BY <3>1, <3>2 DEF LinesInv
  <2> QED BY <2>1, <2>2
<1> QED BY <1>2, <1>3, <1>4, <1>5, <1>6, <1>7 DEF LinesOK, d
----------------------------------------------------------------------------
(* Packets, sessions and calls (StartedInv) *)

Directed(c) == \A p, q \in Peers : \A m \in ToSet(c[p][q]) : Addressed(m, p, q)

LEMMA DirectedSent ==
  ASSUME NEW c \in Chans, Directed(c), NEW p \in Peers, NEW to, NEW m \in Packets,
         \A q \in Peers \cap to : Addressed(m, p, q)
  PROVE  Directed(SendAll(c, p, to, m))
<1> DEFINE d == SendAll(c, p, to, m)
<1>1. \A a, b \in Peers : d[a][b] = IF a = p /\ b \in to THEN Append(c[a][b], m) ELSE c[a][b]
  BY SentIs
<1> HIDE DEF d
<1>2. \A b \in Peers : ToSet(Append(c[p][b], m)) = ToSet(c[p][b]) \cup {m}
  BY Appended DEF Chans
<1>3. ASSUME NEW a \in Peers, NEW b \in Peers, NEW x \in ToSet(d[a][b]) PROVE Addressed(x, a, b)
  <2>1. CASE a = p /\ b \in to
    <3>1. x \in ToSet(c[p][b]) \/ x = m
      BY <1>1, <1>2, <1>3, <2>1
    <3> QED BY <2>1, <3>1 DEF Directed
  <2>2. CASE ~(a = p /\ b \in to)
    BY <1>1, <1>3, <2>2 DEF Directed
  <2> QED BY <2>1, <2>2
<1> QED BY <1>3 DEF Directed, d

LEMMA DirectedReceived ==
  ASSUME chan \in Chans, Directed(chan), NEW p \in Peers, NEW q \in Peers, chan[q][p] # <<>>
  PROVE  Directed(Received(p, q)) /\ Addressed(Head(chan[q][p]), q, p)
<1> DEFINE d == Received(p, q)
<1>1. \A a, b \in Peers : d[a][b] = IF a = q /\ b = p THEN Tail(chan[q][p]) ELSE chan[a][b]
  BY ReceivedIs
<1> HIDE DEF d
<1>2. ToSet(Tail(chan[q][p])) \subseteq ToSet(chan[q][p]) /\ Head(chan[q][p]) \in ToSet(chan[q][p])
  BY Tailed DEF Chans
<1>3. ASSUME NEW a \in Peers, NEW b \in Peers, NEW x \in ToSet(d[a][b]) PROVE Addressed(x, a, b)
  <2>1. x \in ToSet(chan[a][b])
    BY <1>1, <1>2, <1>3
  <2> QED BY <2>1 DEF Directed
<1> QED BY <1>2, <1>3 DEF Directed, d

LEMMA DirectedCut ==
  ASSUME chan \in Chans, Directed(chan), NEW p \in Peers, NEW q \in Peers PROVE Directed(Cut(chan, p, q))
<1> DEFINE d == Cut(chan, p, q)
<1>1. \A a, b \in Peers : d[a][b] = IF {a, b} = {p, q} THEN Append(chan[a][b], Lost) ELSE chan[a][b]
  BY CutIs
<1> HIDE DEF d
<1>2. Lost \in Packets /\ \A a, b : Addressed(Lost, a, b)
  BY DEF Packets, Lost, Addressed
<1>3. ASSUME NEW a \in Peers, NEW b \in Peers PROVE ToSet(d[a][b]) \subseteq ToSet(chan[a][b]) \cup {Lost}
  <2>0. chan[a][b] \in Seq(Packets)
    BY DEF Chans
  <2>1. ToSet(Append(chan[a][b], Lost)) = ToSet(chan[a][b]) \cup {Lost}
    BY <1>2, <2>0, Appended
  <2> QED BY <1>1, <2>1
<1>4. ASSUME NEW a \in Peers, NEW b \in Peers, NEW x \in ToSet(d[a][b]) PROVE Addressed(x, a, b)
  BY <1>2, <1>3, <1>4 DEF Directed
<1> QED BY <1>4 DEF Directed, d

(* Every session in a list has a master, who has it once.                   *)
Mastered ==
  /\ \A p \in Peers : \A o \in ToSet(list[p]) : master[o.id] # None
  /\ \A p \in Peers \ nested : \A i, j \in DOMAIN list[p] :
       list[p][i].id = list[p][j].id /\ master[list[p][i].id] = p => i = j

Bidden == \A p \in Peers : \A f \in ToSet(frames[p]) : Farewell(p, f)

LEMMA StartedInvIs == StartedInv <=> Directed(chan) /\ Mastered /\ Bidden
BY DEF StartedInv, Directed, Mastered, Bidden

(* Nobody starts a session, and new calls say what they should.             *)
LEMMA BiddenKept ==
  ASSUME StartedInv, master' = master, \A p \in Peers : buddies'[p] \subseteq buddies[p],
         \A p \in Peers : \A f \in ToSet(frames'[p]) : f \in ToSet(frames[p]) \/ Farewell(p, f)
  PROVE  Bidden'
<1>1. ASSUME NEW p \in Peers, NEW f \in ToSet(frames'[p]) PROVE Farewell(p, f)'
  <2>1. Farewell(p, f)
    BY <1>1 DEF StartedInv
  <2>2. Close(f.object.id)' = Close(f.object.id) /\ Disjoin(f.object.id)' = Disjoin(f.object.id)
    BY DEF Close, Disjoin
  <2> QED BY <2>1 DEF Farewell
<1> QED BY <1>1 DEF Bidden

LEMMA MasteredKept ==
  ASSUME StartedInv, master' = master, list' = list, nested \subseteq nested' PROVE Mastered'
BY DEF StartedInv, Mastered

LEMMA StartedKept ==
  ASSUME StartedInv, master' = master, list' = list, nested \subseteq nested', Directed(chan'),
         \A p \in Peers : buddies'[p] \subseteq buddies[p],
         \A p \in Peers : \A f \in ToSet(frames'[p]) : f \in ToSet(frames[p]) \/ Farewell(p, f)
  PROVE  StartedInv'
<1>1. Directed(chan)'
  BY DEF Directed, Addressed
<1>2. Mastered' /\ Bidden'
  BY MasteredKept, BiddenKept
<1>3. (StartedInv <=> Directed(chan) /\ Mastered /\ Bidden)'
  BY StartedInvIs, PTL
<1> QED BY <1>1, <1>2, <1>3
----------------------------------------------------------------------------
(* What a master and a slave know of one another after a step *)

LEMMA GhostInvAfter ==
  ASSUME IInv', LinesOK(chan', buddies'), StartedInv',
         \A p, q \in Peers \ nested', s \in Sessions :
           p # q /\ master'[s] = p => GhostFree(p, q, s)'
  PROVE  GhostInv'
<1>1. LinesInv'
  BY DEF LinesInv, LinesOK
<1> QED BY <1>1 DEF GhostInv

Has(q, s) == {o \in alive[q] : o.id = s}

(* Nothing is said about the session, he keeps it, and she keeps him; the   *)
(* calls that are going to end it go on.                                    *)
LEMMA GhostKept ==
  ASSUME NEW p \in Peers, NEW q \in Peers, NEW s \in Sessions, GhostFree(p, q, s),
         Alike(chan[q][p], chan'[q][p], s), Alike(chan[p][q], chan'[p][q], s),
         Has(q, s)' = Has(q, s), q \in collaborators'[p][s] <=> q \in collaborators[p][s],
         q \in buddies'[p] <=> q \in buddies[p], s \in asked[q] => s \in asked'[q],
         Leaving(q, s) \subseteq Leaving(q, s)',
         \A f \in Leaving(q, s)' \ Leaving(q, s) : f.to = {} => q \notin buddies[p] \/ ~Known(p, s),
         Known(p, s)' => Known(p, s),
         q \in collaborators[p][s] /\ Walks(p, q, s) => Walks(p, q, s)',
         Has(q, s) # {} /\ Walks(q, p, s) => Walks(q, p, s)' \/ Leaving(q, s)' # {}
  PROVE  GhostFree(p, q, s)'
<1> DEFINE up == chan[q][p]
           down == chan[p][q]
           S == Has(q, s)
           is == q \in collaborators[p][s]
           linked == q \in buddies[p]
           waits == s \in asked[q]
           leaves == Leaving(q, s) # {}
           silent == Silent(q, s)
           hers == Walks(p, q, s)
           his == Walks(q, p, s)
           gone == ~Known(p, s)
           waits2 == s \in asked'[q]
           leaves2 == Leaving(q, s)' # {}
           silent2 == Silent(q, s)'
           hers2 == Walks(p, q, s)'
           his2 == Walks(q, p, s)'
           gone2 == ~Known(p, s)'
<1>1. Free(up, down, S, is, linked, waits, leaves, silent, hers, his, gone, s)
  BY FreeIs DEF Has
<1>2. /\ is \in BOOLEAN /\ linked \in BOOLEAN /\ waits \in BOOLEAN /\ leaves \in BOOLEAN /\ silent \in BOOLEAN
      /\ hers \in BOOLEAN /\ his \in BOOLEAN /\ gone \in BOOLEAN
      /\ waits2 \in BOOLEAN /\ leaves2 \in BOOLEAN /\ silent2 \in BOOLEAN
      /\ hers2 \in BOOLEAN /\ his2 \in BOOLEAN /\ gone2 \in BOOLEAN
  BY DEF Silent, Walks, Known
<1>3. /\ waits => waits2
      /\ leaves => leaves2
      /\ silent2 => silent \/ ~linked \/ gone
      /\ is /\ hers => hers2
      /\ S # {} /\ his => his2 \/ leaves2
      /\ gone => gone2
  BY DEF Silent
<1>4. Alike(up, chan'[q][p], s) /\ Alike(down, chan'[p][q], s)
  OBVIOUS
<1>5. GhostFree(p, q, s)' <=>
           Free(chan'[q][p], chan'[p][q], Has(q, s)', q \in collaborators'[p][s],
                q \in buddies'[p], waits2, leaves2, silent2, hers2, his2, gone2, s)
  <2>1. (GhostFree(p, q, s) <=>
           Free(chan[q][p], chan[p][q], Has(q, s), q \in collaborators[p][s],
                q \in buddies[p], s \in asked[q], Leaving(q, s) # {}, Silent(q, s), Walks(p, q, s),
                Walks(q, p, s), ~Known(p, s), s))'
    BY FreeIs, PTL DEF Has
  <2> QED BY <2>1
<1>6. (q \in collaborators'[p][s]) = is /\ (q \in buddies'[p]) = linked /\ Has(q, s)' = S
  OBVIOUS
<1> HIDE DEF up, down, S, is, linked, waits, leaves, silent, hers, his, gone, waits2, leaves2, silent2, hers2,
             his2, gone2
<1>7. Free(chan'[q][p], chan'[p][q], S, is, linked, waits2, leaves2, silent2, hers2, his2, gone2, s)
  BY <1>1, <1>2, <1>3, <1>4, FreeKept
<1> QED BY <1>5, <1>6, <1>7
----------------------------------------------------------------------------
(* Calls in progress and lists, as sets *)

LEMMA CallsPushed ==
  ASSUME NEW fs \in Seq(Frames), NEW f \in Frames
  PROVE  /\ ToSet(Append(fs, f)) = ToSet(fs) \cup {f}
         /\ fs # <<>> => /\ ToSet(fs) = ToSet(Front(fs)) \cup {Last(fs)}
                         /\ ToSet(Append(Front(fs), f)) = ToSet(Front(fs)) \cup {f}
<1>1. ASSUME fs # <<>> PROVE ToSet(fs) = ToSet(Front(fs)) \cup {Last(fs)}
  <2> DEFINE d == Front(fs)
  <2>1. /\ DOMAIN d = DOMAIN fs \ {Len(fs)} /\ Len(fs) \in DOMAIN fs
        /\ \A i \in DOMAIN d : d[i] = fs[i]
        /\ Last(fs) = fs[Len(fs)]
    BY <1>1, Fronted
  <2> HIDE DEF d
  <2> QED BY <2>1 DEF ToSet, d
<1>2. ASSUME fs # <<>> PROVE Front(fs) \in Seq(Frames)
  BY <1>2, Fronted
<1> QED BY <1>1, <1>2, Appended

(* The sessions s of r keep their places or come nearer to the front.       *)
Stays(r, s) ==
  \A k \in DOMAIN list[r] : list[r][k].id = s => \E j \in DOMAIN list'[r] : j <= k /\ list'[r][j].id = s

LEMMA StaysSame == ASSUME IInv, NEW r \in Peers, NEW s, list'[r] = list[r] PROVE Stays(r, s)
<1>1. \A k \in DOMAIN list[r] : k <= k
  <2>1. list[r] \in Seq(Objects)
    BY IInvParts DEF Types
  <2>2. DOMAIN list[r] = 1..Len(list[r]) /\ Len(list[r]) \in Nat
    BY <2>1, LenProperties
  <2> QED BY <2>2
<1> QED BY <1>1 DEF Stays

LEMMA StaysGrown ==
  ASSUME IInv, NEW r \in Peers, NEW s, NEW o \in Objects, list'[r] = Append(list[r], o) PROVE Stays(r, s)
<1>1. list[r] \in Seq(Objects)
  BY IInvParts DEF Types
<1>2. \A k \in DOMAIN list[r] : k \in Nat
  BY <1>1, LenProperties
<1>3. \A k \in DOMAIN list[r] : k <= k
  BY <1>2
<1>4. \A k \in DOMAIN list[r] : k \in DOMAIN list'[r] /\ list'[r][k] = list[r][k]
  BY <1>1, Appended
<1> QED BY <1>3, <1>4 DEF Stays

LEMMA StaysDeleted ==
  ASSUME IInv, NEW r \in Peers, NEW s, NEW i \in DOMAIN list[r], list[r][i].id # s, list'[r] = RemoveAt(list[r], i)
  PROVE  Stays(r, s)
<1> DEFINE l == list[r]
           d == list'[r]
<1>1. l \in Seq(Objects)
  BY IInvParts DEF Types
<1>2. /\ Len(l) \in Nat /\ DOMAIN l = 1..Len(l) /\ i \in 1..Len(l)
  BY <1>1, LenProperties
<1>3. /\ DOMAIN d = 1..(Len(l) - 1)
      /\ \A k \in 1..(Len(l) - 1) : d[k] = IF k < i THEN l[k] ELSE l[k + 1]
  BY <1>1, DeletedItems
<1> SUFFICES ASSUME NEW k \in DOMAIN l, l[k].id = s PROVE \E j \in DOMAIN d : j <= k /\ d[j].id = s
  BY DEF Stays
<1> HIDE DEF l, d
<1>4. k # i /\ k \in 1..Len(l)
  BY <1>2 DEF l
<1>5. CASE k < i
  <2>1. k \in DOMAIN d /\ k <= k /\ d[k] = l[k]
    BY <1>2, <1>3, <1>4, <1>5
  <2> QED BY <2>1
<1>6. CASE ~(k < i)
  <2>1. k - 1 \in 1..(Len(l) - 1) /\ ~(k - 1 < i) /\ (k - 1) + 1 = k /\ k - 1 <= k
    BY <1>2, <1>4, <1>6
  <2>2. d[k - 1] = l[k]
    BY <1>3, <2>1
  <2> QED BY <1>3, <2>1, <2>2
<1> QED BY <1>5, <1>6

(* What is left of a list was in it.                                        *)
LEMMA DeletedFrom ==
  ASSUME NEW S, NEW l \in Seq(S), NEW i \in DOMAIN l
  PROVE  /\ ToSet(RemoveAt(l, i)) \subseteq ToSet(l)
         /\ \A j, k \in DOMAIN RemoveAt(l, i) : \E a, b \in DOMAIN l :
              /\ RemoveAt(l, i)[j] = l[a] /\ RemoveAt(l, i)[k] = l[b] /\ (a = b => j = k)
              /\ a # i
<1> DEFINE d == RemoveAt(l, i)
<1>1. Len(l) \in Nat /\ DOMAIN l = 1..Len(l) /\ i \in 1..Len(l)
  BY LenProperties
<1>2. /\ DOMAIN d = 1..(Len(l) - 1)
      /\ \A k \in 1..(Len(l) - 1) : d[k] = IF k < i THEN l[k] ELSE l[k + 1]
  BY DeletedItems
<1> HIDE DEF d
<1> DEFINE old(k) == IF k < i THEN k ELSE k + 1
<1>3. \A k \in DOMAIN d : old(k) \in DOMAIN l /\ d[k] = l[old(k)] /\ old(k) # i
  BY <1>1, <1>2
<1>4. \A j, k \in DOMAIN d : old(j) = old(k) => j = k
  BY <1>1, <1>2
<1> HIDE DEF old
<1>5. ToSet(d) \subseteq ToSet(l)
  BY <1>3 DEF ToSet
<1>6. ASSUME NEW j \in DOMAIN d, NEW k \in DOMAIN d
      PROVE  \E a, b \in DOMAIN l : /\ d[j] = l[a] /\ d[k] = l[b] /\ (a = b => j = k)
                                    /\ a # i
  BY <1>3, <1>4
<1> QED BY <1>5, <1>6 DEF d

(* The walks over a list go on with the calls.                              *)
LEMMA WalksOn ==
  ASSUME IInv, NEW p \in Peers, NEW q, NEW s, Walks(p, q, s), Stays(p, s),
         \A f \in ToSet(frames[p]) : f.call = "removeBuddy" => f \in ToSet(frames'[p]),
         list' \in [Peers -> Seq(Objects)]
  PROVE  Walks(p, q, s)'
<1>1. PICK f \in ToSet(frames[p]) : /\ f.call = "removeBuddy" /\ f.from = q
                                    /\ \E k \in DOMAIN list[p] : k <= f.index /\ list[p][k].id = s
  BY DEF Walks
<1>2. PICK k \in DOMAIN list[p] : k <= f.index /\ list[p][k].id = s
  BY <1>1
<1>3. PICK j \in DOMAIN list'[p] : j <= k /\ list'[p][j].id = s
  BY <1>2 DEF Stays
<1>4. list[p] \in Seq(Objects) /\ list'[p] \in Seq(Objects) /\ frames[p] \in Seq(Frames)
  BY IInvParts DEF Types
<1>5. k \in Nat /\ j \in Nat
  BY <1>4, LenProperties
<1>6. f \in Frames
  <2>1. DOMAIN frames[p] = 1..Len(frames[p]) /\ \A i \in 1..Len(frames[p]) : frames[p][i] \in Frames
    BY <1>4, LenProperties, ElementOfSeq
  <2> QED BY <2>1 DEF ToSet
<1>7. f.index \in Nat
  BY <1>1, <1>6 DEF Frames, DestroyFrames
<1>8. j <= f.index
  BY <1>2, <1>3, <1>5, <1>7
<1> QED BY <1>1, <1>3, <1>8 DEF Walks
----------------------------------------------------------------------------
(* Steps that say nothing about the session *)

LEMMA GhostMore ==
  ASSUME IInv, NEW p \in Peers, NEW q \in Peers, NEW s \in Sessions, GhostFree(p, q, s),
         Alike(chan[q][p], chan'[q][p], s), Alike(chan[p][q], chan'[p][q], s),
         Has(q, s)' = Has(q, s), q \in collaborators'[p][s] <=> q \in collaborators[p][s],
         q \in buddies'[p] <=> q \in buddies[p], s \in asked[q] => s \in asked'[q],
         list' \in [Peers -> Seq(Objects)],
         \A r \in {p, q} : Stays(r, s),
         \A r \in {p, q} : \A f \in ToSet(frames[r]) :
           f.call = "removeBuddy" \/ (f.call = "destroySession" /\ f.object.id = s) => f \in ToSet(frames'[r]),
         \A f \in ToSet(frames'[q]) \ ToSet(frames[q]) :
           f.call = "destroySession" /\ f.object.id = s => f.to # {},
         Known(p, s)' => Known(p, s)
  PROVE  GhostFree(p, q, s)'
<1>1. Walks(p, q, s) => Walks(p, q, s)'
  BY WalksOn
<1>2. Walks(q, p, s) => Walks(q, p, s)'
  BY WalksOn
<1>3. Leaving(q, s) \subseteq Leaving(q, s)'
  BY DEF Leaving
<1>4. \A f \in Leaving(q, s)' \ Leaving(q, s) : f.to # {}
  BY DEF Leaving
<1>5. \A f \in Leaving(q, s)' \ Leaving(q, s) : f.to = {} => q \notin buddies[p] \/ ~Known(p, s)
  BY <1>4
<1>6. /\ q \in collaborators[p][s] /\ Walks(p, q, s) => Walks(p, q, s)'
      /\ Has(q, s) # {} /\ Walks(q, p, s) => Walks(q, p, s)' \/ Leaving(q, s)' # {}
  BY <1>1, <1>2
<1> QED BY <1>3, <1>5, <1>6, GhostKept

(* Nor change the lists of the two or their calls.                          *)
LEMMA GhostStill ==
  ASSUME IInv, NEW p \in Peers, NEW q \in Peers, NEW s \in Sessions, GhostFree(p, q, s),
         Alike(chan[q][p], chan'[q][p], s), Alike(chan[p][q], chan'[p][q], s),
         alive'[q] = alive[q], q \in collaborators'[p][s] <=> q \in collaborators[p][s],
         q \in buddies'[p] <=> q \in buddies[p], s \in asked[q] => s \in asked'[q],
         list' \in [Peers -> Seq(Objects)],
         \A r \in {p, q} : list'[r] = list[r] /\ frames'[r] = frames[r]
  PROVE  GhostFree(p, q, s)'
<1>1. \A r \in {p, q} : Stays(r, s)
  BY StaysSame
<1>2. Has(q, s)' = Has(q, s)
  BY DEF Has
<1>3. Known(p, s)' => Known(p, s)
  BY DEF Known
<1> QED BY <1>1, <1>2, <1>3, GhostMore

(* A packet is sent, one is received.                                       *)
LEMMA AlikeAllSent ==
  ASSUME NEW c \in Chans, NEW a \in Peers, NEW to, NEW m \in Packets, NEW x \in Peers, NEW y \in Peers, NEW s,
         x # a \/ y \notin to \/ m \notin About(s)
  PROVE  Alike(c[x][y], SendAll(c, a, to, m)[x][y], s)
<1>1. SendAll(c, a, to, m)[x][y] = IF x = a /\ y \in to THEN Append(c[x][y], m) ELSE c[x][y]
  BY SentIs
<1>2. c[x][y] \in Seq(Packets)
  BY DEF Chans
<1>3. Alike(c[x][y], c[x][y], s) /\ (m \notin About(s) => Alike(c[x][y], Append(c[x][y], m), s))
  BY <1>2, AlikeSame, AlikeSent
<1> QED BY <1>1, <1>3

LEMMA AlikeOneReceived ==
  ASSUME chan \in Chans, NEW a \in Peers, NEW b \in Peers, chan[b][a] # <<>>, NEW x \in Peers, NEW y \in Peers, NEW s,
         x # b \/ y # a \/ Head(chan[b][a]) \notin About(s)
  PROVE  Alike(chan[x][y], Received(a, b)[x][y], s)
<1>1. Received(a, b)[x][y] = IF x = b /\ y = a THEN Tail(chan[b][a]) ELSE chan[x][y]
  BY ReceivedIs
<1>2. chan[x][y] \in Seq(Packets) /\ chan[b][a] \in Seq(Packets)
  BY DEF Chans
<1>3. Alike(chan[x][y], chan[x][y], s)
  BY <1>2, AlikeSame
<1>4. Head(chan[b][a]) \notin About(s) => Alike(chan[b][a], Tail(chan[b][a]), s)
  BY <1>2, AlikeReceived
<1> QED BY <1>1, <1>3, <1>4

LEMMA AlikeSelf ==
  ASSUME chan \in Chans, NEW x \in Peers, NEW y \in Peers, NEW s PROVE Alike(chan[x][y], chan[x][y], s)
<1>1. chan[x][y] \in Seq(Packets)
  BY DEF Chans
<1> QED BY <1>1, AlikeSame

(* A packet that names another session is not about this one.               *)
LEMMA NotAbout ==
  ASSUME NEW m \in Packets, NEW s
  PROVE  /\ m.type = "start" => m \notin About(s)
         /\ m # Lost /\ m.id # s => m \notin About(s)
<1>1. \A x \in About(s) : (x.id = s \/ x = Lost) /\ x.type # "start"
  BY AboutDistinct DEF About
<1> QED BY <1>1
----------------------------------------------------------------------------
(* Steps about no session *)

(* Calls are made that say goodbye or are those of masters; no packet comes *)
(* or goes that is about a session.                                         *)
LEMMA GhostQuiet ==
  ASSUME GhostInv, IInv', UNCHANGED <<master, list, alive, collaborators, buddies, asked>>,
         nested \subseteq nested', LinesOK(chan', buddies), Directed(chan'),
         \A x, y \in Peers, s \in Sessions : Alike(chan[x][y], chan'[x][y], s),
         \A r \in Peers : \A f \in ToSet(frames[r]) :
           f.call \in {"removeBuddy", "destroySession"} => f \in ToSet(frames'[r]),
         \A r \in Peers : \A f \in ToSet(frames'[r]) \ ToSet(frames[r]) :
           Farewell(r, f) /\ (f.call = "destroySession" => master[f.object.id] = r \/ f.to # {})
  PROVE  GhostInv'
<1>1. IInv /\ StartedInv
  BY DEF GhostInv
<1>2. LinesOK(chan', buddies')
  OBVIOUS
<1>3. StartedInv'
  <2>1. \A r \in Peers : buddies'[r] \subseteq buddies[r]
    OBVIOUS
  <2>2. \A r \in Peers : \A f \in ToSet(frames'[r]) : f \in ToSet(frames[r]) \/ Farewell(r, f)
    OBVIOUS
  <2> QED BY <1>1, <2>1, <2>2, StartedKept
<1>4. ASSUME NEW p \in Peers \ nested', NEW q \in Peers \ nested', NEW s \in Sessions, p # q, master'[s] = p
      PROVE  GhostFree(p, q, s)'
  <2>1. GhostFree(p, q, s)
    BY <1>4 DEF GhostInv
  <2>2. \A r \in {p, q} : Stays(r, s)
    BY <1>1, StaysSame
  <2>3. Has(q, s)' = Has(q, s) /\ (Known(p, s)' => Known(p, s))
    BY DEF Has, Known
  <2>4. list' \in [Peers -> Seq(Objects)]
    BY <1>1, IInvParts DEF Types
  <2>5. \A f \in ToSet(frames'[q]) \ ToSet(frames[q]) : f.call = "destroySession" /\ f.object.id = s => f.to # {}
    BY <1>4
  <2>6. \A r \in {p, q} : \A f \in ToSet(frames[r]) :
           f.call = "removeBuddy" \/ (f.call = "destroySession" /\ f.object.id = s) => f \in ToSet(frames'[r])
    OBVIOUS
  <2> QED BY <1>1, <2>1, <2>2, <2>3, <2>4, <2>5, <2>6, GhostMore
<1> QED BY <1>2, <1>3, <1>4, GhostInvAfter

(* ... and no packet at all.                                                *)
LEMMA GhostCalls ==
  ASSUME GhostInv, IInv', UNCHANGED <<master, list, alive, collaborators, buddies, asked, chan>>,
         nested \subseteq nested',
         \A r \in Peers : \A f \in ToSet(frames[r]) :
           f.call \in {"removeBuddy", "destroySession"} => f \in ToSet(frames'[r]),
         \A r \in Peers : \A f \in ToSet(frames'[r]) \ ToSet(frames[r]) :
           Farewell(r, f) /\ (f.call = "destroySession" => master[f.object.id] = r \/ f.to # {})
  PROVE  GhostInv'
<1>1. LinesOK(chan', buddies)
  BY LinesInvIs DEF GhostInv
<1>2. Directed(chan')
  BY StartedInvIs DEF GhostInv
<1>3. \A x, y \in Peers, s \in Sessions : Alike(chan[x][y], chan'[x][y], s)
  <2>1. chan \in Chans
    BY IInvParts DEF GhostInv, Types
  <2> QED BY <2>1, AlikeSelf
<1> QED BY <1>1, <1>2, <1>3, GhostQuiet

LEMMA SaveGhost ==
  ASSUME GhostInv, NEW p \in Peers, NEW o, (o \in ToSet(list[p]) /\ Save(p, o)) \/ (o \in saving[p] /\ SaveCb(p, o))
  PROVE  GhostInv'
<1>1. IInv'
  BY SaveIInv, SaveCbIInv DEF GhostInv
<1>2. UNCHANGED <<master, list, alive, collaborators, buddies, asked, chan, frames, nested>>
  BY DEF Save, SaveCb
<1> QED BY <1>1, <1>2, GhostCalls

LEMMA FramesOf ==
  ASSUME IInv, NEW p \in Peers, NEW g, frames' = [frames EXCEPT ![p] = g]
  PROVE  \A r \in Peers : frames'[r] = IF r = p THEN g ELSE frames[r]
BY IInvParts DEF Types

LEMMA DismissGhost ==
  ASSUME GhostInv, NEW p \in Peers, Dismiss(p) PROVE GhostInv'
<1>1. IInv /\ IInv'
  BY DismissIInv DEF GhostInv
<1>2. /\ UNCHANGED <<master, list, alive, collaborators, buddies, asked, chan, nested>>
      /\ frames' = [frames EXCEPT ![p] = Front(frames[p])]
      /\ Runs(p, "messageBox")
  BY DEF Dismiss
<1>3. frames[p] \in Seq(Frames) /\ frames[p] # <<>> /\ Last(frames[p]).call = "messageBox"
      /\ Last(frames[p]) \in Frames
  BY <1>1, <1>2, Running
<1>4. ToSet(frames[p]) = ToSet(Front(frames[p])) \cup {Last(frames[p])}
  BY <1>3, CallsPushed
<1>5. \A r \in Peers : frames'[r] = IF r = p THEN Front(frames[p]) ELSE frames[r]
  BY <1>1, <1>2, FramesOf
<1>6. \A r \in Peers : \A f \in ToSet(frames[r]) :
           f.call \in {"removeBuddy", "destroySession"} => f \in ToSet(frames'[r])
  BY <1>3, <1>4, <1>5
<1>7. \A r \in Peers : ToSet(frames'[r]) \subseteq ToSet(frames[r])
  BY <1>4, <1>5
<1> QED BY <1>1, <1>2, <1>6, <1>7, GhostCalls

LEMMA QuitGhost ==
  ASSUME GhostInv, NEW p \in Peers, Quit(p) PROVE GhostInv'
<1>1. IInv /\ IInv'
  BY QuitIInv DEF GhostInv
<1> DEFINE d == DisconnectFrame(1)
<1>2. /\ UNCHANGED <<master, list, alive, collaborators, buddies, asked, chan, nested>>
      /\ frames' = [frames EXCEPT ![p] = <<d>>]
      /\ frames[p] = <<>>
  BY DEF Quit
<1>3. d.call = "disconnectSessions"
  BY DEF DisconnectFrame
<1> HIDE DEF d
<1>4. \A r \in Peers : frames'[r] = IF r = p THEN <<d>> ELSE frames[r]
  BY <1>1, <1>2, FramesOf
<1>5. ToSet(<<>>) = {} /\ ToSet(<<d>>) = {d}
  BY DEF ToSet
<1>6. \A r \in Peers : \A f \in ToSet(frames[r]) : f \in ToSet(frames'[r])
  BY <1>2, <1>4, <1>5
<1>7. \A r \in Peers : \A f \in ToSet(frames'[r]) \ ToSet(frames[r]) : f = d
  BY <1>4, <1>5
<1>8. \A r : Farewell(r, d)
  BY <1>3 DEF Farewell
<1> QED BY <1>1, <1>2, <1>3, <1>6, <1>7, <1>8, GhostCalls

LEMMA HandleStartGhost ==
  ASSUME GhostInv, NEW p \in Peers, NEW q \in Peers, HandleStart(p, q) PROVE GhostInv'
<1>1. IInv /\ IInv' /\ LinesInv /\ StartedInv
  BY HandleStartIInv DEF GhostInv
<1> DEFINE c == Received(p, q)
           m == Head(chan[q][p])
           to == buddies[p] \ {q}
<1>2. c \in Chans /\ m \in Packets /\ m.type = "start" /\ chan[q][p] # <<>>
  BY <1>1, HeadHandled DEF HandleStart, HeadIs
<1>3. chan' = SendAll(c, p, to, m)
      /\ UNCHANGED <<master, list, alive, collaborators, buddies, asked, frames, nested>>
  BY DEF HandleStart
<1>4. chan \in Chans /\ buddies \in [Peers -> SUBSET Peers] /\ Directed(chan)
  BY <1>1, IInvParts, StartedInvIs DEF Types
<1>5. LinesOK(c, buddies) /\ Directed(c)
  BY <1>1, <1>2, <1>4, LinesReceived, DirectedReceived
<1>6. m # Lost /\ \A s : m \notin About(s)
  BY <1>2, NotAbout DEF Lost
<1>7. \A x, y \in Peers, s \in Sessions : Alike(chan[x][y], c[x][y], s)
  BY <1>2, <1>4, <1>6, AlikeOneReceived
<1>a. to \subseteq buddies[p] /\ \A r : Addressed(m, p, r)
  BY <1>2 DEF Addressed
<1> HIDE DEF c, m, to
<1>8. \A x, y \in Peers, s \in Sessions : Alike(c[x][y], chan'[x][y], s)
  BY <1>2, <1>3, <1>6, AlikeAllSent
<1>9. \A x, y \in Peers, s \in Sessions : Alike(chan[x][y], chan'[x][y], s)
  BY <1>7, <1>8, AlikeBoth
<1>10. LinesOK(chan', buddies)
  BY <1>2, <1>3, <1>4, <1>5, <1>6, <1>a, LinesSent
<1>11. Directed(chan')
  BY <1>2, <1>3, <1>5, <1>a, DirectedSent
<1> QED BY <1>1, <1>3, <1>9, <1>10, <1>11, GhostQuiet

(* A master closes, or a slave leaves, a session.                           *)
LEMMA DisconnectGhost ==
  ASSUME GhostInv, IInv', UNCHANGED <<master, list, alive, collaborators, buddies, asked, chan>>,
         NEW p \in Peers, NEW stack \in Seq(Frames), NEW o \in ToSet(list[p]), Disconnect(p, stack, o),
         \A f \in ToSet(frames[p]) : f.call \in {"removeBuddy", "destroySession"} => f \in ToSet(stack),
         \A f \in ToSet(stack) \ ToSet(frames[p]) : f.call = "disconnectSessions"
  PROVE  GhostInv'
<1>1. IInv /\ StartedInv /\ list[p] \in Seq(Objects)
  BY IInvParts DEF GhostInv, Types
<1> DEFINE x == Find(p, o.id)
           g == DestroyFrame(p, None, o, buddies[p], Close(o.id), FALSE)
           h == DestroyFrame(p, None, x, {master[o.id]}, Disjoin(o.id), FALSE)
<1>2. master[o.id] # None /\ Known(p, o.id)
  <2>1. PICK i \in DOMAIN list[p] : list[p][i] = o
    BY DEF ToSet
  <2> QED BY <1>1, <2>1 DEF StartedInv, Known
<1>3. x.id = o.id
  BY <1>1, <1>2, FoundSession
<1>4. /\ g.call = "destroySession" /\ g.object = o /\ g.to = buddies[p] /\ g.event = Close(o.id)
      /\ h.call = "destroySession" /\ h.object = x /\ h.to = {master[o.id]} /\ h.event = Disjoin(o.id)
  BY DEF DestroyFrame
<1> HIDE DEF x, g, h
<1>5. PICK f : /\ f = (IF master[o.id] = p THEN g ELSE h)
               /\ frames' = [frames EXCEPT ![p] = Append(stack, f)] /\ nested \subseteq nested'
  BY DEF Disconnect, Destroy, isLocallyControlled, x, g, h
<1>6. /\ f.call = "destroySession" /\ f.object.id = o.id
      /\ master[o.id] = p => f.to = buddies[p] /\ f.event = Close(o.id)
      /\ master[o.id] # p => f.to = {master[o.id]} /\ f.event = Disjoin(o.id)
  BY <1>3, <1>4, <1>5
<1>7. Farewell(p, f) /\ (master[f.object.id] = p \/ f.to # {})
  BY <1>2, <1>6 DEF Farewell
<1>8. \A r : \A d : d.call = "disconnectSessions" => Farewell(r, d)
  BY DEF Farewell
<1>9. \A r \in Peers : frames'[r] = IF r = p THEN Append(stack, f) ELSE frames[r]
  BY <1>1, <1>5, FramesOf
<1>10. ToSet(Append(stack, f)) = ToSet(stack) \cup {f}
  <2>1. DOMAIN Append(stack, f) = DOMAIN stack \cup {Len(stack) + 1} /\ Append(stack, f)[Len(stack) + 1] = f
        /\ (\A i \in DOMAIN stack : Append(stack, f)[i] = stack[i])
    <3>1. Len(stack) \in Nat /\ DOMAIN stack = 1..Len(stack)
      BY LenProperties
    <3> QED BY <3>1
  <2> QED BY <2>1 DEF ToSet
<1>11. \A r \in Peers : \A d \in ToSet(frames[r]) :
           d.call \in {"removeBuddy", "destroySession"} => d \in ToSet(frames'[r])
  BY <1>9, <1>10
<1>12. \A r \in Peers : \A d \in ToSet(frames'[r]) \ ToSet(frames[r]) :
           Farewell(r, d) /\ (d.call = "destroySession" => master[d.object.id] = r \/ d.to # {})
  <2> SUFFICES ASSUME NEW r \in Peers, NEW d \in ToSet(frames'[r]) \ ToSet(frames[r])
               PROVE  Farewell(r, d) /\ (d.call = "destroySession" => master[d.object.id] = r \/ d.to # {})
    OBVIOUS
  <2>1. r = p /\ (d = f \/ d.call = "disconnectSessions")
    BY <1>9, <1>10
  <2> QED BY <1>7, <1>8, <2>1
<1> QED BY <1>5, <1>11, <1>12, GhostCalls

LEMMA DisconnectSessionGhost ==
  ASSUME GhostInv, NEW p \in Peers, NEW o \in ToSet(list[p]), DisconnectSession(p, o) PROVE GhostInv'
<1>1. IInv /\ IInv'
  BY DisconnectSessionIInv DEF GhostInv
<1>2. frames[p] \in Seq(Frames)
  BY <1>1, IInvParts DEF Types
<1>3. /\ UNCHANGED <<master, list, alive, collaborators, buddies, asked, chan>>
      /\ Disconnect(p, frames[p], o)
  BY DEF DisconnectSession
<1> QED BY <1>1, <1>2, <1>3, DisconnectGhost

LEMMA DisconnectSessionsGhost ==
  ASSUME GhostInv, NEW p \in Peers, DisconnectSessions(p) PROVE GhostInv'
<1>1. IInv /\ IInv'
  BY DisconnectSessionsIInv DEF GhostInv
<1> DEFINE last == Last(frames[p])
           i == last.index
           f == DisconnectFrame(i + 1)
           stack == Append(Front(frames[p]), f)
<1>2. /\ frames[p] \in Seq(Frames) /\ frames[p] # <<>>
      /\ last \in Frames /\ last.call = "disconnectSessions"
  BY <1>1, Running DEF DisconnectSessions
<1>3. /\ UNCHANGED <<master, list, alive, collaborators, buddies, asked, chan>>
      /\ \/ i \in DOMAIN list[p] /\ Disconnect(p, stack, list[p][i])
         \/ UNCHANGED <<frames, nested>>
  BY DEF DisconnectSessions
<1>4. f \in Frames /\ f.call = "disconnectSessions"
  <2>1. i \in Nat
    BY <1>2 DEF Frames, DestroyFrames
  <2> QED BY <2>1 DEF DisconnectFrame, Frames
<1> HIDE DEF f
<1>5. /\ ToSet(frames[p]) = ToSet(Front(frames[p])) \cup {last}
      /\ ToSet(stack) = ToSet(Front(frames[p])) \cup {f}
      /\ stack \in Seq(Frames)
  BY <1>2, <1>4, CallsPushed, OtherCalls
<1> HIDE DEF last, i, stack
<1>6. CASE i \in DOMAIN list[p] /\ Disconnect(p, stack, list[p][i])
  <2>1. list[p][i] \in ToSet(list[p])
    BY <1>6 DEF ToSet
  <2>2. \A d \in ToSet(frames[p]) : d.call \in {"removeBuddy", "destroySession"} => d \in ToSet(stack)
    BY <1>2, <1>5
  <2>3. \A d \in ToSet(stack) \ ToSet(frames[p]) : d.call = "disconnectSessions"
    BY <1>4, <1>5
  <2> QED BY <1>1, <1>3, <1>5, <1>6, <2>1, <2>2, <2>3, DisconnectGhost
<1>7. CASE UNCHANGED <<frames, nested>>
  BY <1>1, <1>3, <1>7, GhostCalls
<1> QED BY <1>3, <1>6, <1>7
----------------------------------------------------------------------------
(* What the two know of one another after a step about the session          *)

LEMMA FreeBefore ==
  ASSUME NEW p, NEW q, NEW s, GhostFree(p, q, s)
  PROVE  Free(chan[q][p], chan[p][q], Has(q, s), q \in collaborators[p][s], q \in buddies[p], s \in asked[q],
              Leaving(q, s) # {}, Silent(q, s), Walks(p, q, s), Walks(q, p, s), ~Known(p, s), s)
BY FreeIs DEF Has

LEMMA FreeAfter ==
  ASSUME NEW p, NEW q, NEW s, NEW up, NEW down, NEW S, NEW is \in BOOLEAN, NEW linked \in BOOLEAN,
         NEW waits \in BOOLEAN, NEW leaves \in BOOLEAN, NEW silent \in BOOLEAN, NEW hers \in BOOLEAN,
         NEW his \in BOOLEAN, NEW gone \in BOOLEAN, chan'[q][p] = up, chan'[p][q] = down,
         Free(up, down, S, is, linked, waits, leaves, silent, hers, his, gone, s),
         Has(q, s)' = S, q \in collaborators'[p][s] <=> is,
         q \in buddies'[p] <=> linked, s \in asked'[q] <=> waits, Leaving(q, s)' # {} <=> leaves,
         Silent(q, s)' <=> silent, Walks(p, q, s)' <=> hers, Walks(q, p, s)' <=> his, ~Known(p, s)' <=> gone
  PROVE  GhostFree(p, q, s)'
<1>1. (GhostFree(p, q, s) <=>
         Free(chan[q][p], chan[p][q], Has(q, s), q \in collaborators[p][s],
              q \in buddies[p], s \in asked[q], Leaving(q, s) # {}, Silent(q, s), Walks(p, q, s),
              Walks(q, p, s), ~Known(p, s), s))'
  BY FreeIs, PTL DEF Has
<1>2. GhostFree(p, q, s)' <=>
         Free(chan'[q][p], chan'[p][q], Has(q, s)', q \in collaborators'[p][s],
              q \in buddies'[p], s \in asked'[q], Leaving(q, s)' # {}, Silent(q, s)', Walks(p, q, s)',
              Walks(q, p, s)', ~Known(p, s)', s)
  BY <1>1
<1>3. /\ (q \in collaborators'[p][s]) = is /\ (q \in buddies'[p]) = linked /\ (s \in asked'[q]) = waits
      /\ (Leaving(q, s)' # {}) = leaves /\ (~Known(p, s)') = gone
  OBVIOUS
<1>4. Silent(q, s)' = silent /\ Walks(p, q, s)' = hers /\ Walks(q, p, s)' = his
  BY DEF Silent, Walks
<1> QED BY <1>2, <1>3, <1>4
----------------------------------------------------------------------------
(* A buddy is removed                                                       *)

(* A turn of the loop passes over the session at its index, no other.       *)
LEMMA WalkTurned ==
  ASSUME IInv, NEW p \in Peers, list' = list, Runs(p, "removeBuddy"),
         \A f \in ToSet(Front(frames[p])) : f \in ToSet(frames'[p]),
         Last(frames[p]).index # 0 =>
           RemoveFrame(Last(frames[p]).from, Last(frames[p]).index - 1) \in ToSet(frames'[p]),
         NEW q, NEW s, Walks(p, q, s)
  PROVE  \/ Walks(p, q, s)'
         \/ /\ q = Last(frames[p]).from /\ Last(frames[p]).index \in DOMAIN list[p]
            /\ list[p][Last(frames[p]).index].id = s
<1> DEFINE last == Last(frames[p])
           n == last.index
           g == RemoveFrame(last.from, n - 1)
<1>1. PICK f \in ToSet(frames[p]) : /\ f.call = "removeBuddy" /\ f.from = q
                                    /\ \E k \in DOMAIN list[p] : k <= f.index /\ list[p][k].id = s
  BY DEF Walks
<1>2. PICK k \in DOMAIN list[p] : k <= f.index /\ list[p][k].id = s
  BY <1>1
<1>3. /\ frames[p] \in Seq(Frames) /\ frames[p] # <<>> /\ last \in Frames /\ last.call = "removeBuddy"
      /\ list[p] \in Seq(Objects)
  BY Running, IInvParts DEF Types
<1>4. k \in Nat \ {0}
  BY <1>3, LenProperties
<1>5. n \in Nat
  BY <1>3 DEF Frames, DestroyFrames
<1>6. f \in ToSet(Front(frames[p])) \/ f = last
  BY <1>3, CallsPushed
<1>7. g.call = "removeBuddy" /\ g.from = last.from /\ g.index = n - 1
  BY DEF RemoveFrame
<1> HIDE DEF last, g
<1>8. CASE f \in ToSet(Front(frames[p]))
  BY <1>1, <1>2, <1>8 DEF Walks
<1>9. CASE f = last /\ k # n
  <2>1. k <= n - 1 /\ n # 0
    BY <1>2, <1>4, <1>5, <1>9
  <2>2. g \in ToSet(frames'[p])
    BY <2>1 DEF last, g
  <2>3. k <= g.index /\ g.call = "removeBuddy" /\ g.from = q
    BY <1>1, <1>7, <1>9, <2>1
  <2>4. k \in DOMAIN list'[p] /\ list'[p][k].id = s
    BY <1>2
  <2> QED BY <2>2, <2>3, <2>4 DEF Walks
<1>10. CASE f = last /\ k = n
  BY <1>1, <1>2, <1>10 DEF last
<1> QED BY <1>6, <1>8, <1>9, <1>10

LEMMA WalksElsewhere ==
  ASSUME NEW r, frames'[r] = frames[r], list'[r] = list[r]
  PROVE  /\ \A q, s : Walks(r, q, s)' <=> Walks(r, q, s)
         /\ \A s : Leaving(r, s)' = Leaving(r, s) /\ (Silent(r, s)' <=> Silent(r, s))
BY DEF Walks, Leaving, Silent

LEMMA RemoveBuddyReturnsGhost ==
  ASSUME GhostInv, NEW a \in Peers, RemoveBuddyReturns(a) PROVE GhostInv'
<1>1. IInv /\ IInv' /\ StartedInv
  BY RemoveBuddyReturnsIInv DEF GhostInv
<1> DEFINE last == Last(frames[a])
<1>2. /\ UNCHANGED <<master, list, alive, collaborators, buddies, asked, chan, nested>>
      /\ frames' = [frames EXCEPT ![a] = Front(frames[a])]
      /\ Runs(a, "removeBuddy") /\ last.index = 0
  BY DEF RemoveBuddyReturns
<1>3. /\ frames[a] \in Seq(Frames) /\ frames[a] # <<>> /\ last.call = "removeBuddy" /\ last \in Frames
      /\ list[a] \in Seq(Objects) /\ chan \in Chans
  BY <1>1, <1>2, Running, IInvParts DEF Types
<1>4. ToSet(frames[a]) = ToSet(Front(frames[a])) \cup {last}
  BY <1>3, CallsPushed
<1>5. \A r \in Peers : frames'[r] = IF r = a THEN Front(frames[a]) ELSE frames[r]
  BY <1>1, <1>2, FramesOf
<1>6. 0 \notin DOMAIN list[a]
  BY <1>3, LenProperties
<1> HIDE DEF last
<1>7. ASSUME NEW r \in Peers, NEW q, NEW s, Walks(r, q, s) PROVE Walks(r, q, s)'
  <2>1. CASE r = a
    <3>1. \A f \in ToSet(Front(frames[a])) : f \in ToSet(frames'[a])
      BY <1>5
    <3> QED BY <1>1, <1>2, <1>6, <1>7, <2>1, <3>1, WalkTurned DEF last
  <2>2. CASE r # a
    <3>1. frames'[r] = frames[r] /\ list'[r] = list[r]
      BY <1>2, <1>5, <2>2
    <3> QED BY <1>7, <3>1, WalksElsewhere
  <2> QED BY <2>1, <2>2
<1>8. \A r \in Peers : \A s : Leaving(r, s) \subseteq Leaving(r, s)' /\ Leaving(r, s)' \subseteq Leaving(r, s)
  BY <1>3, <1>4, <1>5 DEF Leaving
<1>9. LinesOK(chan', buddies') /\ Directed(chan')
  BY <1>1, <1>2, LinesInvIs, StartedInvIs DEF GhostInv
<1>10. StartedInv'
  <2>1. \A r \in Peers : \A f \in ToSet(frames'[r]) : f \in ToSet(frames[r]) \/ Farewell(r, f)
    BY <1>4, <1>5
  <2> QED BY <1>1, <1>2, <1>9, <2>1, StartedKept
<1>11. ASSUME NEW p \in Peers \ nested', NEW q \in Peers \ nested', NEW s \in Sessions, p # q, master'[s] = p
       PROVE  GhostFree(p, q, s)'
  <2>1. GhostFree(p, q, s)
    BY <1>2, <1>11 DEF GhostInv
  <2>2. Alike(chan[q][p], chan'[q][p], s) /\ Alike(chan[p][q], chan'[p][q], s)
    BY <1>2, <1>3, AlikeSelf
  <2>3. Has(q, s)' = Has(q, s) /\ (Known(p, s)' => Known(p, s))
    BY <1>2 DEF Has, Known
  <2>4. Walks(p, q, s) => Walks(p, q, s)'
    BY <1>7
  <2>5. Walks(q, p, s) => Walks(q, p, s)'
    BY <1>7
  <2>6. Leaving(q, s) \subseteq Leaving(q, s)' /\ Leaving(q, s)' \ Leaving(q, s) = {}
    BY <1>8
  <2> QED BY <1>2, <2>1, <2>2, <2>3, <2>4, <2>5, <2>6, GhostKept
<1> QED BY <1>1, <1>9, <1>10, <1>11, GhostInvAfter

LEMMA RemoveBuddyGhost ==
  ASSUME GhostInv, NEW a \in Peers, RemoveBuddy(a) PROVE GhostInv'
<1>1. IInv /\ IInv' /\ StartedInv /\ LinesInv
  BY RemoveBuddyIInv DEF GhostInv
<1> DEFINE last == Last(frames[a])
           b == last.from
           i == last.index
           o == list[a][i]
           f == RemoveFrame(b, i - 1)
           stack == Append(Front(frames[a]), f)
           d == DestroyFrame(a, b, o, {}, Lost, TRUE)
           mine == i \in DOMAIN list[a] /\ master[o.id] = a
           theirs == i \in DOMAIN list[a] /\ master[o.id] = b
<1>2. /\ UNCHANGED <<master, list, alive, buddies, chan, asked>>
      /\ Runs(a, "removeBuddy") /\ i > 0
      /\ \/ /\ mine
            /\ collaborators' = [collaborators EXCEPT ![a][o.id] = collaborators[a][o.id] \ {b}]
            /\ frames' = [frames EXCEPT ![a] = stack] /\ nested' = nested
         \/ /\ theirs
            /\ frames' = [frames EXCEPT ![a] = Append(stack, d)] /\ nested \subseteq nested'
            /\ UNCHANGED collaborators
         \/ /\ ~mine /\ ~theirs
            /\ frames' = [frames EXCEPT ![a] = stack] /\ nested' = nested
            /\ UNCHANGED collaborators
  BY DEF RemoveBuddy, Destroy
<1>3. /\ frames[a] \in Seq(Frames) /\ frames[a] # <<>> /\ last.call = "removeBuddy" /\ last \in Frames
      /\ list[a] \in Seq(Objects) /\ chan \in Chans /\ collaborators \in [Peers -> [Sessions -> SUBSET Peers]]
      /\ frames' \in [Peers -> Seq(Frames)]
  BY <1>1, <1>2, Running, IInvParts DEF Types, IInv, TypeOK
<1>4. f.call = "removeBuddy" /\ f.from = b /\ f \in Frames /\ i # 0
  <2>1. b \in Peers /\ i \in Nat
    BY <1>3 DEF Frames, DestroyFrames
  <2>0. i > 0
    BY <1>2
  <2> HIDE DEF b, i
  <2>2. i - 1 \in Nat /\ i # 0
    BY <2>0, <2>1
  <2> QED BY <2>1, <2>2 DEF RemoveFrame, Frames
<1>5. d.call = "destroySession" /\ d.object = o /\ d.to = {}
  BY DEF DestroyFrame
<1> HIDE DEF f, d
<1>6. /\ ToSet(frames[a]) = ToSet(Front(frames[a])) \cup {last}
      /\ ToSet(stack) = ToSet(Front(frames[a])) \cup {f} /\ stack \in Seq(Frames)
  BY <1>3, <1>4, CallsPushed, OtherCalls
<1>7. b # a /\ b \notin buddies[a] /\ b \in Peers /\ a \notin buddies[b]
  <2>1. last \in ToSet(frames[a])
    BY <1>6
  <2>2. Farewell(a, last)
    BY <1>1, <2>1 DEF StartedInv
  <2>3. b \in Peers
    BY <1>3 DEF Frames, DestroyFrames
  <2> QED BY <1>1, <1>3, <2>2, <2>3 DEF Farewell, LinesInv
<1>8. i \in DOMAIN list[a] => master[o.id] # None /\ o.id \in Sessions
  <2>1. ASSUME i \in DOMAIN list[a] PROVE o \in ToSet(list[a]) /\ o \in Objects
    BY <1>3, <2>1, ElementOfSeq, LenProperties DEF ToSet
  <2> QED BY <1>1, <2>1 DEF StartedInv, Objects
<1> HIDE DEF last, b, i, o, stack
(* the calls and collaborators after the turn *)
<1>9. /\ \A r \in Peers : r # a => frames'[r] = frames[r]
      /\ ToSet(Front(frames[a])) \cup {f} \subseteq ToSet(frames'[a])
      /\ \A x \in ToSet(frames'[a]) : x \in ToSet(frames[a]) \/ x = f \/ (theirs /\ x = d)
      /\ theirs /\ ~mine => d \in ToSet(frames'[a])
  <2>1. ASSUME NEW g, frames' = [frames EXCEPT ![a] = g]
        PROVE \A r \in Peers : frames'[r] = IF r = a THEN g ELSE frames[r]
    BY <1>1, <2>1, FramesOf
  <2>2. CASE frames' = [frames EXCEPT ![a] = stack] /\ ~(theirs /\ ~mine)
    <3>1. \A r \in Peers : frames'[r] = IF r = a THEN stack ELSE frames[r]
      BY <2>1, <2>2
    <3> QED BY <1>6, <2>2, <3>1
  <2>3. CASE theirs /\ frames' = [frames EXCEPT ![a] = Append(stack, d)]
    <3>1. \A r \in Peers : frames'[r] = IF r = a THEN Append(stack, d) ELSE frames[r]
      BY <2>1, <2>3
    <3>2. ToSet(Append(stack, d)) = ToSet(stack) \cup {d}
      <4>1. Len(stack) \in Nat /\ DOMAIN stack = 1..Len(stack)
        BY <1>6, LenProperties
      <4>2. /\ DOMAIN Append(stack, d) = DOMAIN stack \cup {Len(stack) + 1} /\ Append(stack, d)[Len(stack) + 1] = d
            /\ \A k \in DOMAIN stack : Append(stack, d)[k] = stack[k]
        BY <1>6, <4>1
      <4> QED BY <4>2 DEF ToSet
    <3> QED BY <1>6, <2>3, <3>1, <3>2
  <2>4. mine => ~theirs
    BY <1>7
  <2> QED BY <1>2, <2>2, <2>3, <2>4
<1>10. \A r, q \in Peers, s \in Sessions :
         q \in collaborators'[r][s] <=> q \in collaborators[r][s] /\ ~(mine /\ r = a /\ s = o.id /\ q = b)
  <2>1. CASE mine
    <3>1. collaborators' = [collaborators EXCEPT ![a][o.id] = collaborators[a][o.id] \ {b}] /\ o.id \in Sessions
      BY <1>2, <1>7, <1>8, <2>1
    <3> QED BY <1>3, <2>1, <3>1
  <2>2. CASE ~mine
    BY <1>2, <2>2
  <2> QED BY <2>1, <2>2
<1>11. nested \subseteq nested' /\ UNCHANGED <<master, list, alive, buddies, chan, asked>>
  BY <1>2
(* the walks go on, but for the session of this turn *)
<1>12. \A q, s : Walks(a, q, s) => Walks(a, q, s)' \/ (q = b /\ i \in DOMAIN list[a] /\ o.id = s)
  <2>1. \A x \in ToSet(Front(frames[a])) : x \in ToSet(frames'[a])
    BY <1>9
  <2>2. Last(frames[a]).index # 0 =>
           RemoveFrame(Last(frames[a]).from, Last(frames[a]).index - 1) \in ToSet(frames'[a])
    BY <1>9 DEF f, b, i, last
  <2>3. list' = list /\ Runs(a, "removeBuddy")
    BY <1>2
  <2> QED BY <1>1, <2>1, <2>2, <2>3, WalkTurned DEF b, i, o, last
<1>13. \A r \in Peers : r # a =>
         /\ \A q, s : Walks(r, q, s)' <=> Walks(r, q, s)
         /\ \A s : Leaving(r, s)' = Leaving(r, s) /\ (Silent(r, s)' <=> Silent(r, s))
  <2>1. \A r \in Peers : list'[r] = list[r]
    BY <1>11
  <2> QED BY <1>9, <2>1, WalksElsewhere
<1>14. \A s : Leaving(a, s) \subseteq Leaving(a, s)'
  BY <1>3, <1>6, <1>9 DEF Leaving, last
<1>15. \A s : \A x \in Leaving(a, s)' \ Leaving(a, s) : theirs /\ x = d
  BY <1>4, <1>9 DEF Leaving
<1>16. LinesOK(chan', buddies') /\ Directed(chan')
  BY <1>1, <1>11, LinesInvIs, StartedInvIs
<1>17. StartedInv'
  <2>1. Farewell(a, f)
    BY <1>4, <1>7 DEF Farewell
  <2>2. theirs => Farewell(a, d)
    BY <1>5, <1>7, <1>8 DEF Farewell
  <2>3. \A r \in Peers : \A x \in ToSet(frames'[r]) : x \in ToSet(frames[r]) \/ Farewell(r, x)
    BY <1>9, <2>1, <2>2
  <2> QED BY <1>1, <1>11, <1>16, <2>3, StartedKept
<1>18. ASSUME NEW p \in Peers \ nested', NEW q \in Peers \ nested', NEW s \in Sessions, p # q, master'[s] = p
       PROVE  GhostFree(p, q, s)'
  <2>1. GhostFree(p, q, s) /\ p \in Peers /\ q \in Peers /\ master[s] = p
    BY <1>11, <1>18 DEF GhostInv
  <2>2. Alike(chan[q][p], chan'[q][p], s) /\ Alike(chan[p][q], chan'[p][q], s)
    BY <1>3, <1>11, <2>1, AlikeSelf
  <2>3. Has(q, s)' = Has(q, s) /\ (Known(p, s)' <=> Known(p, s))
    BY <1>11 DEF Has, Known
  <2>4. CASE mine /\ p = a /\ s = o.id /\ q = b
    <3> DEFINE up == chan[q][p]
               down == chan[p][q]
               S == Has(q, s)
               is == q \in collaborators[p][s]
               linked == q \in buddies[p]
               waits == s \in asked[q]
               leaves == Leaving(q, s) # {}
               silent == Silent(q, s)
               hers == Walks(p, q, s)
               his == Walks(q, p, s)
               gone == ~Known(p, s)
               hers2 == Walks(p, q, s)'
               is2 == q \in collaborators'[p][s]
    <3>1. ~linked /\ ~is2
      BY <1>7, <1>10, <2>1, <2>4
    <3>2. Free(up, down, S, is, linked, waits, leaves, silent, hers, his, gone, s)
      BY <2>1, FreeBefore
    <3>3. /\ is \in BOOLEAN /\ waits \in BOOLEAN /\ leaves \in BOOLEAN /\ silent \in BOOLEAN
          /\ hers \in BOOLEAN /\ his \in BOOLEAN /\ gone \in BOOLEAN /\ hers2 \in BOOLEAN
          /\ linked \in BOOLEAN /\ is2 \in BOOLEAN
      BY DEF Silent, Walks, Known
    <3>4. /\ chan'[q][p] = up /\ chan'[p][q] = down /\ Has(q, s)' = S
          /\ q \in collaborators'[p][s] <=> is2
          /\ q \in buddies'[p] <=> linked
          /\ s \in asked'[q] <=> waits
          /\ Leaving(q, s)' # {} <=> leaves
          /\ Silent(q, s)' <=> silent
          /\ Walks(p, q, s)' <=> hers2
          /\ Walks(q, p, s)' <=> his
          /\ ~Known(p, s)' <=> gone
      BY <1>11, <1>13, <2>1, <2>3, <2>4, <1>7
    <3> HIDE DEF up, down, S, is, linked, waits, leaves, silent, hers, his, gone, hers2, is2
    <3>5. Free(up, down, S, is2, linked, waits, leaves, silent, hers2, his, gone, s)
      BY <3>1, <3>2, <3>3, <3>4, FreeNoticed
    <3> QED BY <3>3, <3>4, <3>5, FreeAfter
  <2>5. CASE ~(mine /\ p = a /\ s = o.id /\ q = b)
    <3>1. q \in collaborators'[p][s] <=> q \in collaborators[p][s]
      BY <1>10, <2>1, <2>5
    <3>2. Walks(p, q, s) => Walks(p, q, s)'
      <4>1. CASE p = a
        BY <1>12, <2>1, <2>5, <4>1
      <4>2. CASE p # a
        BY <1>13, <2>1, <4>2
      <4> QED BY <4>1, <4>2
    <3>3. Leaving(q, s) \subseteq Leaving(q, s)'
      BY <1>13, <1>14, <2>1
    <3>4. Walks(q, p, s) => Walks(q, p, s)' \/ Leaving(q, s)' # {}
      <4>1. CASE q = a /\ p = b /\ i \in DOMAIN list[a] /\ o.id = s
        <5>1. theirs /\ ~mine
          BY <1>7, <2>1, <4>1
        <5>2. d \in ToSet(frames'[a])
          BY <1>9, <5>1
        <5>3. d \in Leaving(q, s)'
          BY <1>5, <4>1, <5>2 DEF Leaving
        <5> QED BY <5>3
      <4>2. CASE q = a /\ ~(p = b /\ i \in DOMAIN list[a] /\ o.id = s)
        BY <1>12, <4>2
      <4>3. CASE q # a
        BY <1>13, <2>1, <4>3
      <4> QED BY <4>1, <4>2, <4>3
    <3>5. \A x \in Leaving(q, s)' \ Leaving(q, s) : x.to = {} => q \notin buddies[p] \/ ~Known(p, s)
      <4> SUFFICES ASSUME NEW x \in Leaving(q, s)' \ Leaving(q, s) PROVE q \notin buddies[p]
        OBVIOUS
      <4>1. q = a
        BY <1>13, <2>1
      <4>2. theirs /\ x = d /\ x.object.id = s
        BY <1>15, <4>1 DEF Leaving
      <4>3. p = b
        BY <1>5, <2>1, <4>2
      <4> QED BY <1>7, <4>1, <4>3
    <3> QED BY <1>11, <2>1, <2>2, <2>3, <3>1, <3>2, <3>3, <3>4, <3>5, GhostKept
  <2> QED BY <2>4, <2>5
<1> QED BY <1>1, <1>16, <1>17, <1>18, GhostInvAfter
----------------------------------------------------------------------------
(* Steps that leave all sessions and calls alone                            *)

LEMMA CallsSame ==
  ASSUME UNCHANGED <<list, alive, frames>>
  PROVE  \A p, q, s : /\ Walks(p, q, s)' <=> Walks(p, q, s)
                      /\ Leaving(q, s)' = Leaving(q, s)
                      /\ Silent(q, s)' <=> Silent(q, s)
                      /\ Known(p, s)' <=> Known(p, s)
                      /\ Has(q, s)' = Has(q, s)
BY DEF Walks, Leaving, Silent, Known, Has

(* A connection is cut.                                                     *)
LEMMA BreakGhost ==
  ASSUME GhostInv, NEW a \in Peers, NEW b \in Peers, Break(a, b) \/ Gone(a, b) PROVE GhostInv'
<1>1. IInv /\ IInv' /\ StartedInv /\ LinesInv
  BY BreakIInv DEF GhostInv
<1>2. chan \in Chans /\ buddies \in [Peers -> SUBSET Peers] /\ list' \in [Peers -> Seq(Objects)]
  BY <1>1, IInvParts DEF Types, IInv, TypeOK
<1>3. /\ UNCHANGED <<master, list, alive, collaborators, frames, asked, nested>>
      /\ b \in buddies[a]
  BY DEF Break, Gone
<1>c. chan' = Cut(chan, a, b)
  BY DEF Break, Gone
<1>d. buddies' = [buddies EXCEPT ![a] = @ \ {b}, ![b] = @ \ {a}]
  BY DEF Break, Gone
<1> DEFINE E(x, y) == {x, y} = {a, b}
<1>4. /\ LinesOK(Cut(chan, a, b), buddies') /\ a # b /\ a \in buddies[b]
      /\ \A x, y \in Peers : y \in buddies'[x] <=> y \in buddies[x] /\ ~E(x, y)
  <2>1. \A c : c = [buddies EXCEPT ![a] = @ \ {b}, ![b] = @ \ {a}] =>
          /\ LinesOK(Cut(chan, a, b), c) /\ a # b /\ a \in buddies[b]
          /\ \A x, y \in Peers : y \in c[x] <=> y \in buddies[x] /\ ~E(x, y)
    BY <1>1, <1>2, <1>3, LinesCut
  <2> HIDE DEF E
  <2> QED BY <1>d, <2>1
<1>5. \A x, y \in Peers : chan'[x][y] = IF E(x, y) THEN Append(chan[x][y], Lost) ELSE chan[x][y]
  <2>1. \A x, y \in Peers : Cut(chan, a, b)[x][y] = IF E(x, y) THEN Append(chan[x][y], Lost) ELSE chan[x][y]
    BY CutIs
  <2> HIDE DEF E
  <2> QED BY <1>c, <2>1
<1>e. \A x, y : E(x, y) <=> E(y, x)
  OBVIOUS
<1>f. \A x, y : E(x, y) => (x = a /\ y = b) \/ (x = b /\ y = a)
  OBVIOUS
<1>g. LinesOK(chan', buddies')
  BY <1>4, <1>c
<1> HIDE DEF E
<1>6. StartedInv'
  <2>1. Directed(chan')
    BY <1>1, <1>2, <1>c, StartedInvIs, DirectedCut
  <2>2. \A r \in Peers : buddies'[r] \subseteq buddies[r]
    <3>1. \A r \in Peers : buddies'[r] \subseteq Peers
      BY <1>1 DEF IInv, TypeOK
    <3> QED BY <1>4, <3>1
  <2>3. \A r \in Peers : \A f \in ToSet(frames'[r]) : f \in ToSet(frames[r]) \/ Farewell(r, f)
    BY <1>3
  <2> QED BY <1>1, <1>3, <2>1, <2>2, <2>3, StartedKept
<1>7. ASSUME NEW p \in Peers \ nested', NEW q \in Peers \ nested', NEW s \in Sessions, p # q, master'[s] = p
      PROVE  GhostFree(p, q, s)'
  <2>1. GhostFree(p, q, s)
    BY <1>3, <1>7 DEF GhostInv
  <2>2. CASE E(p, q)
    <3> DEFINE up == chan[q][p]
               down == chan[p][q]
               up2 == chan'[q][p]
               down2 == chan'[p][q]
               S == Has(q, s)
               is == q \in collaborators[p][s]
               linked == q \in buddies[p]
               linked2 == q \in buddies'[p]
               waits == s \in asked[q]
               leaves == Leaving(q, s) # {}
               silent == Silent(q, s)
               hers == Walks(p, q, s)
               his == Walks(q, p, s)
               gone == ~Known(p, s)
    <3>1. ~linked2
      BY <1>4, <2>2
    <3>2. Free(up, down, S, is, linked, waits, leaves, silent, hers, his, gone, s)
      BY <2>1, FreeBefore
    <3>3. /\ is \in BOOLEAN /\ waits \in BOOLEAN /\ leaves \in BOOLEAN /\ silent \in BOOLEAN
          /\ hers \in BOOLEAN /\ his \in BOOLEAN /\ gone \in BOOLEAN
          /\ linked \in BOOLEAN /\ linked2 \in BOOLEAN
      BY DEF Silent, Walks, Known
    <3>4. /\ up \in Seq(Packets) /\ down \in Seq(Packets)
          /\ Sent(up, Lost, up2) /\ Sent(down, Lost, down2)
      <4>1. E(q, p) /\ p \in Peers /\ q \in Peers
        BY <1>e, <2>2
      <4>2. chan'[q][p] = Append(chan[q][p], Lost) /\ chan'[p][q] = Append(chan[p][q], Lost)
        BY <1>5, <2>2, <4>1
      <4> QED BY <1>2, <4>1, <4>2 DEF Chans, Sent
    <3>5. /\ chan'[q][p] = up2 /\ chan'[p][q] = down2 /\ Has(q, s)' = S
          /\ q \in collaborators'[p][s] <=> is
          /\ q \in buddies'[p] <=> linked2
          /\ s \in asked'[q] <=> waits
          /\ Leaving(q, s)' # {} <=> leaves
          /\ Silent(q, s)' <=> silent
          /\ Walks(p, q, s)' <=> hers
          /\ Walks(q, p, s)' <=> his
          /\ ~Known(p, s)' <=> gone
      BY <1>3, CallsSame
    <3> HIDE DEF up, down, up2, down2, S, is, linked, linked2, waits, leaves, silent, hers, his, gone
    <3>7. Free(up2, down2, S, is, linked2, waits, leaves, silent, hers, his, gone, s)
      BY <3>1, <3>2, <3>3, <3>4, FreeCut
    <3> QED BY <3>3, <3>5, <3>7, FreeAfter
  <2>3. CASE ~E(p, q)
    <3>1. chan'[q][p] = chan[q][p] /\ chan'[p][q] = chan[p][q] /\ (q \in buddies'[p] <=> q \in buddies[p])
      BY <1>4, <1>5, <1>e, <2>3
    <3>2. Alike(chan[q][p], chan'[q][p], s) /\ Alike(chan[p][q], chan'[p][q], s)
      BY <1>2, <3>1, AlikeSelf
    <3> QED BY <1>1, <1>2, <1>3, <2>1, <3>1, <3>2, GhostStill
  <2> QED BY <2>2, <2>3
<1> QED BY <1>1, <1>g, <1>6, <1>7, GhostInvAfter
(* A user asks to join.                                                     *)
LEMMA AskToJoinGhost ==
  ASSUME GhostInv, ~Impatient, NEW x \in Peers, NEW t \in Sessions, AskToJoin(x, t) PROVE GhostInv'
<1> DEFINE m == JoinRequest(t)
           y == master[t]
<1>1. IInv /\ IInv' /\ StartedInv /\ LinesInv
  BY AskToJoinIInv DEF GhostInv
<1>2. /\ chan \in Chans /\ buddies \in [Peers -> SUBSET Peers] /\ list' \in [Peers -> Seq(Objects)]
      /\ asked \in [Peers -> SUBSET Sessions]
  BY <1>1, IInvParts DEF Types, IInv, TypeOK
<1>3. /\ UNCHANGED <<master, list, alive, collaborators, frames, buddies, nested>>
      /\ chan' = SendAll(chan, x, {y}, m) /\ asked' = [asked EXCEPT ![x] = @ \cup {t}]
      /\ y \in buddies[x] /\ ~Known(x, t) /\ t \notin asked[x]
  BY DEF AskToJoin
<1>4. /\ m \in Packets /\ m.type = "join" /\ m.id = t /\ m # Lost
      /\ y \in Peers /\ y # x
  BY <1>1, <1>2, <1>3, AboutPackets, AboutDistinct DEF About, LinesInv, JoinRequest
<1>5. \A r \in Peers : \A s : s \in asked'[r] <=> s \in asked[r] \/ (r = x /\ s = t)
  BY <1>2, <1>3
<1> HIDE DEF m, y
<1>6. \A r, u \in Peers : chan'[r][u] = IF r = x /\ u \in {y} THEN Append(chan[r][u], m) ELSE chan[r][u]
  BY <1>2, <1>3, <1>4, SentIs
<1>7. LinesOK(chan', buddies')
  <2>1. LinesOK(SendAll(chan, x, {y}, m), buddies)
    BY <1>1, <1>2, <1>3, <1>4, LinesInvIs, LinesSent
  <2> QED BY <1>3, <2>1
<1>8. StartedInv'
  <2>1. \A q \in Peers \cap {y} : Addressed(m, x, q)
    BY <1>4 DEF Addressed, y
  <2>2. Directed(chan')
    BY <1>1, <1>2, <1>3, <1>4, <2>1, StartedInvIs, DirectedSent
  <2> QED BY <1>1, <1>3, <2>2, StartedKept
<1>9. ASSUME NEW p \in Peers \ nested', NEW q \in Peers \ nested', NEW s \in Sessions, p # q, master'[s] = p
      PROVE  GhostFree(p, q, s)'
  <2>1. GhostFree(p, q, s) /\ p \in Peers /\ q \in Peers /\ master[s] = p /\ q \in Peers \ nested
    BY <1>3, <1>9 DEF GhostInv
  <2>2. CASE q = x /\ s = t
    <3>1. p = y
      BY <2>1, <2>2 DEF y
    <3> DEFINE up == chan[q][p]
               down == chan[p][q]
               up2 == chan'[q][p]
               down2 == chan'[p][q]
               S == Has(q, s)
               is == q \in collaborators[p][s]
               linked == q \in buddies[p]
               waits == s \in asked[q]
               leaves == Leaving(q, s) # {}
               silent == Silent(q, s)
               hers == Walks(p, q, s)
               his == Walks(q, p, s)
               gone == ~Known(p, s)
               waits2 == s \in asked'[q]
    <3>a. Free(up, down, S, is, linked, waits, leaves, silent, hers, his, gone, s)
      BY <2>1, FreeBefore
    <3>b. /\ is \in BOOLEAN /\ linked \in BOOLEAN /\ waits \in BOOLEAN /\ leaves \in BOOLEAN
          /\ silent \in BOOLEAN /\ hers \in BOOLEAN /\ his \in BOOLEAN /\ gone \in BOOLEAN
          /\ waits2 \in BOOLEAN
      BY DEF Silent, Walks, Known
    <3>2. up \in Seq(Packets) /\ Sent(up, JoinRequest(s), up2) /\ down2 = down
      <4>1. chan'[q][p] = Append(chan[q][p], m) /\ chan'[p][q] = chan[p][q]
        BY <1>6, <1>9, <2>1, <2>2, <3>1
      <4>2. chan[q][p] \in Seq(Packets)
        BY <1>2, <2>1 DEF Chans
      <4> QED BY <2>2, <4>1, <4>2 DEF Sent, m
    <3>3. Void(S)
      <4>1. ToSet(list[q]) = alive[q]
        BY <1>1, <2>1, IInvParts DEF Places, ListInv
      <4> QED BY <1>3, <2>2, <4>1 DEF Void, Has, Known, ToSet
    <3>4. Sure(linked) /\ ~waits /\ Sure(waits2)
      <4>1. linked /\ ~waits /\ waits2
        BY <1>1, <1>3, <1>5, <2>1, <2>2, <3>1 DEF LinesInv
      <4> QED BY <4>1 DEF Sure
    <3>c. /\ chan'[q][p] = up2 /\ chan'[p][q] = down2 /\ Has(q, s)' = S
          /\ q \in collaborators'[p][s] <=> is
          /\ q \in buddies'[p] <=> linked
          /\ s \in asked'[q] <=> waits2
          /\ Leaving(q, s)' # {} <=> leaves
          /\ Silent(q, s)' <=> silent
          /\ Walks(p, q, s)' <=> hers
          /\ Walks(q, p, s)' <=> his
          /\ ~Known(p, s)' <=> gone
      BY <1>3, CallsSame
    <3> HIDE DEF up, down, up2, down2, S, is, linked, waits, leaves, silent, hers, his, gone, waits2
    <3>d. Free(up2, down2, S, is, linked, waits2, leaves, silent, hers, his, gone, s)
      BY <3>a, <3>b, <3>2, <3>3, <3>4, FreeAsk
    <3> QED BY <3>b, <3>c, <3>d, FreeAfter
  <2>3. CASE ~(q = x /\ s = t)
    <3>1. ASSUME s # t PROVE m \notin About(s)
      BY <1>4, <3>1, NotAbout
    <3>2. p = x => s # t
      BY <1>4, <2>1 DEF y
    <3>3. Alike(chan[q][p], chan'[q][p], s) /\ Alike(chan[p][q], chan'[p][q], s)
      BY <1>2, <1>3, <1>4, <2>1, <2>3, <3>1, <3>2, AlikeAllSent
    <3>4. s \in asked[q] => s \in asked'[q]
      BY <1>5, <2>1
    <3> QED BY <1>1, <1>2, <1>3, <2>1, <3>3, <3>4, GhostStill
  <2> QED BY <2>2, <2>3
<1> QED BY <1>1, <1>7, <1>8, <1>9, GhostInvAfter

(* She answers a request, or does not.                                      *)
LEMMA HandleJoinRequestGhost ==
  ASSUME GhostInv, NEW a \in Peers, NEW b \in Peers, HandleJoinRequest(a, b) PROVE GhostInv'
<1> DEFINE c == Received(a, b)
           h == Head(chan[b][a])
           t == h.id
           m == JoinResponse(t)
<1>1. IInv /\ IInv' /\ StartedInv /\ LinesInv
  BY HandleJoinRequestIInv DEF GhostInv
<1>2. /\ chan \in Chans /\ buddies \in [Peers -> SUBSET Peers] /\ list' \in [Peers -> Seq(Objects)]
      /\ collaborators \in [Peers -> [Sessions -> SUBSET Peers]]
  BY <1>1, IInvParts DEF Types, IInv, TypeOK
<1>3. /\ c \in Chans /\ h \in Packets /\ h.type = "join" /\ chan[b][a] # <<>> /\ master[t] = a /\ t \in Sessions
  BY <1>1, HeadHandled DEF HandleJoinRequest, HeadIs
<1>4. /\ UNCHANGED <<master, list, alive, frames, buddies, asked, nested>>
      /\ IF Known(a, t) THEN chan' = SendAll(c, a, {b} \cap buddies[a], m)
                             /\ collaborators' = [collaborators EXCEPT ![a][t] = @ \cup {b}]
                        ELSE chan' = c /\ collaborators' = collaborators
  BY DEF HandleJoinRequest
<1>5. h = JoinRequest(t) /\ m \in Packets /\ m.type = "joined" /\ m.id = t /\ m # Lost /\ h # Lost
  BY <1>3, AboutIs, AboutPackets, AboutDistinct DEF About, JoinResponse
<1>6. \A u, v \in Peers : c[u][v] = IF u = b /\ v = a THEN Tail(chan[b][a]) ELSE chan[u][v]
  BY <1>2, ReceivedIs
<1>7. /\ LinesOK(c, buddies) /\ a # b
      /\ a \notin buddies[b] => At(chan[b][a], Lost) # {}
  BY <1>1, <1>2, <1>3, LinesReceived
<1>8. Directed(c)
  BY <1>1, <1>2, <1>3, StartedInvIs, DirectedReceived
<1>9. \A u, v \in Peers : \A s : u # b \/ v # a \/ h \notin About(s) => Alike(chan[u][v], c[u][v], s)
  BY <1>2, <1>3, AlikeOneReceived
<1>11. \A s : s # t => h \notin About(s) /\ m \notin About(s)
  BY <1>3, <1>5, NotAbout
<1> HIDE DEF c, h, t, m
<1>12. chan' \in Chans /\ LinesOK(chan', buddies') /\ Directed(chan')
  <2>1. CASE Known(a, t)
    <3>1. LinesOK(SendAll(c, a, {b} \cap buddies[a], m), buddies)
      BY <1>2, <1>3, <1>5, <1>7, LinesSent
    <3>2. \A r \in Peers \cap ({b} \cap buddies[a]) : Addressed(m, a, r)
      BY <1>3, <1>5 DEF Addressed
    <3>3. Directed(SendAll(c, a, {b} \cap buddies[a], m)) /\ SendAll(c, a, {b} \cap buddies[a], m) \in Chans
      BY <1>3, <1>5, <1>8, <3>2, DirectedSent, SentAll
    <3> QED BY <1>4, <2>1, <3>1, <3>3
  <2>2. CASE ~Known(a, t)
    BY <1>3, <1>4, <1>7, <1>8, <2>2
  <2> QED BY <2>1, <2>2
<1>13. /\ chan'[b][a] = Tail(chan[b][a])
       /\ Known(a, t) => chan'[a][b] = IF b \in buddies[a] THEN Append(chan[a][b], m) ELSE chan[a][b]
       /\ ~Known(a, t) => chan'[a][b] = chan[a][b]
  <2>1. CASE Known(a, t)
    <3>1. \A u, v \in Peers : SendAll(c, a, {b} \cap buddies[a], m)[u][v] =
                                IF u = a /\ v \in {b} \cap buddies[a] THEN Append(c[u][v], m) ELSE c[u][v]
      BY <1>3, <1>5, SentIs
    <3>2. \A u, v \in Peers : chan'[u][v] = IF u = a /\ v = b /\ b \in buddies[a] THEN Append(c[u][v], m) ELSE c[u][v]
      BY <1>4, <2>1, <3>1
    <3> QED BY <1>6, <1>7, <2>1, <3>2
  <2>2. CASE ~Known(a, t)
    BY <1>4, <1>6, <1>7, <2>2
  <2> QED BY <2>1, <2>2
<1>14. \A u, v \in Peers : \A s : (u # b \/ v # a \/ s # t) /\ (u # a \/ v # b \/ s # t)
            => Alike(chan[u][v], chan'[u][v], s)
  <2> SUFFICES ASSUME NEW u \in Peers, NEW v \in Peers, NEW s, u # b \/ v # a \/ s # t, u # a \/ v # b \/ s # t
               PROVE  Alike(chan[u][v], chan'[u][v], s)
    OBVIOUS
  <2>1. Alike(chan[u][v], c[u][v], s)
    BY <1>9, <1>11
  <2>2. CASE Known(a, t)
    <3>1. u # a \/ v \notin {b} \cap buddies[a] \/ m \notin About(s)
      BY <1>11
    <3>2. Alike(c[u][v], SendAll(c, a, {b} \cap buddies[a], m)[u][v], s)
      BY <1>3, <1>5, <3>1, AlikeAllSent
    <3>3. Alike(c[u][v], chan'[u][v], s)
      BY <1>4, <2>2, <3>2
    <3> QED BY <2>1, <3>3, AlikeBoth
  <2>3. CASE ~Known(a, t)
    BY <1>4, <2>1, <2>3
  <2> QED BY <2>2, <2>3
<1>15. \A p, q \in Peers, s \in Sessions :
         q \in collaborators'[p][s] <=> q \in collaborators[p][s] \/ (Known(a, t) /\ p = a /\ s = t /\ q = b)
  <2>1. CASE Known(a, t)
    BY <1>2, <1>3, <1>4, <2>1
  <2>2. CASE ~Known(a, t)
    BY <1>4, <2>2
  <2> QED BY <2>1, <2>2
<1>16. StartedInv'
  BY <1>1, <1>4, <1>12, StartedKept
<1>17. ASSUME NEW p \in Peers \ nested', NEW q \in Peers \ nested', NEW s \in Sessions, p # q, master'[s] = p
       PROVE  GhostFree(p, q, s)'
  <2>1. GhostFree(p, q, s) /\ p \in Peers /\ q \in Peers /\ master[s] = p
    BY <1>4, <1>17 DEF GhostInv
  <2>2. CASE p = a /\ q = b /\ s = t /\ Known(a, t)
    <3> DEFINE up == chan[q][p]
               down == chan[p][q]
               up2 == chan'[q][p]
               down2 == chan'[p][q]
               S == Has(q, s)
               is == q \in collaborators[p][s]
               linked == q \in buddies[p]
               waits == s \in asked[q]
               leaves == Leaving(q, s) # {}
               silent == Silent(q, s)
               hers == Walks(p, q, s)
               his == Walks(q, p, s)
               gone == ~Known(p, s)
               is2 == q \in collaborators'[p][s]
    <3>a. Free(up, down, S, is, linked, waits, leaves, silent, hers, his, gone, s)
      BY <2>1, FreeBefore
    <3>b. /\ is \in BOOLEAN /\ linked \in BOOLEAN /\ waits \in BOOLEAN /\ leaves \in BOOLEAN
          /\ silent \in BOOLEAN /\ hers \in BOOLEAN /\ his \in BOOLEAN /\ gone \in BOOLEAN
          /\ is2 \in BOOLEAN
      BY DEF Silent, Walks, Known
    <3>1. up \in Seq(Packets) /\ down \in Seq(Packets)
      BY <1>2, <2>1 DEF Chans
    <3>2. Taken(up, JoinRequest(s), up2)
      BY <1>3, <1>5, <1>13, <2>2 DEF Taken, h
    <3>3. Told(linked, down, JoinResponse(s), down2)
      BY <1>13, <2>2 DEF Told, m
    <3>4. Heard(linked, up)
      BY <1>1, <1>7, <2>2 DEF LinesInv, Heard
    <3>5. Sure(is2)
      <4>1. is2
        BY <1>15, <2>1, <2>2
      <4> QED BY <4>1 DEF Sure
    <3>c. /\ chan'[q][p] = up2 /\ chan'[p][q] = down2 /\ Has(q, s)' = S
          /\ q \in collaborators'[p][s] <=> is2
          /\ q \in buddies'[p] <=> linked
          /\ s \in asked'[q] <=> waits
          /\ Leaving(q, s)' # {} <=> leaves
          /\ Silent(q, s)' <=> silent
          /\ Walks(p, q, s)' <=> hers
          /\ Walks(q, p, s)' <=> his
          /\ ~Known(p, s)' <=> gone
      BY <1>4, CallsSame
    <3> HIDE DEF up, down, up2, down2, S, is, linked, waits, leaves, silent, hers, his, gone, is2
    <3>d. Free(up2, down2, S, is2, linked, waits, leaves, silent, hers, his, gone, s)
      BY <3>a, <3>b, <3>1, <3>2, <3>3, <3>4, <3>5, FreeJoin
    <3> QED BY <3>b, <3>c, <3>d, FreeAfter
  <2>3. CASE p = a /\ q = b /\ s = t /\ ~Known(a, t)
    <3> DEFINE up == chan[q][p]
               down == chan[p][q]
               up2 == chan'[q][p]
               down2 == chan'[p][q]
               S == Has(q, s)
               is == q \in collaborators[p][s]
               linked == q \in buddies[p]
               waits == s \in asked[q]
               leaves == Leaving(q, s) # {}
               silent == Silent(q, s)
               hers == Walks(p, q, s)
               his == Walks(q, p, s)
               gone == ~Known(p, s)
    <3>a. Free(up, down, S, is, linked, waits, leaves, silent, hers, his, gone, s)
      BY <2>1, FreeBefore
    <3>b. /\ is \in BOOLEAN /\ linked \in BOOLEAN /\ waits \in BOOLEAN /\ leaves \in BOOLEAN
          /\ silent \in BOOLEAN /\ hers \in BOOLEAN /\ his \in BOOLEAN /\ gone \in BOOLEAN
      BY DEF Silent, Walks, Known
    <3>1. up \in Seq(Packets) /\ down \in Seq(Packets)
      BY <1>2, <2>1 DEF Chans
    <3>2. Taken(up, JoinRequest(s), up2) /\ down2 = down
      BY <1>3, <1>5, <1>13, <2>3 DEF Taken, h
    <3>3. collaborators' = collaborators
      BY <1>4, <2>3
    <3>c. /\ chan'[q][p] = up2 /\ chan'[p][q] = down2 /\ Has(q, s)' = S
          /\ q \in collaborators'[p][s] <=> is
          /\ q \in buddies'[p] <=> linked
          /\ s \in asked'[q] <=> waits
          /\ Leaving(q, s)' # {} <=> leaves
          /\ Silent(q, s)' <=> silent
          /\ Walks(p, q, s)' <=> hers
          /\ Walks(q, p, s)' <=> his
          /\ ~Known(p, s)' <=> gone
      BY <1>4, <3>3, CallsSame
    <3> HIDE DEF up, down, up2, down2, S, is, linked, waits, leaves, silent, hers, his, gone
    <3>d. Free(up2, down, S, is, linked, waits, leaves, silent, hers, his, gone, s)
      BY <3>a, <3>b, <3>1, <3>2, FreeJoinNothing
    <3>e. Free(up2, down2, S, is, linked, waits, leaves, silent, hers, his, gone, s)
      BY <3>d, <3>2
    <3> QED BY <3>b, <3>c, <3>e, FreeAfter
  <2>4. CASE ~(p = a /\ q = b /\ s = t)
    <3>1. p = b => s # t
      BY <1>3, <1>7, <2>1
    <3>2. Alike(chan[q][p], chan'[q][p], s) /\ Alike(chan[p][q], chan'[p][q], s)
      BY <1>14, <2>1, <2>4, <3>1
    <3>3. q \in collaborators'[p][s] <=> q \in collaborators[p][s]
      BY <1>15, <2>1, <2>4
    <3> QED BY <1>1, <1>2, <1>4, <2>1, <3>2, <3>3, GhostStill
  <2> QED BY <2>2, <2>3, <2>4
<1> QED BY <1>1, <1>12, <1>16, <1>17, GhostInvAfter

(* Any packet that is handled.                                              *)
Handled(a, b, type) ==
  /\ chan \in Chans /\ Received(a, b) \in Chans /\ chan[b][a] \in Seq(Packets) /\ chan[b][a] # <<>>
  /\ Head(chan[b][a]) \in Packets /\ Head(chan[b][a]).type = type /\ Addressed(Head(chan[b][a]), b, a)
  /\ type # "lost" => Head(chan[b][a]).id \in Sessions /\ Head(chan[b][a]) # Lost
  /\ LinesOK(Received(a, b), buddies) /\ Directed(Received(a, b)) /\ a # b
  /\ Head(chan[b][a]) = Lost => a \notin buddies[b] /\ b \notin buddies[a] /\ Tail(chan[b][a]) = <<>>
  /\ a \notin buddies[b] => At(chan[b][a], Lost) # {}
  /\ \A u, v \in Peers : Received(a, b)[u][v] = IF u = b /\ v = a THEN Tail(chan[b][a]) ELSE chan[u][v]
  /\ \A u, v \in Peers : \A s :
       u # b \/ v # a \/ Head(chan[b][a]) \notin About(s) => Alike(chan[u][v], Received(a, b)[u][v], s)

LEMMA HeadGhost ==
  ASSUME GhostInv, NEW a \in Peers, NEW b \in Peers, NEW type, HeadIs(a, b, type)
  PROVE  Handled(a, b, type)
<1> DEFINE c == Received(a, b)
           h == Head(chan[b][a])
<1>1. IInv /\ StartedInv /\ LinesInv /\ Directed(chan)
  BY StartedInvIs DEF GhostInv
<1>2. chan \in Chans
  BY <1>1, IInvParts DEF Types
<1>3. c \in Chans /\ h \in Packets /\ h.type = type /\ chan[b][a] # <<>>
  BY <1>1, HeadHandled DEF HeadIs
<1>4. type # "lost" => h.id \in Sessions /\ h # Lost
  BY <1>3 DEF Packets, Lost
<1>5. chan[b][a] \in Seq(Packets)
  BY <1>2 DEF Chans
<1>6. Directed(c) /\ Addressed(h, b, a)
  BY <1>1, <1>2, <1>3, DirectedReceived
<1>7. /\ LinesOK(c, buddies) /\ a # b
      /\ h = Lost => a \notin buddies[b] /\ b \notin buddies[a] /\ Tail(chan[b][a]) = <<>>
      /\ a \notin buddies[b] => At(chan[b][a], Lost) # {}
  BY <1>1, <1>2, <1>3, LinesReceived
<1>8. \A u, v \in Peers : c[u][v] = IF u = b /\ v = a THEN Tail(chan[b][a]) ELSE chan[u][v]
  BY <1>2, ReceivedIs
<1>9. \A u, v \in Peers : \A s : u # b \/ v # a \/ h \notin About(s) => Alike(chan[u][v], c[u][v], s)
  BY <1>2, <1>3, AlikeOneReceived
<1> QED BY <1>2, <1>3, <1>4, <1>5, <1>6, <1>7, <1>8, <1>9 DEF Handled

(* A session a peer has is in its list.                                     *)
LEMMA HasKnown ==
  ASSUME IInv, NEW q \in Peers \ nested, NEW s PROVE Has(q, s) # {} <=> Known(q, s)
<1>1. ToSet(list[q]) = alive[q]
  BY IInvParts DEF Places, ListInv
<1> QED BY <1>1 DEF Has, Known, ToSet

LEMMA CountedKnown ==
  ASSUME IInv, NEW p \in Peers \ nested, NEW s \in Sessions, collaborators[p][s] # {} PROVE Known(p, s)
BY IInvParts DEF CollaboratorsKnown

(* She hears that he has left.                                              *)
LEMMA HandleDisjoinGhost ==
  ASSUME GhostInv, NEW a \in Peers, NEW b \in Peers, HandleDisjoin(a, b) PROVE GhostInv'
<1> DEFINE c == Received(a, b)
           h == Head(chan[b][a])
           t == h.id
<1>1. IInv /\ IInv' /\ StartedInv /\ LinesInv
  BY HandleDisjoinIInv DEF GhostInv
<1>2. /\ list' \in [Peers -> Seq(Objects)] /\ collaborators \in [Peers -> [Sessions -> SUBSET Peers]]
  BY <1>1, IInvParts DEF Types, IInv, TypeOK
<1>3. /\ UNCHANGED <<master, list, alive, frames, buddies, asked, nested>>
      /\ collaborators' = IF Known(a, t) THEN [collaborators EXCEPT ![a][t] = @ \ {b}] ELSE collaborators
      /\ chan' = c
      /\ HeadIs(a, b, "disjoin")
  BY DEF HandleDisjoin
<1>4. /\ chan[b][a] \in Seq(Packets) /\ chan[b][a] # <<>> /\ chan \in Chans
      /\ h \in Packets /\ h.type = "disjoin" /\ Addressed(h, b, a) /\ t \in Sessions /\ h # Lost
      /\ LinesOK(c, buddies) /\ Directed(c) /\ a # b
      /\ \A u, v \in Peers : c[u][v] = IF u = b /\ v = a THEN Tail(chan[b][a]) ELSE chan[u][v]
      /\ \A u, v \in Peers : \A s : u # b \/ v # a \/ h \notin About(s) => Alike(chan[u][v], c[u][v], s)
  <2>1. Handled(a, b, "disjoin")
    BY <1>3, HeadGhost
  <2> QED BY <2>1 DEF Handled
<1>5. h = Disjoin(t) /\ master[t] = a /\ \A s : s # t => h \notin About(s)
  BY <1>4, AboutIs, NotAbout DEF Addressed
<1> HIDE DEF c, h, t
<1>6. LinesOK(chan', buddies')
  BY <1>3, <1>4
<1>7. StartedInv'
  BY <1>1, <1>3, <1>4, StartedKept
<1>8. \A p, q \in Peers, s \in Sessions :
         q \in collaborators'[p][s] <=> q \in collaborators[p][s] /\ ~(Known(a, t) /\ p = a /\ s = t /\ q = b)
  <2>1. CASE Known(a, t)
    BY <1>2, <1>3, <1>4, <2>1
  <2>2. CASE ~Known(a, t)
    BY <1>3, <2>2
  <2> QED BY <2>1, <2>2
<1>9. ASSUME NEW p \in Peers \ nested', NEW q \in Peers \ nested', NEW s \in Sessions, p # q, master'[s] = p
      PROVE  GhostFree(p, q, s)'
  <2>1. GhostFree(p, q, s) /\ p \in Peers /\ q \in Peers /\ master[s] = p /\ p \in Peers \ nested
    BY <1>3, <1>9 DEF GhostInv
  <2>2. CASE p = a /\ q = b /\ s = t
    <3> DEFINE up == chan[q][p]
               down == chan[p][q]
               up2 == chan'[q][p]
               down2 == chan'[p][q]
               S == Has(q, s)
               is == q \in collaborators[p][s]
               linked == q \in buddies[p]
               waits == s \in asked[q]
               leaves == Leaving(q, s) # {}
               silent == Silent(q, s)
               hers == Walks(p, q, s)
               his == Walks(q, p, s)
               gone == ~Known(p, s)
               is2 == q \in collaborators'[p][s]
    <3>a. Free(up, down, S, is, linked, waits, leaves, silent, hers, his, gone, s)
      BY <2>1, FreeBefore
    <3>b. /\ is \in BOOLEAN /\ linked \in BOOLEAN /\ waits \in BOOLEAN /\ leaves \in BOOLEAN
          /\ silent \in BOOLEAN /\ hers \in BOOLEAN /\ his \in BOOLEAN /\ gone \in BOOLEAN
          /\ is2 \in BOOLEAN
      BY DEF Silent, Walks, Known
    <3>1. up \in Seq(Packets) /\ Taken(up, Disjoin(s), up2) /\ down2 = down
      BY <1>3, <1>4, <1>5, <2>2 DEF Taken, h
    <3>2. ~is2
      BY <1>1, <1>8, <2>1, <2>2, CountedKnown
    <3>c. /\ chan'[q][p] = up2 /\ chan'[p][q] = down2 /\ Has(q, s)' = S
          /\ q \in collaborators'[p][s] <=> is2
          /\ q \in buddies'[p] <=> linked
          /\ s \in asked'[q] <=> waits
          /\ Leaving(q, s)' # {} <=> leaves
          /\ Silent(q, s)' <=> silent
          /\ Walks(p, q, s)' <=> hers
          /\ Walks(q, p, s)' <=> his
          /\ ~Known(p, s)' <=> gone
      BY <1>3, CallsSame
    <3> HIDE DEF up, down, up2, down2, S, is, linked, waits, leaves, silent, hers, his, gone, is2
    <3>d. Free(up2, down, S, is2, linked, waits, leaves, silent, hers, his, gone, s)
      BY <3>a, <3>b, <3>1, <3>2, FreeDisjoin
    <3>e. Free(up2, down2, S, is2, linked, waits, leaves, silent, hers, his, gone, s)
      BY <3>d, <3>1
    <3> QED BY <3>b, <3>c, <3>e, FreeAfter
  <2>3. CASE ~(p = a /\ q = b /\ s = t)
    <3>1. p = b => s # t
      BY <1>4, <1>5, <2>1
    <3>2. Alike(chan[q][p], chan'[q][p], s) /\ Alike(chan[p][q], chan'[p][q], s)
      BY <1>3, <1>4, <1>5, <2>1, <2>3, <3>1
    <3>3. q \in collaborators'[p][s] <=> q \in collaborators[p][s]
      BY <1>8, <2>1, <2>3
    <3> QED BY <1>1, <1>2, <1>3, <2>1, <3>2, <3>3, GhostStill
  <2> QED BY <2>2, <2>3
<1> QED BY <1>1, <1>6, <1>7, <1>9, GhostInvAfter

(* A call is pushed that is not a walk: the walks are those there were.     *)
LEMMA PushedWalks ==
  ASSUME NEW r, list'[r] = list[r], NEW f, ToSet(frames'[r]) = ToSet(frames[r]) \cup {f}
  PROVE  /\ f.call # "removeBuddy" => \A x, s : Walks(r, x, s)' <=> Walks(r, x, s)
         /\ f.call # "destroySession" => \A s : Leaving(r, s)' = Leaving(r, s) /\ (Silent(r, s)' <=> Silent(r, s))
         /\ \A s : Leaving(r, s) \subseteq Leaving(r, s)'
<1>1. ASSUME f.call # "removeBuddy", NEW x, NEW s PROVE Walks(r, x, s)' <=> Walks(r, x, s)
  BY <1>1 DEF Walks
<1>2. ASSUME f.call # "destroySession", NEW s PROVE Leaving(r, s)' = Leaving(r, s) /\ (Silent(r, s)' <=> Silent(r, s))
  <2>1. Leaving(r, s)' = Leaving(r, s)
    BY <1>2 DEF Leaving
  <2> QED BY <2>1 DEF Silent
<1>3. ASSUME NEW s PROVE Leaving(r, s) \subseteq Leaving(r, s)'
  BY DEF Leaving
<1> QED BY <1>1, <1>2, <1>3

(* He hears that the session is closed.                                     *)
LEMMA HandleCloseGhost ==
  ASSUME GhostInv, NEW a \in Peers, NEW b \in Peers, HandleClose(a, b) PROVE GhostInv'
<1> DEFINE c == Received(a, b)
           h == Head(chan[b][a])
           t == h.id
           f == DestroyFrame(a, b, Find(a, t), {}, Close(t), TRUE)
<1>1. IInv /\ IInv' /\ StartedInv /\ LinesInv
  BY HandleCloseIInv DEF GhostInv
<1>2. /\ list' \in [Peers -> Seq(Objects)] /\ list \in [Peers -> Seq(Objects)]
      /\ frames \in [Peers -> Seq(Frames)]
  BY <1>1, IInvParts DEF Types, IInv, TypeOK
<1>3. /\ UNCHANGED <<master, list, alive, collaborators, buddies, asked>>
      /\ chan' = c
      /\ IF Known(a, t) /\ master[t] # a THEN Destroy(a, frames[a], f) ELSE UNCHANGED <<frames, nested>>
      /\ HeadIs(a, b, "close")
  BY DEF HandleClose, isLocallyControlled
<1>4. /\ chan[b][a] \in Seq(Packets) /\ chan[b][a] # <<>> /\ chan \in Chans
      /\ h \in Packets /\ h.type = "close" /\ Addressed(h, b, a) /\ t \in Sessions /\ h # Lost
      /\ LinesOK(c, buddies) /\ Directed(c) /\ a # b
      /\ \A u, v \in Peers : c[u][v] = IF u = b /\ v = a THEN Tail(chan[b][a]) ELSE chan[u][v]
      /\ \A u, v \in Peers : \A s : u # b \/ v # a \/ h \notin About(s) => Alike(chan[u][v], c[u][v], s)
  <2>1. Handled(a, b, "close")
    BY <1>3, HeadGhost
  <2> QED BY <2>1 DEF Handled
<1>5. h = Close(t) /\ master[t] = b /\ \A s : s # t => h \notin About(s)
  BY <1>4, AboutIs, NotAbout DEF Addressed
<1>6. f.call = "destroySession" /\ f.object = Find(a, t) /\ f.to = {} /\ f.event = Close(t)
  BY DEF DestroyFrame
<1> HIDE DEF c, h, t, f
<1>7. Known(a, t) => f.object.id = t /\ f \in Frames
  <2> SUFFICES ASSUME Known(a, t) PROVE f.object.id = t /\ f \in Frames
    OBVIOUS
  <2>1. Find(a, t) \in ToSet(list[a]) /\ Find(a, t).id = t /\ list[a] \in Seq(Objects)
    BY <1>2, FoundSession
  <2>2. Close(t) \in Farewells
    BY <1>4 DEF Close, Farewells
  <2>3. \A box \in BOOLEAN : DestroyFrame(a, b, Find(a, t), {}, Close(t), box) \in Frames
    BY <2>1, <2>2, FoundPlace
  <2>4. f \in Frames
    BY <2>3 DEF f
  <2> QED BY <1>6, <2>1, <2>4
<1>8. /\ nested \subseteq nested'
      /\ \A r \in Peers : r # a => frames'[r] = frames[r]
      /\ Known(a, t) => ToSet(frames'[a]) = ToSet(frames[a]) \cup {f}
      /\ ~Known(a, t) => frames' = frames
  <2>1. CASE Known(a, t)
    <3>1. frames' = [frames EXCEPT ![a] = Append(frames[a], f)] /\ nested \subseteq nested'
      BY <1>3, <1>4, <1>5, <2>1 DEF Destroy
    <3>2. \A r \in Peers : frames'[r] = IF r = a THEN Append(frames[a], f) ELSE frames[r]
      BY <1>2, <3>1
    <3>3. frames[a] \in Seq(Frames)
      BY <1>2
    <3> QED BY <1>7, <2>1, <3>1, <3>2, <3>3, CallsPushed
  <2>2. CASE ~Known(a, t)
    BY <1>3, <2>2
  <2> QED BY <2>1, <2>2
<1>9. StartedInv'
  <2>1. Known(a, t) => Farewell(a, f)
    <3>1. b # None
      BY PeersAssumption
    <3> QED BY <1>4, <1>5, <1>6, <1>7, <3>1 DEF Farewell
  <2>2. \A r \in Peers : \A x \in ToSet(frames'[r]) : x \in ToSet(frames[r]) \/ Farewell(r, x)
    BY <1>8, <2>1
  <2> QED BY <1>1, <1>3, <1>4, <1>8, <2>2, StartedKept
<1>10. LinesOK(chan', buddies')
  BY <1>3, <1>4
<1>11. \A r \in Peers : list'[r] = list[r] /\ alive'[r] = alive[r]
  BY <1>3
<1>12. \A r \in Peers : /\ \A x, s : Walks(r, x, s)' <=> Walks(r, x, s)
                        /\ \A s : Leaving(r, s) \subseteq Leaving(r, s)'
                        /\ r # a => \A s : Leaving(r, s)' = Leaving(r, s) /\ (Silent(r, s)' <=> Silent(r, s))
  <2> SUFFICES ASSUME NEW r \in Peers
               PROVE  /\ \A x, s : Walks(r, x, s)' <=> Walks(r, x, s)
                      /\ \A s : Leaving(r, s) \subseteq Leaving(r, s)'
                      /\ r # a => \A s : Leaving(r, s)' = Leaving(r, s) /\ (Silent(r, s)' <=> Silent(r, s))
    OBVIOUS
  <2>1. CASE r = a /\ Known(a, t)
    <3>1. ToSet(frames'[r]) = ToSet(frames[r]) \cup {f} /\ list'[r] = list[r] /\ f.call # "removeBuddy"
      BY <1>6, <1>8, <1>11, <2>1
    <3> QED BY <2>1, <3>1, PushedWalks
  <2>2. CASE ~(r = a /\ Known(a, t))
    <3>1. frames'[r] = frames[r] /\ list'[r] = list[r]
      BY <1>8, <1>11, <2>2
    <3>2. \A s : Leaving(r, s) \subseteq Leaving(r, s)
      OBVIOUS
    <3> QED BY <3>1, <3>2, WalksElsewhere
  <2> QED BY <2>1, <2>2
<1>13. ASSUME NEW p \in Peers \ nested', NEW q \in Peers \ nested', NEW s \in Sessions, p # q, master'[s] = p
       PROVE  GhostFree(p, q, s)'
  <2>1. /\ GhostFree(p, q, s) /\ p \in Peers /\ q \in Peers /\ master[s] = p
        /\ p \in Peers \ nested /\ q \in Peers \ nested
    BY <1>3, <1>8, <1>13 DEF GhostInv
  <2>2. Has(q, s)' = Has(q, s) /\ (Known(p, s)' <=> Known(p, s))
    BY <1>11, <2>1 DEF Has, Known
  <2>3. CASE p = b /\ q = a /\ s = t
    <3> DEFINE up == chan[q][p]
               down == chan[p][q]
               up2 == chan'[q][p]
               down2 == chan'[p][q]
               S == Has(q, s)
               is == q \in collaborators[p][s]
               linked == q \in buddies[p]
               waits == s \in asked[q]
               leaves == Leaving(q, s) # {}
               silent == Silent(q, s)
               hers == Walks(p, q, s)
               his == Walks(q, p, s)
               gone == ~Known(p, s)
               leaves2 == Leaving(q, s)' # {}
               silent2 == Silent(q, s)'
    <3>a. Free(up, down, S, is, linked, waits, leaves, silent, hers, his, gone, s)
      BY <2>1, FreeBefore
    <3>b. /\ is \in BOOLEAN /\ linked \in BOOLEAN /\ waits \in BOOLEAN /\ leaves \in BOOLEAN
          /\ silent \in BOOLEAN /\ hers \in BOOLEAN /\ his \in BOOLEAN /\ gone \in BOOLEAN
          /\ leaves2 \in BOOLEAN /\ silent2 \in BOOLEAN
      BY DEF Silent, Walks, Known
    <3>1. down \in Seq(Packets) /\ Taken(down, Close(s), down2) /\ up2 = up
      BY <1>3, <1>4, <1>5, <2>3 DEF Taken, h
    <3>2. leaves => leaves2
      BY <1>12, <2>1
    <3>3. S # {} => leaves2
      <4> SUFFICES ASSUME S # {} PROVE leaves2
        OBVIOUS
      <4>1. Known(a, t)
        BY <1>1, <2>1, <2>3, HasKnown
      <4>2. f \in ToSet(frames'[a])
        BY <1>8, <4>1
      <4> QED BY <1>6, <1>7, <2>3, <4>1, <4>2 DEF Leaving
    <3>c. /\ chan'[q][p] = up2 /\ chan'[p][q] = down2 /\ Has(q, s)' = S
          /\ q \in collaborators'[p][s] <=> is
          /\ q \in buddies'[p] <=> linked
          /\ s \in asked'[q] <=> waits
          /\ Leaving(q, s)' # {} <=> leaves2
          /\ Silent(q, s)' <=> silent2
          /\ Walks(p, q, s)' <=> hers
          /\ Walks(q, p, s)' <=> his
          /\ ~Known(p, s)' <=> gone
      BY <1>3, <1>12, <2>1, <2>2
    <3> HIDE DEF up, down, up2, down2, S, is, linked, waits, leaves, silent, hers, his, gone, leaves2, silent2
    <3>d. Free(up, down2, S, is, linked, waits, leaves2, silent2, hers, his, gone, s)
      BY <3>a, <3>b, <3>1, <3>2, <3>3, FreeClose
    <3>e. Free(up2, down2, S, is, linked, waits, leaves2, silent2, hers, his, gone, s)
      BY <3>d, <3>1
    <3> QED BY <3>b, <3>c, <3>e, FreeAfter
  <2>4. CASE ~(p = b /\ q = a /\ s = t)
    <3>1. p = a => s # t
      BY <1>4, <1>5, <2>1
    <3>2. Alike(chan[q][p], chan'[q][p], s) /\ Alike(chan[p][q], chan'[p][q], s)
      BY <1>3, <1>4, <1>5, <2>1, <2>4, <3>1
    <3>3. \A r \in {p, q} : Stays(r, s)
      BY <1>1, <1>11, <2>1, StaysSame
    <3>4. \A r \in Peers : \A x \in ToSet(frames[r]) : x \in ToSet(frames'[r])
      BY <1>8
    <3>5. \A x \in ToSet(frames'[q]) \ ToSet(frames[q]) : x.call = "destroySession" /\ x.object.id = s => x.to # {}
      <4> SUFFICES ASSUME NEW x \in ToSet(frames'[q]) \ ToSet(frames[q]), x.object.id = s PROVE FALSE
        OBVIOUS
      <4>1. q = a /\ x = f /\ Known(a, t)
        BY <1>8, <2>1
      <4>2. s = t
        BY <1>7, <4>1
      <4> QED BY <1>5, <2>1, <2>4, <4>1, <4>2
    <3> QED BY <1>1, <1>2, <1>3, <2>1, <2>2, <3>2, <3>3, <3>4, <3>5, GhostMore
  <2> QED BY <2>3, <2>4
<1> QED BY <1>1, <1>9, <1>10, <1>13, GhostInvAfter

(* He, or she, hears that the connection is cut.                            *)
LEMMA HandleLostGhost ==
  ASSUME GhostInv, NEW a \in Peers, NEW b \in Peers, HandleLost(a, b) PROVE GhostInv'
<1> DEFINE c == Received(a, b)
           h == Head(chan[b][a])
           f == RemoveFrame(b, Len(list[a]))
<1>1. IInv /\ IInv' /\ StartedInv /\ LinesInv
  BY HandleLostIInv DEF GhostInv
<1>2. /\ list' \in [Peers -> Seq(Objects)] /\ list \in [Peers -> Seq(Objects)]
      /\ frames \in [Peers -> Seq(Frames)] /\ asked \in [Peers -> SUBSET Sessions]
  BY <1>1, IInvParts DEF Types, IInv, TypeOK
<1>3. /\ UNCHANGED <<master, list, alive, collaborators, buddies, nested>>
      /\ chan' = c
      /\ asked' = [asked EXCEPT ![a] = {s \in @ : master[s] # b}]
      /\ frames' = [frames EXCEPT ![a] = Append(frames[a], f)]
      /\ HeadIs(a, b, "lost")
  BY DEF HandleLost
<1>4. /\ chan[b][a] \in Seq(Packets) /\ chan[b][a] # <<>> /\ chan \in Chans
      /\ h \in Packets /\ h.type = "lost"
      /\ LinesOK(c, buddies) /\ Directed(c) /\ a # b
      /\ h = Lost => a \notin buddies[b] /\ b \notin buddies[a] /\ Tail(chan[b][a]) = <<>>
      /\ \A u, v \in Peers : c[u][v] = IF u = b /\ v = a THEN Tail(chan[b][a]) ELSE chan[u][v]
      /\ \A u, v \in Peers : \A s : u # b \/ v # a \/ h \notin About(s) => Alike(chan[u][v], c[u][v], s)
  <2>1. Handled(a, b, "lost")
    BY <1>3, HeadGhost
  <2> QED BY <2>1 DEF Handled
<1>5. a \notin buddies[b] /\ b \notin buddies[a] /\ chan'[b][a] = <<>>
  <2>1. h = Lost
    BY <1>4 DEF Packets
  <2> QED BY <1>3, <1>4, <2>1
<1>6. f.call = "removeBuddy" /\ f.from = b /\ f.index = Len(list[a]) /\ f \in Frames
  <2>1. Len(list[a]) \in Nat
    BY <1>2, LenProperties
  <2> QED BY <2>1 DEF RemoveFrame, Frames
<1> HIDE DEF c, h, f
<1>7. /\ \A r \in Peers : r # a => frames'[r] = frames[r]
      /\ ToSet(frames'[a]) = ToSet(frames[a]) \cup {f}
  <2>1. \A r \in Peers : frames'[r] = IF r = a THEN Append(frames[a], f) ELSE frames[r]
    BY <1>2, <1>3
  <2>2. frames[a] \in Seq(Frames)
    BY <1>2
  <2> QED BY <1>6, <2>1, <2>2, CallsPushed
<1>8. StartedInv'
  <2>1. Farewell(a, f)
    BY <1>4, <1>5, <1>6 DEF Farewell
  <2>2. \A r \in Peers : \A x \in ToSet(frames'[r]) : x \in ToSet(frames[r]) \/ Farewell(r, x)
    BY <1>7, <2>1
  <2> QED BY <1>1, <1>3, <1>4, <2>2, StartedKept
<1>9. LinesOK(chan', buddies')
  BY <1>3, <1>4
<1>10. \A r \in Peers : list'[r] = list[r] /\ alive'[r] = alive[r]
  BY <1>3
<1>11. \A r \in Peers : \A s : Leaving(r, s)' = Leaving(r, s) /\ (Silent(r, s)' <=> Silent(r, s))
  <2>1. f.call # "destroySession"
    BY <1>6
  <2> QED BY <1>7, <1>10, <2>1, PushedWalks, WalksElsewhere
<1>12. \A r \in Peers : r # a => \A x, s : Walks(r, x, s)' <=> Walks(r, x, s)
  BY <1>7, <1>10, WalksElsewhere
<1>13. ASSUME NEW s, Known(a, s) PROVE Walks(a, b, s)'
  <2>1. PICK k \in DOMAIN list[a] : list[a][k].id = s
    BY <1>13 DEF Known
  <2>2. k <= f.index /\ k \in DOMAIN list'[a] /\ list'[a][k].id = s
    <3>1. list[a] \in Seq(Objects)
      BY <1>2
    <3>2. DOMAIN list[a] = 1..Len(list[a])
      BY <3>1, LenProperties
    <3> QED BY <1>6, <1>10, <2>1, <3>2
  <2>3. f \in ToSet(frames'[a])
    BY <1>7
  <2> QED BY <1>6, <2>2, <2>3 DEF Walks
<1>14. \A r \in Peers : \A s : s \in asked'[r] <=> s \in asked[r] /\ (r = a => master[s] # b)
  BY <1>2, <1>3
<1>15. ASSUME NEW p \in Peers \ nested', NEW q \in Peers \ nested', NEW s \in Sessions, p # q, master'[s] = p
       PROVE  GhostFree(p, q, s)'
  <2>1. /\ GhostFree(p, q, s) /\ p \in Peers /\ q \in Peers /\ master[s] = p
        /\ p \in Peers \ nested /\ q \in Peers \ nested
    BY <1>3, <1>15 DEF GhostInv
  <2>2. Has(q, s)' = Has(q, s) /\ (Known(p, s)' <=> Known(p, s))
    BY <1>10, <2>1 DEF Has, Known
  <2>3. CASE p = a /\ q = b
    <3> DEFINE up == chan[q][p]
               down == chan[p][q]
               up2 == chan'[q][p]
               down2 == chan'[p][q]
               S == Has(q, s)
               is == q \in collaborators[p][s]
               linked == q \in buddies[p]
               waits == s \in asked[q]
               leaves == Leaving(q, s) # {}
               silent == Silent(q, s)
               hers == Walks(p, q, s)
               his == Walks(q, p, s)
               gone == ~Known(p, s)
               hers2 == Walks(p, q, s)'
    <3>a. Free(up, down, S, is, linked, waits, leaves, silent, hers, his, gone, s)
      BY <2>1, FreeBefore
    <3>b. /\ is \in BOOLEAN /\ linked \in BOOLEAN /\ waits \in BOOLEAN /\ leaves \in BOOLEAN
          /\ silent \in BOOLEAN /\ hers \in BOOLEAN /\ his \in BOOLEAN /\ gone \in BOOLEAN
          /\ hers2 \in BOOLEAN
      BY DEF Silent, Walks, Known
    <3>1. Ended(up2) /\ ~linked /\ down2 = down
      BY <1>3, <1>4, <1>5, <2>3 DEF Ended
    <3>2. is => hers2
      <4> SUFFICES ASSUME is PROVE hers2
        OBVIOUS
      <4>1. Known(a, s)
        BY <1>1, <2>1, <2>3, CountedKnown
      <4> QED BY <1>13, <2>3, <4>1
    <3>3. s \in asked'[q] <=> waits
      BY <1>4, <1>14, <2>3
    <3>c. /\ chan'[q][p] = up2 /\ chan'[p][q] = down2 /\ Has(q, s)' = S
          /\ q \in collaborators'[p][s] <=> is
          /\ q \in buddies'[p] <=> linked
          /\ s \in asked'[q] <=> waits
          /\ Leaving(q, s)' # {} <=> leaves
          /\ Silent(q, s)' <=> silent
          /\ Walks(p, q, s)' <=> hers2
          /\ Walks(q, p, s)' <=> his
          /\ ~Known(p, s)' <=> gone
      BY <1>3, <1>4, <1>11, <1>12, <2>1, <2>2, <2>3, <3>3
    <3> HIDE DEF up, down, up2, down2, S, is, linked, waits, leaves, silent, hers, his, gone, hers2
    <3>d. Free(up2, down, S, is, linked, waits, leaves, silent, hers2, his, gone, s)
      BY <3>a, <3>b, <3>1, <3>2, FreeLostHere
    <3>e. Free(up2, down2, S, is, linked, waits, leaves, silent, hers2, his, gone, s)
      BY <3>d, <3>1
    <3> QED BY <3>b, <3>c, <3>e, FreeAfter
  <2>4. CASE p = b /\ q = a
    <3> DEFINE up == chan[q][p]
               down == chan[p][q]
               up2 == chan'[q][p]
               down2 == chan'[p][q]
               S == Has(q, s)
               is == q \in collaborators[p][s]
               linked == q \in buddies[p]
               waits == s \in asked[q]
               leaves == Leaving(q, s) # {}
               silent == Silent(q, s)
               hers == Walks(p, q, s)
               his == Walks(q, p, s)
               gone == ~Known(p, s)
               waits2 == s \in asked'[q]
               his2 == Walks(q, p, s)'
    <3>a. Free(up, down, S, is, linked, waits, leaves, silent, hers, his, gone, s)
      BY <2>1, FreeBefore
    <3>b. /\ is \in BOOLEAN /\ linked \in BOOLEAN /\ waits \in BOOLEAN /\ leaves \in BOOLEAN
          /\ silent \in BOOLEAN /\ hers \in BOOLEAN /\ his \in BOOLEAN /\ gone \in BOOLEAN
          /\ waits2 \in BOOLEAN /\ his2 \in BOOLEAN
      BY DEF Silent, Walks, Known
    <3>1. Ended(down2) /\ ~linked /\ up2 = up
      BY <1>3, <1>4, <1>5, <2>4 DEF Ended
    <3>2. S # {} => his2
      <4> SUFFICES ASSUME S # {} PROVE his2
        OBVIOUS
      <4>1. Known(a, s)
        BY <1>1, <2>1, <2>4, HasKnown
      <4> QED BY <1>13, <2>4, <4>1
    <3>c. /\ chan'[q][p] = up2 /\ chan'[p][q] = down2 /\ Has(q, s)' = S
          /\ q \in collaborators'[p][s] <=> is
          /\ q \in buddies'[p] <=> linked
          /\ s \in asked'[q] <=> waits2
          /\ Leaving(q, s)' # {} <=> leaves
          /\ Silent(q, s)' <=> silent
          /\ Walks(p, q, s)' <=> hers
          /\ Walks(q, p, s)' <=> his2
          /\ ~Known(p, s)' <=> gone
      BY <1>3, <1>4, <1>11, <1>12, <2>1, <2>2, <2>4
    <3> HIDE DEF up, down, up2, down2, S, is, linked, waits, leaves, silent, hers, his, gone, waits2, his2
    <3>d. Free(up, down2, S, is, linked, waits2, leaves, silent, hers, his2, gone, s)
      BY <3>a, <3>b, <3>1, <3>2, FreeLostThere
    <3>e. Free(up2, down2, S, is, linked, waits2, leaves, silent, hers, his2, gone, s)
      BY <3>d, <3>1
    <3> QED BY <3>b, <3>c, <3>e, FreeAfter
  <2>5. CASE ~(p = a /\ q = b) /\ ~(p = b /\ q = a)
    <3>1. Alike(chan[q][p], chan'[q][p], s) /\ Alike(chan[p][q], chan'[p][q], s)
      BY <1>3, <1>4, <2>1, <2>5
    <3>2. \A r \in {p, q} : Stays(r, s)
      BY <1>1, <1>10, <2>1, StaysSame
    <3>3. \A r \in Peers : \A x \in ToSet(frames[r]) : x \in ToSet(frames'[r])
      BY <1>7
    <3>4. \A x \in ToSet(frames'[q]) \ ToSet(frames[q]) : x.call # "destroySession"
      BY <1>6, <1>7, <2>1
    <3>5. s \in asked[q] => s \in asked'[q]
      BY <1>14, <2>1, <2>5
    <3> QED BY <1>1, <1>2, <1>3, <2>1, <2>2, <3>1, <3>2, <3>3, <3>4, <3>5, GhostMore
  <2> QED BY <2>3, <2>4, <2>5
<1> QED BY <1>1, <1>8, <1>9, <1>15, GhostInvAfter
----------------------------------------------------------------------------
(* Steps that add a session *)

Grew(x, t, o) ==
  /\ o \in Objects /\ o.id = t /\ list' \in [Peers -> Seq(Objects)]
  /\ \A r \in Peers : r # x => list'[r] = list[r] /\ alive'[r] = alive[r]
  /\ \A r \in Peers : \A s : Stays(r, s)
  /\ \A r \in Peers : \A s : r # x \/ s # t => Has(r, s)' = Has(r, s) /\ (Known(r, s)' <=> Known(r, s))
  /\ {d \in alive'[x] : d.id = t} = Has(x, t) \cup {o}
  /\ ToSet(list'[x]) = ToSet(list[x]) \cup {o}
  /\ \A i \in DOMAIN list'[x] : (i \in DOMAIN list[x] /\ list'[x][i] = list[x][i])
                                \/ (i = Len(list[x]) + 1 /\ list'[x][i] = o)

LEMMA NewGhost ==
  ASSUME IInv, NEW x \in Peers, NEW t \in Sessions, NEW o, o = NewObject(x, t),
         list' = [list EXCEPT ![x] = Append(@, o)], alive' = [alive EXCEPT ![x] = @ \cup {o}]
  PROVE  Grew(x, t, o)
<1>1. list \in [Peers -> Seq(Objects)] /\ alive \in [Peers -> SUBSET Objects] /\ IsFiniteSet(alive[x])
  BY IInvParts DEF Types, Finite
<1>2. o \in Objects /\ o.id = t
  <2>1. list[x] \in Seq(Objects)
    BY <1>1
  <2>2. IsFiniteSet(Used(x))
    BY <1>1, <2>1, UsedFinite
  <2> QED BY <2>2, FreshObject
<1>3. /\ list'[x] = Append(list[x], o) /\ alive'[x] = alive[x] \cup {o}
      /\ \A r \in Peers : r # x => list'[r] = list[r] /\ alive'[r] = alive[r]
  BY <1>1
<1>4. /\ Append(list[x], o) \in Seq(Objects) /\ ToSet(Append(list[x], o)) = ToSet(list[x]) \cup {o}
      /\ \A i \in DOMAIN Append(list[x], o) :
           (i \in DOMAIN list[x] /\ Append(list[x], o)[i] = list[x][i])
           \/ (i = Len(list[x]) + 1 /\ Append(list[x], o)[i] = o)
      /\ \A i \in DOMAIN list[x] : i \in DOMAIN Append(list[x], o) /\ Append(list[x], o)[i] = list[x][i]
  <2>1. list[x] \in Seq(Objects)
    BY <1>1
  <2> QED BY <1>2, <2>1, Appended
<1>5. list' \in [Peers -> Seq(Objects)]
  BY <1>1, <1>4
<1>6. \A r \in Peers : \A s : Stays(r, s)
  <2> SUFFICES ASSUME NEW r \in Peers, NEW s PROVE Stays(r, s)
    OBVIOUS
  <2>1. CASE r = x
    BY <1>2, <1>3, <2>1, StaysGrown
  <2>2. CASE r # x
    BY <1>3, <2>2, StaysSame
  <2> QED BY <2>1, <2>2
<1>7. ASSUME NEW r \in Peers, NEW s, r # x \/ s # t
      PROVE  Has(r, s)' = Has(r, s) /\ (Known(r, s)' <=> Known(r, s))
  <2>1. CASE r # x
    BY <1>3, <2>1 DEF Has, Known
  <2>2. CASE r = x
    <3>1. Has(r, s)' = Has(r, s)
      BY <1>2, <1>3, <1>7, <2>2 DEF Has
    <3>2. Known(r, s)' <=> Known(r, s)
      BY <1>2, <1>3, <1>4, <1>7, <2>2 DEF Known
    <3> QED BY <3>1, <3>2
  <2> QED BY <2>1, <2>2
<1>8. {d \in alive'[x] : d.id = t} = Has(x, t) \cup {o}
  BY <1>2, <1>3 DEF Has
<1> QED BY <1>2, <1>3, <1>4, <1>5, <1>6, <1>7, <1>8 DEF Grew

(* He joins.                                                                *)
LEMMA HandleJoinResponseGhost ==
  ASSUME GhostInv, NEW a \in Peers, NEW b \in Peers, HandleJoinResponse(a, b) PROVE GhostInv'
<1> DEFINE c == Received(a, b)
           h == Head(chan[b][a])
           t == h.id
           o == NewObject(a, t)
<1>1. IInv /\ IInv' /\ StartedInv /\ LinesInv
  BY HandleJoinResponseIInv DEF GhostInv
<1>2. asked \in [Peers -> SUBSET Sessions]
  BY <1>1, IInvParts DEF Types
<1>3. /\ UNCHANGED <<master, collaborators, frames, buddies, nested>>
      /\ list' = [list EXCEPT ![a] = Append(@, o)]
      /\ alive' = [alive EXCEPT ![a] = @ \cup {o}]
      /\ asked' = [asked EXCEPT ![a] = @ \ {t}]
      /\ chan' = c
      /\ HeadIs(a, b, "joined")
  BY DEF HandleJoinResponse
<1>4. /\ chan[b][a] \in Seq(Packets) /\ chan[b][a] # <<>> /\ chan \in Chans
      /\ h \in Packets /\ h.type = "joined" /\ Addressed(h, b, a) /\ t \in Sessions /\ h # Lost
      /\ LinesOK(c, buddies) /\ Directed(c) /\ a # b
      /\ a \notin buddies[b] => At(chan[b][a], Lost) # {}
      /\ \A u, v \in Peers : c[u][v] = IF u = b /\ v = a THEN Tail(chan[b][a]) ELSE chan[u][v]
      /\ \A u, v \in Peers : \A s : u # b \/ v # a \/ h \notin About(s) => Alike(chan[u][v], c[u][v], s)
  <2>1. Handled(a, b, "joined")
    BY <1>3, HeadGhost
  <2> QED BY <2>1 DEF Handled
<1>5. h = JoinResponse(t) /\ master[t] = b /\ \A s : s # t => h \notin About(s)
  BY <1>4, AboutIs, NotAbout DEF Addressed
<1>6. Grew(a, t, o)
  BY <1>1, <1>3, <1>4, NewGhost
<1> HIDE DEF c, h, t, o
<1>7. /\ o \in Objects /\ o.id = t /\ list' \in [Peers -> Seq(Objects)]
      /\ \A r \in Peers : r # a => list'[r] = list[r] /\ alive'[r] = alive[r]
      /\ \A r \in Peers : \A s : Stays(r, s)
      /\ \A r \in Peers : \A s : r # a \/ s # t => Has(r, s)' = Has(r, s) /\ (Known(r, s)' <=> Known(r, s))
      /\ {d \in alive'[a] : d.id = t} = Has(a, t) \cup {o}
      /\ ToSet(list'[a]) = ToSet(list[a]) \cup {o}
      /\ \A i \in DOMAIN list'[a] : (i \in DOMAIN list[a] /\ list'[a][i] = list[a][i])
                                    \/ (i = Len(list[a]) + 1 /\ list'[a][i] = o)
  BY <1>6 DEF Grew
<1>8. StartedInv'
  <2>1. Directed(chan)'
    BY <1>3, <1>4 DEF Directed, Addressed
  <2>2. Bidden'
    BY <1>1, <1>3, BiddenKept
  <2>3. Mastered'
    <3>1. \A p \in Peers : \A d \in ToSet(list'[p]) : master'[d.id] # None
      BY <1>1, <1>3, <1>4, <1>5, <1>7, PeersAssumption DEF StartedInv
    <3>2. ASSUME NEW p \in Peers \ nested', NEW i \in DOMAIN list'[p], NEW j \in DOMAIN list'[p],
                 list'[p][i].id = list'[p][j].id, master'[list'[p][i].id] = p
          PROVE  i = j
      <4>1. CASE p = a
        <5>1. list'[a][i].id # t /\ list'[a][j].id # t
          BY <1>3, <1>4, <1>5, <3>2, <4>1
        <5>2. /\ i \in DOMAIN list[a] /\ list'[a][i] = list[a][i]
              /\ j \in DOMAIN list[a] /\ list'[a][j] = list[a][j]
          BY <1>7, <3>2, <4>1, <5>1
        <5> QED BY <1>1, <1>3, <3>2, <4>1, <5>2 DEF StartedInv
      <4>2. CASE p # a
        BY <1>1, <1>3, <1>7, <3>2, <4>2 DEF StartedInv
      <4> QED BY <4>1, <4>2
    <3> QED BY <3>1, <3>2 DEF Mastered
  <2>4. (StartedInv <=> Directed(chan) /\ Mastered /\ Bidden)'
    BY StartedInvIs, PTL
  <2> QED BY <2>1, <2>2, <2>3, <2>4
<1>9. LinesOK(chan', buddies')
  BY <1>3, <1>4
<1>10. \A r \in Peers : \A s : Leaving(r, s)' = Leaving(r, s) /\ (Silent(r, s)' <=> Silent(r, s))
  BY <1>3 DEF Leaving, Silent
<1>11. \A r \in Peers : r # a => \A x, s : Walks(r, x, s)' <=> Walks(r, x, s)
  BY <1>3, <1>7, WalksElsewhere
<1>12. \A r \in Peers : \A s : s \in asked'[r] <=> s \in asked[r] /\ ~(r = a /\ s = t)
  BY <1>2, <1>3
<1>13. ASSUME NEW p \in Peers \ nested', NEW q \in Peers \ nested', NEW s \in Sessions, p # q, master'[s] = p
       PROVE  GhostFree(p, q, s)'
  <2>1. GhostFree(p, q, s) /\ p \in Peers /\ q \in Peers /\ master[s] = p
    BY <1>3, <1>13 DEF GhostInv
  <2>2. CASE p = b /\ q = a /\ s = t
    <3> DEFINE up == chan[q][p]
               down == chan[p][q]
               up2 == chan'[q][p]
               down2 == chan'[p][q]
               S == Has(q, s)
               is == q \in collaborators[p][s]
               linked == q \in buddies[p]
               waits == s \in asked[q]
               leaves == Leaving(q, s) # {}
               silent == Silent(q, s)
               hers == Walks(p, q, s)
               his == Walks(q, p, s)
               gone == ~Known(p, s)
               S2 == Has(q, s)'
               waits2 == s \in asked'[q]
               his2 == Walks(q, p, s)'
    <3>a. Free(up, down, S, is, linked, waits, leaves, silent, hers, his, gone, s)
      BY <2>1, FreeBefore
    <3>b. /\ is \in BOOLEAN /\ linked \in BOOLEAN /\ waits \in BOOLEAN /\ leaves \in BOOLEAN
          /\ silent \in BOOLEAN /\ hers \in BOOLEAN /\ his \in BOOLEAN /\ gone \in BOOLEAN
          /\ waits2 \in BOOLEAN /\ his2 \in BOOLEAN
      BY DEF Silent, Walks, Known
    <3>1. down \in Seq(Packets) /\ Taken(down, JoinResponse(s), down2) /\ up2 = up
      BY <1>3, <1>4, <1>5, <2>2 DEF Taken, h
    <3>2. Heard(linked, down)
      BY <1>4, <2>2 DEF Heard
    <3>3. ~waits2
      BY <1>12, <2>2
    <3>4. S2 # {} /\ \A o1, o2 \in S2 : o1 = o2
      <4>1. 1 \in At(down, JoinResponse(s))
        BY <3>1, AtTaken DEF Taken
      <4>2. Once(up, down, S, s)
        BY <3>a DEF Free
      <4>3. S = {}
        BY <4>1, <4>2 DEF Once
      <4>4. S2 = {d \in alive'[a] : d.id = t} /\ Has(a, t) = {}
        BY <2>2, <4>3 DEF Has
      <4>5. S2 = {o}
        BY <1>7, <4>4
      <4> QED BY <4>5
    <3>c. /\ chan'[q][p] = up2 /\ chan'[p][q] = down2 /\ Has(q, s)' = S2
          /\ q \in collaborators'[p][s] <=> is
          /\ q \in buddies'[p] <=> linked
          /\ s \in asked'[q] <=> waits2
          /\ Leaving(q, s)' # {} <=> leaves
          /\ Silent(q, s)' <=> silent
          /\ Walks(p, q, s)' <=> hers
          /\ Walks(q, p, s)' <=> his2
          /\ ~Known(p, s)' <=> gone
      BY <1>3, <1>4, <1>7, <1>10, <1>11, <2>1, <2>2
    <3> HIDE DEF up, down, up2, down2, S, is, linked, waits, leaves, silent, hers, his, gone, S2, waits2, his2
    <3>d. Free(up, down2, S2, is, linked, waits2, leaves, silent, hers, his2, gone, s)
      BY <3>a, <3>b, <3>1, <3>2, <3>3, <3>4, FreeJoined
    <3>e. Free(up2, down2, S2, is, linked, waits2, leaves, silent, hers, his2, gone, s)
      BY <3>d, <3>1
    <3> QED BY <3>b, <3>c, <3>e, FreeAfter
  <2>3. CASE ~(p = b /\ q = a /\ s = t)
    <3>1. (q = a => s # t) /\ (p = a => s # t)
      BY <1>4, <1>5, <2>1, <2>3
    <3>2. Alike(chan[q][p], chan'[q][p], s) /\ Alike(chan[p][q], chan'[p][q], s)
      BY <1>3, <1>4, <1>5, <2>1, <3>1
    <3>3. Has(q, s)' = Has(q, s) /\ (Known(p, s)' <=> Known(p, s)) /\ \A r \in {p, q} : Stays(r, s)
      BY <1>7, <2>1, <3>1
    <3>4. s \in asked[q] => s \in asked'[q]
      BY <1>12, <2>1, <3>1
    <3>5. \A r : frames'[r] = frames[r]
      BY <1>3
    <3> QED BY <1>1, <1>3, <1>7, <2>1, <3>2, <3>3, <3>4, <3>5, GhostMore
  <2> QED BY <2>2, <2>3
<1> QED BY <1>1, <1>8, <1>9, <1>13, GhostInvAfter

(* A session begins.                                                        *)
LEMMA StartSessionGhost ==
  ASSUME GhostInv, NEW x \in Peers, NEW t \in Sessions, StartSession(x, t) PROVE GhostInv'
<1> DEFINE m == Start(t)
           o == NewObject(x, t)
           to == buddies[x]
<1>1. IInv /\ IInv' /\ StartedInv /\ LinesInv
  BY StartSessionIInv DEF GhostInv
<1>2. /\ chan \in Chans /\ buddies \in [Peers -> SUBSET Peers] /\ master \in [Sessions -> Peers \cup {None}]
      /\ frames \in [Peers -> Seq(Frames)] /\ list \in [Peers -> Seq(Objects)]
  BY <1>1, IInvParts DEF Types
<1>3. /\ master' = [master EXCEPT ![t] = x] /\ master[t] = None
      /\ list' = [list EXCEPT ![x] = Append(@, o)] /\ alive' = [alive EXCEPT ![x] = @ \cup {o}]
      /\ chan' = SendAll(chan, x, to, m)
      /\ UNCHANGED <<collaborators, frames, buddies, asked, nested>>
  BY DEF StartSession
<1>4. Grew(x, t, o)
  BY <1>1, <1>3, NewGhost
<1>5. m \in Packets /\ m.type = "start" /\ m # Lost /\ \A s : m \notin About(s)
  <2>1. m \in Packets /\ m.type = "start" /\ m # Lost
    BY AboutPackets DEF Start, Lost
  <2> QED BY <2>1, NotAbout
<1> HIDE DEF m, o, to
<1>6. /\ o \in Objects /\ o.id = t /\ list' \in [Peers -> Seq(Objects)]
      /\ \A r \in Peers : r # x => list'[r] = list[r] /\ alive'[r] = alive[r]
      /\ \A r \in Peers : \A s : Stays(r, s)
      /\ \A r \in Peers : \A s : r # x \/ s # t => Has(r, s)' = Has(r, s) /\ (Known(r, s)' <=> Known(r, s))
      /\ ToSet(list'[x]) = ToSet(list[x]) \cup {o}
      /\ \A i \in DOMAIN list'[x] : (i \in DOMAIN list[x] /\ list'[x][i] = list[x][i])
                                    \/ (i = Len(list[x]) + 1 /\ list'[x][i] = o)
  BY <1>4 DEF Grew
<1>7. \A s \in Sessions : master'[s] = IF s = t THEN x ELSE master[s]
  BY <1>2, <1>3
<1>8. None \notin Peers /\ x # None
  BY PeersAssumption
<1>9. \A u, v \in Peers : \A s : Alike(chan[u][v], chan'[u][v], s)
  BY <1>2, <1>3, <1>5, AlikeAllSent
<1>10. LinesOK(chan', buddies')
  <2>1. LinesOK(chan, buddies) /\ to \subseteq buddies[x]
    BY <1>1, LinesInvIs DEF to
  <2>2. LinesOK(SendAll(chan, x, to, m), buddies)
    BY <1>2, <1>5, <2>1, LinesSent
  <2> QED BY <1>3, <2>2
(* nothing has been said about the session, nor done *)
<1>11. ASSUME NEW u \in Peers, NEW v \in Peers, NEW d \in ToSet(chan[u][v]),
              d.type \in {"join", "disjoin", "joined", "close"}
       PROVE  d.id \in Sessions /\ d.id # t
  <2>1. Addressed(d, u, v)
    BY <1>1 DEF StartedInv
  <2>2. master[d.id] \in {u, v}
    BY <1>11, <2>1 DEF Addressed
  <2>3. d \in Packets
    <3>1. chan[u][v] \in Seq(Packets)
      BY <1>2 DEF Chans
    <3>2. DOMAIN chan[u][v] = 1..Len(chan[u][v]) /\ \A i \in 1..Len(chan[u][v]) : chan[u][v][i] \in Packets
      BY <3>1, LenProperties, ElementOfSeq
    <3> QED BY <3>2 DEF ToSet
  <2>4. d.id \in Sessions
    BY <1>11, <2>3 DEF Packets, Lost
  <2> QED BY <1>3, <1>8, <2>2, <2>4
<1>12. ASSUME NEW r \in Peers, NEW f \in ToSet(frames[r]), f.call = "destroySession"
       PROVE  f.object.id \in Sessions /\ f.object.id # t
  <2>1. master[f.object.id] # None
    BY <1>1, <1>12 DEF StartedInv, Farewell
  <2>2. f \in Frames
    <3>1. frames[r] \in Seq(Frames)
      BY <1>2
    <3>2. DOMAIN frames[r] = 1..Len(frames[r]) /\ \A i \in 1..Len(frames[r]) : frames[r][i] \in Frames
      BY <3>1, LenProperties, ElementOfSeq
    <3> QED BY <3>2 DEF ToSet
  <2>3. f.object.id \in Sessions
    BY <1>12, <2>2 DEF Frames, DestroyFrames, Objects
  <2> QED BY <1>3, <2>1, <2>3
<1>13. ASSUME NEW r \in Peers, NEW d \in ToSet(list[r]) PROVE d.id \in Sessions /\ d.id # t
  <2>1. master[d.id] # None
    BY <1>1 DEF StartedInv
  <2>2. d \in Objects
    <3>1. list[r] \in Seq(Objects)
      BY <1>2
    <3>2. DOMAIN list[r] = 1..Len(list[r]) /\ \A i \in 1..Len(list[r]) : list[r][i] \in Objects
      BY <3>1, LenProperties, ElementOfSeq
    <3> QED BY <3>2 DEF ToSet
  <2> QED BY <1>3, <2>1, <2>2 DEF Objects
<1>14. \A r \in Peers : \A i \in DOMAIN list[r] : list[r][i] \in ToSet(list[r])
  BY DEF ToSet
<1>15. StartedInv'
  <2>1. Directed(chan)'
    <3>1. \A u, v \in Peers : \A d \in ToSet(chan[u][v]) : Addressed(d, u, v)'
      <4> SUFFICES ASSUME NEW u \in Peers, NEW v \in Peers, NEW d \in ToSet(chan[u][v]) PROVE Addressed(d, u, v)'
        OBVIOUS
      <4>1. Addressed(d, u, v)
        BY <1>1 DEF StartedInv
      <4>2. d.type \in {"join", "disjoin", "joined", "close"} => master'[d.id] = master[d.id]
        BY <1>7, <1>11
      <4> QED BY <4>1, <4>2 DEF Addressed
    <3>2. \A u, v : Addressed(m, u, v)'
      BY <1>5 DEF Addressed
    <3>3. \A u, v \in Peers : chan'[u][v] = IF u = x /\ v \in to THEN Append(chan[u][v], m) ELSE chan[u][v]
      BY <1>2, <1>3, <1>5, SentIs
    <3>4. ASSUME NEW u \in Peers, NEW v \in Peers PROVE ToSet(chan'[u][v]) \subseteq ToSet(chan[u][v]) \cup {m}
      <4>1. chan[u][v] \in Seq(Packets)
        BY <1>2 DEF Chans
      <4>2. ToSet(Append(chan[u][v], m)) = ToSet(chan[u][v]) \cup {m}
        BY <1>5, <4>1, Appended
      <4> QED BY <3>3, <4>2
    <3>5. \A u, v \in Peers : \A d \in ToSet(chan'[u][v]) : Addressed(d, u, v)'
      BY <3>1, <3>2, <3>4
    <3> QED BY <3>5 DEF Directed
  <2>2. Bidden'
    <3> SUFFICES ASSUME NEW r \in Peers, NEW f \in ToSet(frames[r]) PROVE Farewell(r, f)'
      BY <1>3 DEF Bidden
    <3>1. Farewell(r, f)
      BY <1>1 DEF StartedInv
    <3>2. f.call = "destroySession" => master'[f.object.id] = master[f.object.id]
      BY <1>7, <1>12
    <3>3. Close(f.object.id)' = Close(f.object.id) /\ Disjoin(f.object.id)' = Disjoin(f.object.id) /\ buddies' = buddies
      BY <1>3 DEF Close, Disjoin
    <3> QED BY <3>1, <3>2, <3>3 DEF Farewell
  <2>3. Mastered'
    <3>1. \A p \in Peers : \A d \in ToSet(list'[p]) : master'[d.id] # None
      <4>1. \A p \in Peers : \A d \in ToSet(list[p]) : master'[d.id] # None
        BY <1>1, <1>7, <1>13 DEF StartedInv
      <4>2. master'[o.id] # None
        BY <1>6, <1>7, <1>8
      <4> QED BY <1>6, <4>1, <4>2
    <3>2. ASSUME NEW p \in Peers \ nested', NEW i \in DOMAIN list'[p], NEW j \in DOMAIN list'[p],
                 list'[p][i].id = list'[p][j].id, master'[list'[p][i].id] = p
          PROVE  i = j
      <4>0. p \in Peers \ nested /\ \A k, l \in DOMAIN list[p] :
              list[p][k].id = list[p][l].id /\ master[list[p][k].id] = p => k = l
        BY <1>1, <1>3 DEF StartedInv
      <4>1. CASE list'[p][i].id = t
        <5>1. \A k \in DOMAIN list[p] : list[p][k].id # t
          BY <1>13, <1>14
        <5>2. p = x
          BY <1>6, <4>1, <5>1
        <5> QED BY <1>6, <3>2, <4>1, <5>1, <5>2
      <4>2. CASE list'[p][i].id # t
        <5>1. /\ i \in DOMAIN list[p] /\ list'[p][i] = list[p][i]
              /\ j \in DOMAIN list[p] /\ list'[p][j] = list[p][j]
          BY <1>6, <3>2, <4>2
        <5>2. list[p][i].id \in Sessions
          BY <1>13, <1>14, <5>1
        <5>3. master[list[p][i].id] = p
          BY <1>7, <3>2, <4>2, <5>1, <5>2
        <5> QED BY <3>2, <4>0, <5>1, <5>3
      <4> QED BY <4>1, <4>2
    <3> QED BY <3>1, <3>2 DEF Mastered
  <2>4. (StartedInv <=> Directed(chan) /\ Mastered /\ Bidden)'
    BY StartedInvIs, PTL
  <2> QED BY <2>1, <2>2, <2>3, <2>4
<1>16. ASSUME NEW p \in Peers \ nested', NEW q \in Peers \ nested', NEW s \in Sessions, p # q, master'[s] = p
       PROVE  GhostFree(p, q, s)'
  <2>0. p \in Peers /\ q \in Peers /\ p \in Peers \ nested /\ q \in Peers \ nested
    BY <1>3, <1>16
  <2>1. CASE s = t
    <3>1. p = x /\ q # x
      BY <1>7, <1>16, <2>1
    <3>2. \A u, v \in Peers : /\ At(chan'[u][v], JoinRequest(s)) = {} /\ At(chan'[u][v], Disjoin(s)) = {}
                              /\ At(chan'[u][v], JoinResponse(s)) = {} /\ At(chan'[u][v], Close(s)) = {}
      <4> SUFFICES ASSUME NEW u \in Peers, NEW v \in Peers, NEW d \in {JoinRequest(s), Disjoin(s),
                          JoinResponse(s), Close(s)}
                   PROVE  At(chan'[u][v], d) = {}
        OBVIOUS
      <4>1. d \in About(s) /\ d.type \in {"join", "disjoin", "joined", "close"} /\ d.id = s
        BY DEF About, JoinRequest, Disjoin, JoinResponse, Close
      <4>2. d \notin ToSet(chan[u][v])
        BY <1>11, <2>1, <4>1
      <4>3. At(chan[u][v], d) = {}
        BY <4>2 DEF At, ToSet
      <4>4. At(chan[u][v], d) = {} <=> At(chan'[u][v], d) = {}
        BY <1>9, <4>1, AlikeFacts
      <4> QED BY <4>3, <4>4
    <3> DEFINE up2 == chan'[q][p]
               down2 == chan'[p][q]
               S2 == Has(q, s)'
               is2 == q \in collaborators'[p][s]
               linked2 == q \in buddies'[p]
               waits2 == s \in asked'[q]
               leaves2 == Leaving(q, s)' # {}
               silent2 == Silent(q, s)'
               hers2 == Walks(p, q, s)'
               his2 == Walks(q, p, s)'
               gone2 == ~Known(p, s)'
    <3>3. /\ At(up2, JoinRequest(s)) = {} /\ At(up2, Disjoin(s)) = {}
          /\ At(down2, JoinResponse(s)) = {} /\ At(down2, Close(s)) = {}
      BY <2>0, <3>2
    <3>4. Void(S2)
      <4>1. ~Known(q, s)
        BY <1>13, <1>14, <2>0, <2>1 DEF Known
      <4>2. Has(q, s) = {}
        BY <1>1, <2>0, <4>1, HasKnown
      <4> QED BY <1>6, <2>0, <3>1, <4>2 DEF Void
    <3>5. ~is2 /\ ~silent2
      <4>1. collaborators[p][s] = {}
        BY <1>1, <1>3, <1>8, <2>0, <2>1, <3>1, IInvParts DEF CollaboratorsMine
      <4>2. Leaving(q, s)' = {}
        BY <1>3, <1>12, <2>0, <2>1 DEF Leaving
      <4> QED BY <1>3, <4>1, <4>2 DEF Silent
    <3>6. /\ is2 \in BOOLEAN /\ linked2 \in BOOLEAN /\ waits2 \in BOOLEAN /\ leaves2 \in BOOLEAN /\ silent2 \in BOOLEAN
          /\ hers2 \in BOOLEAN /\ his2 \in BOOLEAN /\ gone2 \in BOOLEAN
      BY DEF Silent, Walks, Known
    <3>7. /\ chan'[q][p] = up2 /\ chan'[p][q] = down2 /\ Has(q, s)' = S2
          /\ q \in collaborators'[p][s] <=> is2
          /\ q \in buddies'[p] <=> linked2
          /\ s \in asked'[q] <=> waits2
          /\ Leaving(q, s)' # {} <=> leaves2
          /\ Silent(q, s)' <=> silent2
          /\ Walks(p, q, s)' <=> hers2
          /\ Walks(q, p, s)' <=> his2
          /\ ~Known(p, s)' <=> gone2
      OBVIOUS
    <3> HIDE DEF up2, down2, S2, is2, linked2, waits2, leaves2, silent2, hers2, his2, gone2
    <3>8. Free(up2, down2, S2, is2, linked2, waits2, leaves2, silent2, hers2, his2, gone2, s)
      BY <3>3, <3>4, <3>5, <3>6, FreeStart
    <3> QED BY <3>6, <3>7, <3>8, FreeAfter
  <2>2. CASE s # t
    <3>1. master[s] = p /\ GhostFree(p, q, s)
      BY <1>7, <1>16, <2>0, <2>2 DEF GhostInv
    <3>2. Has(q, s)' = Has(q, s) /\ (Known(p, s)' <=> Known(p, s)) /\ \A r \in {p, q} : Stays(r, s)
      BY <1>6, <2>0, <2>2
    <3>3. Alike(chan[q][p], chan'[q][p], s) /\ Alike(chan[p][q], chan'[p][q], s)
      BY <1>9, <2>0
    <3>4. \A r : frames'[r] = frames[r]
      BY <1>3
    <3> QED BY <1>1, <1>3, <1>6, <2>0, <3>1, <3>2, <3>3, <3>4, GhostMore
  <2> QED BY <2>1, <2>2
<1> QED BY <1>1, <1>10, <1>15, <1>16, GhostInvAfter
----------------------------------------------------------------------------
(* A session is destroyed *)

(* What is gone at x: its object o, its place and the call f.               *)
Shrunk(x, f, o) ==
  /\ f \in Frames /\ f.call = "destroySession" /\ f.object = o /\ o \in Objects /\ f.event \in Packets
  /\ f \in ToSet(frames[x]) /\ o \in alive[x] /\ f.index \in DOMAIN list[x]
  /\ \A r \in Peers : r # x => list'[r] = list[r] /\ alive'[r] = alive[r] /\ frames'[r] = frames[r]
  /\ list'[x] = RemoveAt(list[x], f.index) /\ alive'[x] = alive[x] \ {o}
  /\ \A g \in ToSet(frames[x]) : g = f \/ g \in ToSet(frames'[x])
  /\ \A g \in ToSet(frames'[x]) : g.call = "messageBox" \/ g \in ToSet(Front(frames[x]))
  /\ \A g \in ToSet(Front(frames[x])) : g \in ToSet(frames[x])
  /\ \A r, q \in Peers, s \in Sessions :
       q \in collaborators'[r][s] <=> q \in collaborators[r][s] /\ ~(r = x /\ s = o.id /\ master[s] = x)
  /\ chan' = SendAll(chan, x, f.to \cap buddies[x], f.event)
  /\ UNCHANGED <<master, buddies, asked, nested>>
  /\ x \notin nested => list[x][f.index] = o /\ Destroying(Front(frames[x])) = {}

LEMMA DestroyedGhost ==
  ASSUME IInv, NEW a \in Peers, DestroySession(a), Last(frames[a]).object \in alive[a],
         Last(frames[a]).index \in DOMAIN list[a]
  PROVE  Shrunk(a, Last(frames[a]), Last(frames[a]).object)
<1> DEFINE f == Last(frames[a])
           o == f.object
           h == Front(frames[a])
           m == MessageBoxFrame(f.from)
           g == h \o (IF f.box THEN <<m>> ELSE <<>>)
<1>1. /\ Runs(a, "destroySession") /\ f \in Frames /\ f.call = "destroySession" /\ h \in Seq(Frames)
      /\ frames[a] \in Seq(Frames) /\ frames[a] # <<>>
  BY Running DEF DestroySession
<1>2. o \in Objects /\ f.event \in Packets /\ f.from \in Peers \cup {None} /\ o.id \in Sessions
  BY <1>1 DEF Frames, DestroyFrames, Objects, Farewells, Packets
<1>3. /\ alive' = [alive EXCEPT ![a] = alive[a] \ {o}]
      /\ list' = [list EXCEPT ![a] = RemoveAt(list[a], f.index)]
      /\ collaborators' = IF master[o.id] = a THEN [collaborators EXCEPT ![a][o.id] = {}] ELSE collaborators
      /\ chan' = SendAll(chan, a, f.to \cap buddies[a], f.event)
      /\ frames' = [frames EXCEPT ![a] = g]
      /\ UNCHANGED <<master, buddies, asked, nested>>
  BY DEF DestroySession, isLocallyControlled
<1>4. ToSet(frames[a]) = ToSet(h) \cup {f}
  BY <1>1, CallsPushed
<1>5. m \in Frames /\ m.call = "messageBox"
  BY <1>2 DEF MessageBoxFrame, Frames
<1> HIDE DEF m, h, f
<1>a. f.box => g = Append(h, m)
  BY <1>1, <1>5, AppendIsConcat
<1>b. ~f.box => g = h
  BY <1>1, ConcatEmptySeq
<1>c. ToSet(Append(h, m)) = ToSet(h) \cup {m}
  BY <1>1, <1>5, CallsPushed
<1> HIDE DEF g
<1>6. \A x \in ToSet(h) : x \in ToSet(g)
  BY <1>a, <1>b, <1>c
<1>7. \A x \in ToSet(g) : x.call = "messageBox" \/ x \in ToSet(h)
  BY <1>5, <1>a, <1>b, <1>c
<1>8. \A r \in Peers : frames'[r] = IF r = a THEN g ELSE frames[r]
  BY <1>3, FramesOf
<1>9. list \in [Peers -> Seq(Objects)] /\ alive \in [Peers -> SUBSET Objects]
      /\ collaborators \in [Peers -> [Sessions -> SUBSET Peers]]
  BY IInvParts DEF Types
<1>10. /\ \A r \in Peers : r # a => list'[r] = list[r] /\ alive'[r] = alive[r]
       /\ list'[a] = RemoveAt(list[a], f.index) /\ alive'[a] = alive[a] \ {o}
  BY <1>3, <1>9
<1>11. ASSUME NEW r \in Peers, NEW q \in Peers, NEW s \in Sessions
       PROVE  q \in collaborators'[r][s] <=> q \in collaborators[r][s] /\ ~(r = a /\ s = o.id /\ master[s] = a)
  <2>1. CASE master[o.id] = a
    <3>1. collaborators' = [collaborators EXCEPT ![a][o.id] = {}]
      BY <1>3, <2>1
    <3> HIDE DEF o
    <3> QED BY <1>2, <1>9, <2>1, <3>1
  <2>2. CASE master[o.id] # a
    BY <1>3, <2>2
  <2> QED BY <2>1, <2>2
<1>12. a \notin nested => list[a][f.index] = o /\ Destroying(h) = {}
  BY <1>1, DestroyedInPlace DEF f, h
<1>13. f \in ToSet(frames[a])
  BY <1>4
<1>14. f.index \in DOMAIN list[a] /\ o \in alive[a]
  BY DEF f
<1>15. \A x \in ToSet(frames[a]) : x = f \/ x \in ToSet(frames'[a])
  BY <1>4, <1>6, <1>8
<1>16. \A x \in ToSet(frames'[a]) : x.call = "messageBox" \/ x \in ToSet(h)
  BY <1>7, <1>8
<1>17. \A x \in ToSet(h) : x \in ToSet(frames[a])
  BY <1>4
<1> QED BY <1>1, <1>2, <1>3, <1>8, <1>10, <1>11, <1>12, <1>13, <1>14, <1>15, <1>16, <1>17 DEF Shrunk, f, h

LEMMA DestroySessionGhost ==
  ASSUME GhostInv, NEW a \in Peers, DestroySession(a) PROVE GhostInv'
<1> DEFINE f == Last(frames[a])
           o == f.object
           t == o.id
           to == f.to \cap buddies[a]
<1>1. IInv /\ IInv' /\ StartedInv /\ LinesInv
  BY DestroySessionIInv DEF GhostInv
<1>2. CASE ~(o \in alive[a] /\ f.index \in DOMAIN list[a])
  <2>1. UNCHANGED <<master, list, alive, collaborators, buddies, asked, chan, frames, nested>>
    BY <1>2 DEF DestroySession
  <2> QED BY <1>1, <2>1, GhostCalls
<1>3. CASE o \in alive[a] /\ f.index \in DOMAIN list[a]
  <2>0. Shrunk(a, f, o)
    BY <1>1, <1>3, DestroyedGhost
  <2> HIDE DEF f, o
  <2>1. /\ f \in Frames /\ f.call = "destroySession" /\ f.object = o /\ o \in Objects /\ f.event \in Packets
        /\ f \in ToSet(frames[a]) /\ o \in alive[a] /\ f.index \in DOMAIN list[a]
        /\ \A r \in Peers : r # a => list'[r] = list[r] /\ alive'[r] = alive[r] /\ frames'[r] = frames[r]
        /\ list'[a] = RemoveAt(list[a], f.index) /\ alive'[a] = alive[a] \ {o}
        /\ \A g \in ToSet(frames[a]) : g = f \/ g \in ToSet(frames'[a])
        /\ \A g \in ToSet(frames'[a]) : g.call = "messageBox" \/ g \in ToSet(Front(frames[a]))
        /\ \A g \in ToSet(Front(frames[a])) : g \in ToSet(frames[a])
        /\ \A r, q \in Peers, s \in Sessions :
             q \in collaborators'[r][s] <=> q \in collaborators[r][s] /\ ~(r = a /\ s = t /\ master[s] = a)
        /\ chan' = SendAll(chan, a, to, f.event)
        /\ UNCHANGED <<master, buddies, asked, nested>>
        /\ a \notin nested => list[a][f.index] = o /\ Destroying(Front(frames[a])) = {}
    BY <2>0 DEF Shrunk
  <2>2. /\ list \in [Peers -> Seq(Objects)] /\ list' \in [Peers -> Seq(Objects)] /\ chan \in Chans
        /\ buddies \in [Peers -> SUBSET Peers]
    BY <1>1, IInvParts DEF Types, IInv, TypeOK
  <2>3. t \in Sessions
    BY <2>1 DEF Objects
  <2>4. /\ master[t] # None
        /\ master[t] = a => f.event = Close(t) /\ buddies[a] \subseteq f.to
        /\ master[t] # a => f.to = {} \/ (f.event = Disjoin(t) /\ f.to = {master[t]})
    <3>1. Farewell(a, f)
      BY <1>1, <2>1 DEF StartedInv
    <3> QED BY <2>1, <3>1 DEF Farewell
  <2>5. /\ to = {} \/ f.event \in {Close(t), Disjoin(t)}
        /\ Close(t).id = t /\ Disjoin(t).id = t /\ Close(t) # Lost /\ Disjoin(t) # Lost
    BY <2>4 DEF Close, Disjoin, Lost
  <2>6. f.event # Lost \/ to = {}
    BY <2>5
  <2>7. to \subseteq buddies[a]
    OBVIOUS
  <2>8. \A q \in Peers \cap to : Addressed(f.event, a, q)
    <3>1. /\ Close(t).type = "close" /\ Close(t).id = t
          /\ Disjoin(t).type = "disjoin" /\ Disjoin(t).id = t
      BY DEF Close, Disjoin
    <3> QED BY <2>4, <3>1 DEF Addressed
  <2>9. \A x, y \in Peers : chan'[x][y] = IF x = a /\ y \in to THEN Append(chan[x][y], f.event) ELSE chan[x][y]
    BY <2>1, <2>2, SentIs
  <2>10. \A s : s # t => to = {} \/ f.event \notin About(s)
    BY <2>1, <2>5, NotAbout
  <2> HIDE DEF to, t
  <2>11. LinesOK(chan', buddies')
    <3>1. LinesOK(chan, buddies)
      BY <1>1, LinesInvIs
    <3>2. LinesOK(chan', buddies)
      BY <2>1, <2>2, <2>6, <2>7, <3>1, LinesSent
    <3> QED BY <2>1, <3>2
  <2>12. \A x, y \in Peers, s \in Sessions : x # a \/ s # t => Alike(chan[x][y], chan'[x][y], s)
    <3> SUFFICES ASSUME NEW x \in Peers, NEW y \in Peers, NEW s \in Sessions, x # a \/ s # t
                 PROVE  Alike(chan[x][y], chan'[x][y], s)
      OBVIOUS
    <3>1. x # a \/ y \notin to \/ f.event \notin About(s)
      BY <2>10
    <3> QED BY <2>1, <2>2, <3>1, AlikeAllSent
  <2>13. /\ ToSet(list'[a]) \subseteq ToSet(list[a])
         /\ \A j, k \in DOMAIN list'[a] : \E x, y \in DOMAIN list[a] :
              list'[a][j] = list[a][x] /\ list'[a][k] = list[a][y] /\ (x = y => j = k) /\ x # f.index
    <3>1. list[a] \in Seq(Objects)
      BY <2>2
    <3> QED BY <2>1, <3>1, DeletedFrom
  <2>14. \A r \in Peers : \A s : Known(r, s)' => Known(r, s)
    <3> SUFFICES ASSUME NEW r \in Peers, NEW s, NEW j \in DOMAIN list'[r], list'[r][j].id = s PROVE Known(r, s)
      BY DEF Known
    <3>1. CASE r = a
      BY <2>13, <3>1 DEF Known
    <3>2. CASE r # a
      BY <2>1, <3>2 DEF Known
    <3> QED BY <3>1, <3>2
  <2>15. StartedInv'
    <3>1. Directed(chan)'
      <4>1. Directed(chan)
        BY <1>1, StartedInvIs
      <4>2. Directed(chan')
        BY <2>1, <2>2, <2>8, <4>1, DirectedSent
      <4> QED BY <2>1, <4>2 DEF Directed, Addressed
    <3>2. Bidden'
      <4>1. \A g : g.call = "messageBox" => Farewell(a, g)
        BY DEF Farewell
      <4>2. \A r \in Peers : \A g \in ToSet(frames'[r]) : g \in ToSet(frames[r]) \/ Farewell(r, g)
        BY <2>1, <4>1
      <4> QED BY <1>1, <2>1, <4>2, BiddenKept
    <3>3. Mastered'
      <4>1. \A p \in Peers : \A x \in ToSet(list'[p]) : master'[x.id] # None
        BY <1>1, <2>1, <2>13 DEF StartedInv
      <4>2. ASSUME NEW p \in Peers \ nested', NEW i \in DOMAIN list'[p], NEW j \in DOMAIN list'[p],
                   list'[p][i].id = list'[p][j].id, master'[list'[p][i].id] = p
            PROVE  i = j
        <5>1. CASE p = a
          <6>1. PICK x, y \in DOMAIN list[a] :
                  list'[a][i] = list[a][x] /\ list'[a][j] = list[a][y] /\ (x = y => i = j)
            BY <2>13, <4>2, <5>1
          <6> QED BY <1>1, <2>1, <4>2, <5>1, <6>1 DEF StartedInv
        <5>2. CASE p # a
          BY <1>1, <2>1, <4>2, <5>2 DEF StartedInv
        <5> QED BY <5>1, <5>2
      <4> QED BY <4>1, <4>2 DEF Mastered
    <3>4. (StartedInv <=> Directed(chan) /\ Mastered /\ Bidden)'
      BY StartedInvIs, PTL
    <3> QED BY <3>1, <3>2, <3>3, <3>4
  <2>16. \A r \in Peers : r # a =>
           /\ \A x, s : Walks(r, x, s)' <=> Walks(r, x, s)
           /\ \A s : Leaving(r, s)' = Leaving(r, s) /\ (Silent(r, s)' <=> Silent(r, s))
           /\ \A s : Has(r, s)' = Has(r, s) /\ (Known(r, s)' <=> Known(r, s))
    <3> SUFFICES ASSUME NEW r \in Peers, r # a
                 PROVE  /\ \A x, s : Walks(r, x, s)' <=> Walks(r, x, s)
                        /\ \A s : Leaving(r, s)' = Leaving(r, s) /\ (Silent(r, s)' <=> Silent(r, s))
                        /\ \A s : Has(r, s)' = Has(r, s) /\ (Known(r, s)' <=> Known(r, s))
      OBVIOUS
    <3>1. list'[r] = list[r] /\ alive'[r] = alive[r] /\ frames'[r] = frames[r]
      BY <2>1
    <3>2. \A s : Has(r, s)' = Has(r, s) /\ (Known(r, s)' <=> Known(r, s))
      BY <3>1 DEF Has, Known
    <3> QED BY <3>1, <3>2, WalksElsewhere
  <2>17. ASSUME NEW p \in Peers \ nested', NEW q \in Peers \ nested', NEW s \in Sessions, p # q, master'[s] = p
         PROVE  GhostFree(p, q, s)'
    <3>1. /\ GhostFree(p, q, s) /\ p \in Peers /\ q \in Peers /\ master[s] = p
          /\ p \in Peers \ nested /\ q \in Peers \ nested
      BY <2>1, <2>17 DEF GhostInv
    <3>2. q \in buddies[p] <=> p \in buddies[q]
      BY <1>1, <3>1 DEF LinesInv
    <3>3. CASE p = a /\ s = t
      <4> DEFINE up == chan[q][p]
                 down == chan[p][q]
                 up2 == chan'[q][p]
                 down2 == chan'[p][q]
                 S == Has(q, s)
                 is == q \in collaborators[p][s]
                 linked == q \in buddies[p]
                 waits == s \in asked[q]
                 leaves == Leaving(q, s) # {}
                 silent == Silent(q, s)
                 hers == Walks(p, q, s)
                 his == Walks(q, p, s)
                 gone == ~Known(p, s)
                 is2 == q \in collaborators'[p][s]
                 hers2 == Walks(p, q, s)'
                 gone2 == ~Known(p, s)'
      <4>a. Free(up, down, S, is, linked, waits, leaves, silent, hers, his, gone, s)
        BY <3>1, FreeBefore
      <4>b. /\ is \in BOOLEAN /\ linked \in BOOLEAN /\ waits \in BOOLEAN /\ leaves \in BOOLEAN
            /\ silent \in BOOLEAN /\ hers \in BOOLEAN /\ his \in BOOLEAN /\ gone \in BOOLEAN
            /\ is2 \in BOOLEAN /\ hers2 \in BOOLEAN /\ gone2 \in BOOLEAN
        BY DEF Silent, Walks, Known
      <4>1. ~is2
        BY <2>1, <3>1, <3>3
      <4>2. Sure(gone2)
        <5>1. ASSUME NEW j \in DOMAIN list'[a], list'[a][j].id = s PROVE FALSE
          <6>1. PICK x \in DOMAIN list[a] : list'[a][j] = list[a][x] /\ x # f.index
            BY <2>13, <5>1
          <6>2. list[a][f.index].id = s
            BY <2>1, <3>1, <3>3 DEF t
          <6> QED BY <1>1, <2>1, <3>1, <3>3, <5>1, <6>1, <6>2 DEF StartedInv
        <5>2. ~Known(p, s)'
          BY <3>3, <5>1 DEF Known
        <5> QED BY <3>3, <5>2 DEF Sure
      <4>3. down \in Seq(Packets) /\ Told(linked, down, Close(s), down2) /\ up2 = up
        <5>1. q \in to <=> linked
          BY <2>4, <3>1, <3>3 DEF to
        <5>2. f.event = Close(s)
          BY <2>4, <3>1, <3>3
        <5>3. chan[p][q] \in Seq(Packets)
          BY <2>2, <3>1 DEF Chans
        <5> QED BY <2>9, <2>17, <3>1, <3>3, <5>1, <5>2, <5>3 DEF Told
      <4>c. /\ chan'[q][p] = up2 /\ chan'[p][q] = down2 /\ Has(q, s)' = S
            /\ q \in collaborators'[p][s] <=> is2
            /\ q \in buddies'[p] <=> linked
            /\ s \in asked'[q] <=> waits
            /\ Leaving(q, s)' # {} <=> leaves
            /\ Silent(q, s)' <=> silent
            /\ Walks(p, q, s)' <=> hers2
            /\ Walks(q, p, s)' <=> his
            /\ ~Known(p, s)' <=> gone2
        BY <2>1, <2>16, <2>17, <3>1, <3>3
      <4> HIDE DEF up, down, up2, down2, S, is, linked, waits, leaves, silent, hers, his, gone, is2, hers2, gone2
      <4>d. Free(up, down2, S, is2, linked, waits, leaves, silent, hers2, his, gone2, s)
        BY <4>a, <4>b, <4>1, <4>2, <4>3, FreeOver
      <4>e. Free(up2, down2, S, is2, linked, waits, leaves, silent, hers2, his, gone2, s)
        BY <4>d, <4>3
      <4> QED BY <4>b, <4>c, <4>e, FreeAfter
    <3>4. CASE q = a /\ s = t
      <4> DEFINE up == chan[q][p]
                 down == chan[p][q]
                 up2 == chan'[q][p]
                 down2 == chan'[p][q]
                 S == Has(q, s)
                 is == q \in collaborators[p][s]
                 linked == q \in buddies[p]
                 waits == s \in asked[q]
                 leaves == Leaving(q, s) # {}
                 silent == Silent(q, s)
                 hers == Walks(p, q, s)
                 his == Walks(q, p, s)
                 gone == ~Known(p, s)
                 S2 == Has(q, s)'
                 his2 == Walks(q, p, s)'
                 leaves2 == Leaving(q, s)' # {}
                 silent2 == Silent(q, s)'
      <4>a. Free(up, down, S, is, linked, waits, leaves, silent, hers, his, gone, s)
        BY <3>1, FreeBefore
      <4>b. /\ is \in BOOLEAN /\ linked \in BOOLEAN /\ waits \in BOOLEAN /\ leaves \in BOOLEAN
            /\ silent \in BOOLEAN /\ hers \in BOOLEAN /\ his \in BOOLEAN /\ gone \in BOOLEAN
            /\ his2 \in BOOLEAN /\ leaves2 \in BOOLEAN /\ silent2 \in BOOLEAN
        BY DEF Silent, Walks, Known
      <4>1. S # {} /\ Void(S2)
        <5>1. Once(up, down, S, s)
          BY <4>a DEF Free
        <5>2. \A x, y \in S : x = y
          BY <5>1 DEF Once
        <5>3. o \in alive[q] /\ o.id = s /\ alive'[q] = alive[q] \ {o}
          BY <2>1, <3>4 DEF t
        <5>4. o \in S /\ S2 = S \ {o}
          BY <5>3 DEF Has
        <5> QED BY <5>2, <5>4 DEF Void
      <4>2. ~silent2
        <5> SUFFICES ASSUME NEW g \in ToSet(frames'[a]), g.call = "destroySession" PROVE FALSE
          BY <3>4 DEF Silent, Leaving
        <5>1. g \in ToSet(Front(frames[a]))
          BY <2>1
        <5>2. PICK i \in DOMAIN Front(frames[a]) : Front(frames[a])[i] = g
          BY <5>1 DEF ToSet
        <5> QED BY <2>1, <3>1, <3>4, <5>2 DEF Destroying
      <4>3. up \in Seq(Packets)
        BY <2>2, <3>1 DEF Chans
      <4>6. down2 = down
        BY <2>9, <2>17, <3>1, <3>4
      <4>4. CASE p \in buddies[a] /\ f.to # {}
        <5>1. p \in to /\ f.event = Disjoin(s)
          BY <2>4, <2>17, <3>1, <3>4, <4>4 DEF to
        <5>2. Sent(up, Disjoin(s), up2)
          BY <2>9, <3>1, <3>4, <5>1 DEF Sent
        <5>c. /\ chan'[q][p] = up2 /\ chan'[p][q] = down2 /\ Has(q, s)' = S2
              /\ q \in collaborators'[p][s] <=> is
              /\ q \in buddies'[p] <=> linked
              /\ s \in asked'[q] <=> waits
              /\ Leaving(q, s)' # {} <=> leaves2
              /\ Silent(q, s)' <=> silent2
              /\ Walks(p, q, s)' <=> hers
              /\ Walks(q, p, s)' <=> his2
              /\ ~Known(p, s)' <=> gone
          BY <2>1, <2>16, <2>17, <3>1, <3>4
        <5> HIDE DEF up, down, up2, down2, S, is, linked, waits, leaves, silent, hers, his, gone, S2, his2,
                     leaves2, silent2
        <5>d. Free(up2, down, S2, is, linked, waits, leaves2, silent2, hers, his2, gone, s)
          BY <4>a, <4>b, <4>1, <4>2, <4>3, <5>2, FreeLeft
        <5>e. Free(up2, down2, S2, is, linked, waits, leaves2, silent2, hers, his2, gone, s)
          BY <5>d, <4>6
        <5> QED BY <4>b, <5>c, <5>e, FreeAfter
      <4>5. CASE ~(p \in buddies[a] /\ f.to # {})
        <5>1. ~linked \/ ~is
          <6> SUFFICES ASSUME linked, is PROVE FALSE
            OBVIOUS
          <6>1. f.to = {}
            BY <3>2, <3>4, <4>5
          <6>2. f \in Leaving(q, s)
            BY <2>1, <3>4 DEF Leaving, t
          <6>3. silent
            BY <6>1, <6>2 DEF Silent
          <6>4. gone
            BY <4>a, <6>3 DEF Free
          <6>5. Known(p, s)
            BY <1>1, <3>1, CountedKnown
          <6> QED BY <6>4, <6>5
        <5>2. up2 = up
          <6>1. p \notin to
            BY <4>5 DEF to
          <6> QED BY <2>9, <3>1, <3>4, <6>1
        <5>c. /\ chan'[q][p] = up2 /\ chan'[p][q] = down2 /\ Has(q, s)' = S2
              /\ q \in collaborators'[p][s] <=> is
              /\ q \in buddies'[p] <=> linked
              /\ s \in asked'[q] <=> waits
              /\ Leaving(q, s)' # {} <=> leaves2
              /\ Silent(q, s)' <=> silent2
              /\ Walks(p, q, s)' <=> hers
              /\ Walks(q, p, s)' <=> his2
              /\ ~Known(p, s)' <=> gone
          BY <2>1, <2>16, <2>17, <3>1, <3>4
        <5> HIDE DEF up, down, up2, down2, S, is, linked, waits, leaves, silent, hers, his, gone, S2, his2,
                     leaves2, silent2
        <5>d. Free(up, down, S2, is, linked, waits, leaves2, silent2, hers, his2, gone, s)
          BY <4>a, <4>b, <4>1, <4>2, <5>1, FreeLeftSilently
        <5>e. Free(up2, down2, S2, is, linked, waits, leaves2, silent2, hers, his2, gone, s)
          BY <5>d, <4>6, <5>2
        <5> QED BY <4>b, <5>c, <5>e, FreeAfter
      <4> QED BY <4>4, <4>5
    <3>5. CASE (p = a \/ q = a) /\ s # t
      <4>1. Alike(chan[q][p], chan'[q][p], s) /\ Alike(chan[p][q], chan'[p][q], s)
        BY <2>12, <3>1, <3>5
      <4>2. Has(q, s)' = Has(q, s)
        <5>1. CASE q = a
          BY <2>1, <3>5, <5>1 DEF Has, t
        <5>2. CASE q # a
          BY <2>16, <3>1, <5>2
        <5> QED BY <5>1, <5>2
      <4>3. q \in collaborators'[p][s] <=> q \in collaborators[p][s]
        BY <2>1, <3>1, <3>5
      <4>4. \A r \in {p, q} : Stays(r, s)
        <5> SUFFICES ASSUME NEW r \in {p, q} PROVE Stays(r, s)
          OBVIOUS
        <5>1. CASE r = a
          <6>1. list[a][f.index].id # s
            BY <2>1, <3>1, <3>5 DEF t
          <6> QED BY <1>1, <2>1, <5>1, <6>1, StaysDeleted
        <5>2. CASE r # a
          BY <1>1, <2>1, <3>1, <5>2, StaysSame
        <5> QED BY <5>1, <5>2
      <4>5. \A r \in {p, q} : \A g \in ToSet(frames[r]) :
              g.call = "removeBuddy" \/ (g.call = "destroySession" /\ g.object.id = s) => g \in ToSet(frames'[r])
        BY <2>1, <3>1, <3>5 DEF t
      <4>6. \A g \in ToSet(frames'[q]) \ ToSet(frames[q]) :
              g.call = "destroySession" /\ g.object.id = s => g.to # {}
        <5>1. \A g \in ToSet(frames'[q]) \ ToSet(frames[q]) : g.call = "messageBox"
          BY <2>1, <3>1
        <5> QED BY <5>1
      <4> QED BY <1>1, <2>1, <2>2, <2>14, <3>1, <4>1, <4>2, <4>3, <4>4, <4>5, <4>6, GhostMore
    <3>6. CASE p # a /\ q # a
      <4>1. Alike(chan[q][p], chan'[q][p], s) /\ Alike(chan[p][q], chan'[p][q], s)
        BY <2>12, <3>1, <3>6
      <4>2. q \in collaborators'[p][s] <=> q \in collaborators[p][s]
        BY <2>1, <3>1, <3>6
      <4>3. \A r \in {p, q} : list'[r] = list[r] /\ frames'[r] = frames[r] /\ alive'[r] = alive[r]
        BY <2>1, <3>1, <3>6
      <4> QED BY <1>1, <2>1, <2>2, <3>1, <4>1, <4>2, <4>3, GhostStill
    <3> QED BY <3>3, <3>4, <3>5, <3>6
  <2> QED BY <1>1, <2>11, <2>15, <2>17, GhostInvAfter
<1> QED BY <1>2, <1>3
----------------------------------------------------------------------------
(* Theorems *)

LEMMA InitGhostInv == Init => GhostInv
<1> SUFFICES ASSUME Init PROVE GhostInv
  OBVIOUS
<1>1. IInv
  BY InitIInv
<1>2. \A p \in Peers : list[p] = <<>> /\ alive[p] = {} /\ frames[p] = <<>> /\ asked[p] = {}
                       /\ \A s \in Sessions : collaborators[p][s] = {}
  BY DEF Init
<1>3. \A p, q \in Peers : chan[p][q] = <<>>
  BY DEF Init
<1>4. \A m : At(<<>>, m) = {}
  BY AtNothing
<1>5. ToSet(<<>>) = {}
  BY DEF ToSet
<1>6. LinesInv
  <2>1. \A p, q \in Peers : q \in buddies[p] <=> {p, q} \in Links
    BY DEF Init
  <2>2. \A p, q : {p, q} = {q, p} /\ {p, p} = {p}
    OBVIOUS
  <2>3. ASSUME NEW p \in Peers PROVE p \notin buddies[p] /\ chan[p][p] = <<>>
    <3>1. p \in buddies[p] <=> {p} \in Links
      BY <2>1
    <3>2. {p} \notin Links
      BY LinksAssumption
    <3> QED BY <1>3, <3>1, <3>2
  <2>4. \A p, q \in Peers : (q \in buddies[p] => p \in buddies[q]) /\ Line(chan[p][q], q \in buddies[p])
    BY <1>3, <1>4, <2>1, <2>2 DEF Line
  <2> QED BY <2>3, <2>4 DEF LinesInv
<1>7. StartedInv
  <2>1. \A p \in Peers : DOMAIN list[p] = {}
    BY <1>2, EmptySeq
  <2> QED BY <1>2, <1>3, <1>5, <2>1 DEF StartedInv
<1>8. ASSUME NEW p \in Peers, NEW q \in Peers, NEW s \in Sessions PROVE GhostFree(p, q, s)
  <2>1. Has(q, s) = {} /\ Leaving(q, s) = {} /\ q \notin collaborators[p][s]
    BY <1>2, <1>5 DEF Has, Leaving
  <2>2. \A m : At(chan[q][p], m) = {} /\ At(chan[p][q], m) = {}
    BY <1>3, <1>4
  <2>3. Once(chan[q][p], chan[p][q], Has(q, s), s)
    BY <2>1, <2>2 DEF Once
  <2>4. Awaiting(chan[q][p], chan[p][q], q \in buddies[p], s \in asked[q], s)
    BY <2>2 DEF Awaiting
  <2>5. Member(chan[q][p], chan[p][q], Has(q, s), q \in collaborators[p][s], q \in buddies[p], Leaving(q, s) # {}, s)
    BY <2>1, <2>2 DEF Member
  <2>6. Parted(chan[q][p], chan[p][q], Has(q, s), q \in collaborators[p][s], q \in buddies[p], Leaving(q, s) # {},
               Walks(p, q, s), Walks(q, p, s))
    BY <2>1 DEF Parted
  <2> QED BY <2>1, <2>2, <2>3, <2>4, <2>5, <2>6 DEF GhostFree, Has
<1> QED BY <1>1, <1>6, <1>7, <1>8 DEF GhostInv

LEMMA NextGhostInv ==
  ASSUME ~Impatient, GhostInv, [Next]_vars PROVE GhostInv'
<1>1. CASE \E p \in Peers : Calls(p)
  BY <1>1, RemoveBuddyGhost, RemoveBuddyReturnsGhost, DisconnectSessionsGhost, DestroySessionGhost DEF Calls
<1>2. CASE \E p \in Peers : Dismiss(p) \/ \E o \in saving[p] : SaveCb(p, o)
  BY <1>2, DismissGhost, SaveGhost
<1>3. CASE \E p, q \in Peers : Handle(p, q)
  BY <1>3, HandleStartGhost, HandleJoinRequestGhost, HandleJoinResponseGhost, HandleDisjoinGhost,
     HandleCloseGhost, HandleLostGhost DEF Handle
<1>4. CASE \E p, q \in Peers : Break(p, q) \/ Gone(p, q)
  BY <1>4, BreakGhost
<1>5. CASE \E p \in Peers : Users(p)
  BY <1>5, StartSessionGhost, AskToJoinGhost, DisconnectSessionGhost, SaveGhost, QuitGhost DEF Users
<1>6. CASE UNCHANGED vars
  <2>1. IInv'
    BY <1>6, NextIInv DEF GhostInv
  <2>2. UNCHANGED <<master, list, alive, collaborators, buddies, asked, chan, frames, nested>>
    BY <1>6 DEF vars
  <2> QED BY <2>1, <2>2, GhostCalls
<1> QED BY <1>1, <1>2, <1>3, <1>4, <1>5, <1>6 DEF Next, System

(* When users wait for an answer before they ask again, no step breaks what *)
(* masters and slaves make of one another.                                  *)
THEOREM GhostInvInductive ==
  ASSUME ~Impatient PROVE (Init => GhostInv) /\ (GhostInv /\ [Next]_vars => GhostInv')
BY InitGhostInv, NextGhostInv

(* So the difference between the two is always what is under way between    *)
(* them: requests, answers, farewells, the end of the connection, and the   *)
(* calls that are going to leave a session or cross a buddy off.            *)
THEOREM AlwaysGhostInv ==
  ASSUME ~Impatient PROVE Spec => []GhostInv
<1>1. Init => GhostInv
  BY InitGhostInv
<1>2. GhostInv /\ [Next]_vars => GhostInv'
  BY NextGhostInv
<1> QED BY <1>1, <1>2, PTL DEF Spec

LEMMA GhostInvNoGhosts == GhostInv => NoGhosts
<1> SUFFICES ASSUME GhostInv, NEW p \in Peers \ nested, NEW q \in Peers \ nested, p # q, Settled(p), Settled(q),
                    chan[p][q] = <<>>, chan[q][p] = <<>>, NEW s \in Sessions, master[s] = p
             PROVE  /\ q \in collaborators[p][s] <=> \E o \in alive[q] : o.id = s
                    /\ q \in collaborators[p][s] => q \in buddies[p]
  BY DEF NoGhosts
<1>1. GhostFree(p, q, s)
  BY DEF GhostInv
<1>2. \A m : At(chan[p][q], m) = {} /\ At(chan[q][p], m) = {}
  BY AtNothing
<1>3. ~Walks(p, q, s) /\ ~Walks(q, p, s) /\ Leaving(q, s) = {}
  <2>1. ToSet(frames[p]) = {} /\ ToSet(frames[q]) = {}
    BY DEF Settled, ToSet
  <2> QED BY <2>1 DEF Walks, Leaving
<1>4. CASE q \in buddies[p]
  <2>1. q \in collaborators[p][s] <=> Has(q, s) # {}
    BY <1>1, <1>2, <1>3, <1>4 DEF GhostFree, Member, Has
  <2> QED BY <1>4, <2>1 DEF Has
<1>5. CASE q \notin buddies[p]
  <2>1. q \notin collaborators[p][s] /\ Has(q, s) = {}
    BY <1>1, <1>2, <1>3, <1>5 DEF GhostFree, Parted, Has
  <2> QED BY <2>1 DEF Has
<1> QED BY <1>4, <1>5

(* However joining, leaving, closing and losing the connection cross on the *)
(* wire, nobody sends changes to a ghost, and nobody edits a document whose *)
(* session is over: joinSession, destroySession, removeBuddy and            *)
(* processPacket, for any number of peers and sessions.                     *)
THEOREM AlwaysNoGhosts ==
  ASSUME ~Impatient PROVE Spec => []NoGhosts
<1>1. GhostInv => NoGhosts
  BY GhostInvNoGhosts
<1>2. Spec => []GhostInv
  BY AlwaysGhostInv
<1> QED BY <1>1, <1>2, PTL
=============================================================================
