---------------------------- MODULE FifoChannel ----------------------------
(***************************************************************************)
(* What the session code assumes of a backend: the packets one peer sends  *)
(* to another are handled there once, in order and all of them, until the  *)
(* receiver drops the sender from his list of buddies; from then on he     *)
(* handles none. CollabSession and SessionTakeover build on this queue.    *)
(***************************************************************************)
EXTENDS Naturals, Sequences

CONSTANT Packets          (* what can be sent *)

VARIABLES
  sent,                   (* packets given to the backend, in order *)
  received,               (* packets handed to the session code, in order *)
  known                   (* the receiver still has the sender as a buddy *)

vars == <<sent, received, known>>

Init ==
  /\ sent = <<>>
  /\ received = <<>>
  /\ known = TRUE

(* AccountHandler::send *)
Send ==
  /\ \E p \in Packets : sent' = Append(sent, p)
  /\ UNCHANGED <<received, known>>

(* AccountHandler::handleMessage, with the oldest packet not handled yet *)
Deliver ==
  /\ known
  /\ Len(received) < Len(sent)
  /\ received' = Append(received, sent[Len(received) + 1])
  /\ UNCHANGED <<sent, known>>

(* AccountHandler::deleteBuddy *)
Drop ==
  /\ known
  /\ known' = FALSE
  /\ UNCHANGED <<sent, received>>

Next == Send \/ Deliver \/ Drop

(* What may happen ...                                                     *)
Safety == Init /\ [][Next]_vars

(* ... and what has to: nothing sent waits for ever.                       *)
Delivery == WF_vars(Deliver)
Spec == Safety /\ Delivery
============================================================================
