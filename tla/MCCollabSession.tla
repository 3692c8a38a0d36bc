-------------------------- MODULE MCCollabSession --------------------------
(***************************************************************************)
(* CollabSession on small instances; the .cfg files give the constants.    *)
(* The documents have few characters, as many as the users need to edit    *)
(* next to, apart from and on top of one another.                          *)
(***************************************************************************)
EXTENDS CollabSession

(* The spans a run lets its users insert and delete are no longer than its  *)
(* document, so that every change can overlap every other.                 *)
ASSUME LengthsAssumption == \A n \in Lengths : n <= InitLen
============================================================================
