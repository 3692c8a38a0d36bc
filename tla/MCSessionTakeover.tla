------------------------- MODULE MCSessionTakeover -------------------------
(***************************************************************************)
(* SessionTakeover on small instances; the .cfg files give the constants.  *)
(***************************************************************************)
EXTENDS SessionTakeover

(* Somebody can take over, and somebody else has to follow. *)
ASSUME FollowersAssumption == Cardinality(Slaves) > MaxTakeovers
============================================================================
