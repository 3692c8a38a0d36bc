--------------------------- MODULE MCTcpSession ----------------------------
(***************************************************************************)
(* TcpSession on small instances; the .cfg files give the constants.       *)
(***************************************************************************)
EXTENDS TcpSession

(* One packet can be pushed while another is written and a third is read.  *)
ASSUME SendsAssumption == MaxSends >= 3
============================================================================
