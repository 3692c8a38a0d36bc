------------------------- MODULE MCSessionManager --------------------------
(***************************************************************************)
(* SessionManager on small instances; the .cfg files give the rest.        *)
(***************************************************************************)
EXTENDS SessionManager

CONSTANTS hub, left, right, doc, paper

(* A TCP server with two clients *)
Star == {{hub, left}, {hub, right}}

(* The server or one client shares a document, the other client has one on  *)
(* abicollab.net.                                                           *)
Hosting == {<<hub, doc>>, <<right, doc>>, <<left, paper>>}
============================================================================
