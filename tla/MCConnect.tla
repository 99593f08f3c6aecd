----------------------------- MODULE MCConnect -----------------------------
(* TLC instances of connection establishment: two DH groups of which the   *)
(* ePDGs want the second.  The algorithms the handshake negotiates and the *)
(* choice of the ePDG by the socket are checked beside it, over their own  *)
(* inputs.                                                                 *)
EXTENDS Connect, Proposals, UDPSocket

CONSTANTS g1, g2

Groups == {g1, g2}

(* RekeyIKESA: however the session was configured and whatever suite was   *)
(* negotiated, the IKE rekey an hour later offers it.  (It depends on no   *)
(* variable: the run checks it at its first step.)                         *)
RekeyOffersTheSuite == [][EveryIKESuiteOfferedAgain]_vars

(* While an attempt has its socket, whatever was sent and heard on it so   *)
(* far, in whatever order, it hears and talks to one of the ePDG's         *)
(* addresses from the first answer on.                                     *)
OneServer == sockOpen => OneServerInEveryHistory
=============================================================================
