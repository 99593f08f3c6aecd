---------------------------- MODULE MCDataPlane ----------------------------
(* TLC instance of the data plane: two sessions on a host with two         *)
(* addresses, and one ePDG; over their own inputs, the traffic selectors.  *)
EXTENDS DataPlane, Selectors

Symmetry == Permutations(Session) \cup Permutations(Local)

(* The routes of a session whose data plane is up agree with its           *)
(* selectors on what goes into the tunnel, whatever the ePDG assigned.     *)
RoutesMatchSelectors ==
    (\E s \in Session : phase[s] = "ready") => EverySelectorRouted
=============================================================================
