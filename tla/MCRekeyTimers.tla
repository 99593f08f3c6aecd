--------------------------- MODULE MCRekeyTimers ---------------------------
(* TLC instance of the rekey timers. *)
EXTENDS RekeyTimers
=============================================================================
