------------------------------ MODULE MCRekey ------------------------------
(* TLC instances of key rotation: the two timers and the goroutine of an   *)
(* expire event against one dispatcher.                                    *)
EXTENDS Rekey
=============================================================================
