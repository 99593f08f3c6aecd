---------------------------- MODULE MCLifecycle ----------------------------
(* TLC instance of the session's life: two sessions under one ID, the      *)
(* first with two sockets, so that it is redirected, reauthenticated or    *)
(* moved once.                                                             *)
EXTENDS Lifecycle
=============================================================================
