--------------------------- MODULE MCIKERequests ---------------------------
(* TLC instances of the callers: the handshake, where one goroutine sends  *)
(* everything, and the established session, where several do.              *)
EXTENDS IKERequests

CONSTANTS r1, r2, r3

TwoGoroutines == {{r1, r2}, {r3}}
OneGoroutine == {{r1, r2, r3}}
IDs == 0..MaxID
=============================================================================
