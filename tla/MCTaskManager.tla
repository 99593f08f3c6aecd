--------------------------- MODULE MCTaskManager ---------------------------
(* TLC instance of the request window: more requests than message IDs, and *)
(* more message IDs than slots, so IDs are reused and the queue fills.     *)
EXTENDS TaskManager, TLC

Symmetry == Permutations(Request) \cup Permutations(MsgID)
=============================================================================
