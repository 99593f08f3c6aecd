-------------------------- MODULE MCFragmentation --------------------------
(* TLC instance of fragmentation: the reassembly of what the peer sends,   *)
(* and, over its own inputs, the cutting of the requests the session sends.*)
EXTENDS Fragmentation, FragmentCut

(* GCM and CBC, with blocks of four bytes. *)
SmallSuites ==
    {[aead |-> TRUE, iv |-> 1, icv |-> 2, block |-> 4],
     [aead |-> FALSE, iv |-> 4, icv |-> 2, block |-> 4]}

(* fragmentMessage: whatever request is sent in fragments, the ePDG puts   *)
(* together what was cut, but for the bytes that CBC padding overwrites.   *)
(* (It depends on no variable: the run checks it at its first step.)       *)
PeerReassembles == [][EveryMessageReassembles]_vars
=============================================================================
