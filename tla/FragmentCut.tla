---------------------------- MODULE FragmentCut ----------------------------
(***************************************************************************)
(* The outgoing side of IKE fragmentation (fragment.go), which only the    *)
(* requests of sendEncryptedWithRetry go through: answers are sent whole   *)
(* (sendEncryptedResponseWithMsgID).  fragmentMessage cuts the serialised  *)
(* payloads into chunks that fit the path, buildSKFPacket pads, encrypts   *)
(* and wraps each.  What the encryption does to a chunk is left out, what  *)
(* the padding does to the slice the chunk was cut from is not: append     *)
(* writes behind the chunk, into the backing array, if that has room.      *)
(*                                                                         *)
(* The sizes are parameters, so that small ones can stand for the real     *)
(* ones (ikeOverhead 64, blocks of 16 bytes, an MTU of 500 to 1280).       *)
(***************************************************************************)
EXTENDS Integers, Sequences

CONSTANTS
    ikeOverhead, maxFragments,      \* as in fragment.go
    Suites,                         \* ciphers: [aead, iv, icv, block]
    MTUs,                           \* values of s.ikeFragmentMTU
    MaxLength,                      \* bound on the length of a message
    MaxSpare                        \* bound on the unused room of its array

ASSUME CutAssumption ==
    /\ {ikeOverhead, maxFragments, MaxLength, MaxSpare} \subseteq Nat
    /\ Suites \subseteq [aead : BOOLEAN, iv : Nat, icv : Nat, block : Nat \ {0}]
    /\ MTUs \subseteq Nat
    /\ \A s \in Suites, mtu \in MTUs : mtu > ikeOverhead + s.iv + s.icv + s.block

(* maxPlaintextPerFrag: a block is kept back for the padding of CBC. *)
maxPlaintextPerFrag(s, mtu) ==
    mtu - ikeOverhead - s.iv - s.icv - (IF s.aead THEN 0 ELSE s.block)

(* Mutant: what does not fill a fragment is forgotten. *)
numFragsFull(s, mtu, length) == length \div maxPlaintextPerFrag(s, mtu)

numFrags(s, mtu, length) ==
    (length + maxPlaintextPerFrag(s, mtu) - 1) \div maxPlaintextPerFrag(s, mtu)

(* A message in one piece is left to encryptAndWrap, one in too many       *)
(* pieces is refused.                                                      *)
fragmented(s, mtu, length) == numFrags(s, mtu, length) \in 2..maxFragments

(* The chunk of fragment i begins behind cut(i - 1) and ends at cut(i). *)
cut(s, mtu, length, i) ==
    LET end == i * maxPlaintextPerFrag(s, mtu) IN IF end > length THEN length ELSE end

(* The chunk, the padding and a byte with its length fill whole blocks. *)
padLen(s, chunkLen) == (s.block - ((chunkLen + 1) % s.block)) % s.block

(* buildSKFPacket for the chunk from..to of array: what is encrypted, and  *)
(* what the two appends leave in the array.  An append with no room there  *)
(* moves to an array of its own.                                           *)
Pad == 0
buildSKFPacket(s, array, from, to) ==
    LET pad == padLen(s, to - from + 1)
        padded == to + pad <= Len(array)
        written == IF s.aead \/ ~padded THEN {}
                   ELSE (to + 1)..(IF to + pad < Len(array) THEN to + pad + 1 ELSE to + pad)
    IN [sent |-> SubSeq(array, from, to),
        array |-> [p \in 1..Len(array) |-> IF p \in written THEN Pad ELSE array[p]]]

(* The message is 1, 2, ... length; the rest of its array is unused. *)
innerData(length, spare) ==
    [p \in 1..(length + spare) |-> IF p <= length THEN p ELSE Pad]

(* One turn of the loop of fragmentMessage: fragment i is built from what  *)
(* the earlier ones left in the array.                                     *)
buildFragment(s, mtu, length, i, before) ==
    LET r == buildSKFPacket(s, before.array, cut(s, mtu, length, i - 1) + 1,
                            cut(s, mtu, length, i))
    IN [array |-> r.array, sent |-> before.sent \o r.sent]

(* fragmentMessage: the plaintext of all fragments, which the peer strips  *)
(* of the padding and puts together in order.                              *)
fragmentMessage(s, mtu, length, spare) ==
    LET n == numFrags(s, mtu, length)
        built[i \in 0..n] ==
            IF i = 0 THEN [array |-> innerData(length, spare), sent |-> <<>>]
            ELSE buildFragment(s, mtu, length, i, built[i - 1])
    IN built[n].sent

(* The size of the IP packet with fragment i, without the marker that      *)
(* SendIKE puts before a packet to port 4500.                              *)
packetSize(s, mtu, length, i) ==
    LET chunk == cut(s, mtu, length, i) - cut(s, mtu, length, i - 1)
    IN ikeOverhead + s.iv + s.icv
        + (IF s.aead THEN chunk ELSE chunk + padLen(s, chunk) + 1)

-----------------------------------------------------------------------------
(* The bytes that the padding of fragments 1..n-1 may have overwritten. *)
Hit(s, mtu, length) ==
    UNION {LET end == cut(s, mtu, length, i)
           IN (end + 1)..(end + padLen(s, maxPlaintextPerFrag(s, mtu)) + 1)
           : i \in 1..(numFrags(s, mtu, length) - 1)}

(* Of a request sent in fragments the ePDG puts together exactly what was  *)
(* cut, at every length around a multiple of the fragment's, and no        *)
(* fragment exceeds the path MTU.  With CBC the padding of a fragment      *)
(* overwrites the start of the next chunk before that is encrypted: only   *)
(* these bytes, and no others, arrive changed.                             *)
EveryMessageReassembles ==
    \A s \in Suites, mtu \in MTUs, length \in 0..MaxLength, spare \in 0..MaxSpare :
        fragmented(s, mtu, length) =>
            LET got == fragmentMessage(s, mtu, length, spare)
            IN /\ Len(got) = length
               /\ \A p \in 1..length :
                    got[p] = p \/ (~s.aead /\ p \in Hit(s, mtu, length))
               /\ \A i \in 1..numFrags(s, mtu, length) : packetSize(s, mtu, length, i) <= mtu
=============================================================================
