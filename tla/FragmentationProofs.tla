------------------------ MODULE FragmentationProofs ------------------------
(***************************************************************************)
(* TLAPS proofs about fragmentation: the receiving side for any number of  *)
(* messages, cuts, resends and IKE rekeys, and the cutting of a message of *)
(* any length for any cipher and path MTU: no packet is too long, and the  *)
(* peer puts together what was sent.                                       *)
(***************************************************************************)
EXTENDS MCFragmentation, FiniteSetTheorems, SequenceTheorems, WellFoundedInduction, TLAPS

(* The least element of a set of natural numbers: what inductions rest on  *)
(* here.                                                                   *)
Less == {p \in Nat \X Nat : p[1] < p[2]}

LEMMA LeastElement ==
    ASSUME NEW T, T \subseteq Nat, T # {}
    PROVE  \E n \in T : \A m \in T : n <= m
<1>1. IsWellFoundedOn(Less, Nat)
  BY NatLessThanWellFounded DEF OpToRel, Less
<1>2. PICK x \in T : \A y \in T : <<y, x>> \notin Less
  BY <1>1, WFMin
<1>3. ASSUME NEW y \in T PROVE x <= y
  <2>1. x \in Nat /\ y \in Nat /\ <<y, x>> \notin Less
    BY <1>2
  <2> QED
    BY <2>1 DEF Less
<1> QED
  BY <1>3

(* A chunk of a sequence, from behind position b up to position e. *)
LEMMA ChunkOf ==
    ASSUME NEW S, NEW a \in Seq(S), NEW b \in Nat, NEW e \in Nat, b < e, e <= Len(a)
    PROVE  /\ SubSeq(a, b + 1, e) \in Seq(S) /\ Len(SubSeq(a, b + 1, e)) = e - b
           /\ \A k \in 1..(e - b) : SubSeq(a, b + 1, e)[k] = a[b + k]
OBVIOUS

(* What buildSKFPacket may have sent. *)
Fragment == {f \in [msg : Message, num : Nat, total : Totals] : f.num \in 1..f.total}

(* Pieces of a cut into t of messages with this ID, each in its place. *)
PiecesOf(id, t, received) ==
    /\ DOMAIN received \subseteq 1..t
    /\ received = [i \in DOMAIN received |-> received[i]]
    /\ \A i \in DOMAIN received :
        /\ received[i] \in Fragment
        /\ received[i].num = i /\ received[i].total = t
        /\ received[i].msg.id = id

(* A fragmentSet between two calls of addFragment lacks a piece. *)
OpenSet(id, fs) ==
    /\ fs.total \in Totals
    /\ fs = [total |-> fs.total, received |-> fs.received]
    /\ PiecesOf(id, fs.total, fs.received)
    /\ DOMAIN fs.received # 1..fs.total

TypeOK ==
    /\ gen \in 0..MaxGen
    /\ net \subseteq Fragment /\ arrived \subseteq Fragment
    /\ claimed \subseteq Message /\ parsed \subseteq Message
    /\ ikePending \subseteq MsgID

FInv ==
    /\ TypeOK
    /\ frags = [id \in MsgID |-> frags[id]]
    /\ \A id \in MsgID : frags[id] # None => OpenSet(id, frags[id])
    /\ assembled # None =>
        \E id \in MsgID, t \in Totals :
            PiecesOf(id, t, assembled) /\ DOMAIN assembled = 1..t
-----------------------------------------------------------------------------
USE TotalsAssumption, LimitAssumption, KindAssumption

(* fragmentMessage numbers the pieces of a cut from 1. *)
LEMMA FragmentsOfType ==
    ASSUME NEW m \in Message, NEW t \in Totals
    PROVE  fragmentsOf(m, t) \subseteq Fragment
BY DEF fragmentsOf, Fragment

(* received[num] = f adds a piece in its place. *)
LEMMA StoreLemma ==
    ASSUME NEW id, NEW t \in Totals, NEW received, PiecesOf(id, t, received),
           NEW f \in Fragment, f.msg.id = id, f.total = t
    PROVE  /\ PiecesOf(id, t, store(received, f))
           /\ DOMAIN store(received, f) = DOMAIN received \cup {f.num}
BY DEF PiecesOf, store, Fragment

(* len(received) == total says that every piece is there. *)
LEMMA CompleteByCount ==
    ASSUME NEW t \in Nat, NEW D, D \subseteq 1..t
    PROVE  Cardinality(D) = t <=> D = 1..t
<1>1. IsFiniteSet(1..t) /\ Cardinality(1..t) = t
  BY FS_Interval
<1> QED
  BY <1>1, FS_Subset

(* addFragment works on an open set, whatever it found under the ID. *)
LEMMA OpenSetLemma ==
    ASSUME FInv, NEW f \in Fragment
    PROVE  OpenSet(f.msg.id, openSet(f))
<1> DEFINE id == f.msg.id
<1>1. id \in MsgID /\ f.total \in Totals /\ f.total \in Nat \ {0, 1}
  BY DEF Fragment, Message
<1>2. CASE frags[id] = None \/ f.total > frags[id].total
  <2>1. openSet(f) = [total |-> f.total, received |-> <<>>]
    BY <1>2 DEF openSet
  <2>2. 1 \in 1..f.total
    BY <1>1
  <2> QED
    BY <1>1, <2>1, <2>2 DEF OpenSet, PiecesOf
<1>3. CASE ~(frags[id] = None \/ f.total > frags[id].total)
  BY <1>1, <1>3 DEF openSet, FInv
<1> QED
  BY <1>2, <1>3

(* addFragment leaves open sets only, and what it hands on is one cut. *)
LEMMA AddFragment ==
    ASSUME FInv, NEW f \in Fragment, addFragment(f)
    PROVE  /\ frags' = [i \in MsgID |-> frags'[i]]
           /\ \A i \in MsgID : frags'[i] # None => OpenSet(i, frags'[i])
           /\ assembled' # None =>
                \E i \in MsgID, t \in Totals :
                    PiecesOf(i, t, assembled') /\ DOMAIN assembled' = 1..t
           /\ parsed' \subseteq Message
<1> DEFINE id == f.msg.id
           fs == openSet(f)
           full == [fs EXCEPT !.received = store(@, f)]
<1>1. id \in MsgID /\ f.msg \in Message /\ f.total \in Totals
  BY DEF Fragment, Message
<1>2. OpenSet(id, fs)
  BY OpenSetLemma
<1>3. frags = [i \in MsgID |-> frags[i]]
  BY DEF FInv
<1>4. full.total = fs.total /\ full.received = store(fs.received, f)
      /\ full = [total |-> full.total, received |-> full.received]
  BY <1>2 DEF OpenSet
<1>5. CASE /\ f.total < fs.total \/ f.num \in DOMAIN fs.received
           /\ frags' = [frags EXCEPT ![id] = fs]
           /\ UNCHANGED <<assembled, parsed>>
  BY <1>1, <1>2, <1>3, <1>5 DEF FInv, TypeOK
<1>6. CASE /\ frags' = [frags EXCEPT ![id] = None]
           /\ UNCHANGED <<assembled, parsed>>
  BY <1>1, <1>3, <1>6 DEF FInv, TypeOK
<1>7. CASE /\ f.total = fs.total /\ f.num \notin DOMAIN fs.received
           /\ Cardinality(DOMAIN full.received) <= MaxPacket
           /\ IF Cardinality(DOMAIN full.received) = fs.total
              THEN /\ reassemble(id, full)
                   /\ parsed' = IF f.num = 1 THEN parsed \cup {f.msg} ELSE parsed
              ELSE /\ frags' = [frags EXCEPT ![id] = full]
                   /\ UNCHANGED <<assembled, parsed>>
  <2>1. PiecesOf(id, f.total, full.received)
    BY <1>1, <1>2, <1>4, <1>7, StoreLemma DEF OpenSet
  <2>2. Cardinality(DOMAIN full.received) = f.total <=> DOMAIN full.received = 1..f.total
    BY <1>1, <2>1, CompleteByCount DEF PiecesOf
  <2>3. CASE Cardinality(DOMAIN full.received) = fs.total
    <3>1. assembled' = full.received /\ frags' = [frags EXCEPT ![id] = None]
          /\ parsed' \subseteq parsed \cup {f.msg}
      BY <1>7, <2>3 DEF reassemble
    <3>2. PiecesOf(id, f.total, assembled') /\ DOMAIN assembled' = 1..f.total
      BY <1>7, <2>1, <2>2, <2>3, <3>1
    <3> QED
      BY <1>1, <1>3, <3>1, <3>2 DEF FInv, TypeOK
  <2>4. CASE Cardinality(DOMAIN full.received) # fs.total
    <3>1. frags' = [frags EXCEPT ![id] = full] /\ UNCHANGED <<assembled, parsed>>
      BY <1>7, <2>4
    <3>2. OpenSet(id, full)
      BY <1>1, <1>4, <1>7, <2>1, <2>2, <2>4 DEF OpenSet
    <3> QED
      BY <1>1, <1>3, <3>1, <3>2 DEF FInv, TypeOK
  <2> QED
    BY <2>3, <2>4
<1> QED
  BY <1>5, <1>6, <1>7 DEF addFragment

LEMMA InitFInv == Init => FInv
BY DEF Init, FInv, TypeOK

LEMMA StepFInv == FInv /\ [Next]_vars => FInv'
<1> SUFFICES ASSUME FInv, [Next]_vars PROVE FInv'
  OBVIOUS
<1>1. ASSUME NEW m \in Message, NEW t \in Totals, peerSends(m, t)
      PROVE  FInv'
  <2>1. net' \subseteq Fragment
    BY <1>1, FragmentsOfType DEF peerSends, FInv, TypeOK
  <2> QED
    BY <1>1, <2>1 DEF peerSends, FInv, TypeOK, OpenSet, PiecesOf
<1>2. ASSUME NEW f \in net, receiveRequest(f)
      PROVE  FInv'
  <2>1. f \in Fragment /\ addFragment(f)
    BY <1>2 DEF receiveRequest, FInv, TypeOK
  <2>2. arrived' \subseteq Fragment
    BY <1>2, <2>1 DEF receiveRequest, FInv, TypeOK
  <2> QED
    BY <1>2, <2>1, <2>2, AddFragment DEF receiveRequest, FInv, TypeOK
<1>3. ASSUME NEW f \in net, receiveResponse(f)
      PROVE  FInv'
  <2>1. f \in Fragment /\ addFragment(f)
    BY <1>3 DEF receiveResponse, FInv, TypeOK
  <2>2. claimed' \subseteq Message
    BY <1>3, <2>1 DEF receiveResponse, FInv, TypeOK, Fragment
  <2> QED
    BY <1>3, <2>1, <2>2, AddFragment DEF receiveResponse, FInv, TypeOK
<1>4. ASSUME NEW f \in net, parkResponse(f)
      PROVE  FInv'
  <2>1. f.msg.id \in MsgID
    BY <1>4 DEF FInv, TypeOK, Fragment, Message
  <2> QED
    BY <1>4, <2>1 DEF parkResponse, FInv, TypeOK, OpenSet, PiecesOf
<1>5. CASE rekeyIKESA
  BY <1>5 DEF rekeyIKESA, FInv, TypeOK, OpenSet, PiecesOf
<1>6. CASE UNCHANGED vars
  BY <1>6 DEF vars, FInv, TypeOK, OpenSet, PiecesOf
<1> QED
  BY <1>1, <1>2, <1>3, <1>4, <1>5, <1>6 DEF Next

LEMMA SpecFInv == Spec => []FInv
BY InitFInv, StepFInv, PTL DEF Spec

(* fragmentBuffer never joins pieces of two cuts: what reassemble returns  *)
(* is every piece of one cut, in order.                                    *)
THEOREM ReassemblesOneCut == Spec => []OneCutPerMessage
<1>1. FInv => OneCutPerMessage
  BY DEF FInv, PiecesOf, OneCutPerMessage
<1> QED
  BY <1>1, SpecFInv, PTL

(* addFragment never leaves a complete set in frags, where duplicates of   *)
(* its pieces would be ignored for ever.                                   *)
THEOREM CompleteSetsLeave == Spec => []NoCompleteSetStaysBehind
<1>1. FInv => NoCompleteSetStaysBehind
  BY DEF FInv, OpenSet, NoCompleteSetStaysBehind
<1> QED
  BY <1>1, SpecFInv, PTL
-----------------------------------------------------------------------------
HIDE KindAssumption
USE CutAssumption

(* splitting of a length into whole parts and a rest *)
LEMMA DivMod ==
    ASSUME NEW a \in Nat, NEW b \in Nat \ {0}
    PROVE  /\ a % b \in 0..(b - 1) /\ a \div b \in Nat
           /\ a = b * (a \div b) + (a % b)
OBVIOUS

LEMMA Multiples ==
    ASSUME NEW i \in Nat, NEW k \in Nat, NEW b \in Nat
    PROVE  /\ i * b \in Nat
           /\ (i + 1) * b = i * b + b
           /\ i <= k => i * b <= k * b
<1>1. i * b \in Nat /\ (i + 1) * b = i * b + b
  OBVIOUS
<1>2. ASSUME i <= k PROVE i * b <= k * b
  <2>1. k - i \in Nat /\ (k - i) * b \in Nat
    BY <1>2
  <2>2. k * b = i * b + (k - i) * b
    OBVIOUS
  <2> QED
    BY <2>1, <2>2
<1> QED
  BY <1>1, <1>2

(* At the MTUs used there is room for at least one byte in a fragment. *)
LEMMA PlaintextRoom ==
    ASSUME NEW s \in Suites, NEW mtu \in MTUs
    PROVE  /\ maxPlaintextPerFrag(s, mtu) \in Nat \ {0}
           /\ s.iv \in Nat /\ s.icv \in Nat /\ s.block \in Nat \ {0}
           /\ ikeOverhead \in Nat /\ mtu \in Nat
<1>1. /\ s.aead \in BOOLEAN /\ s.iv \in Nat /\ s.icv \in Nat
      /\ s.block \in Nat \ {0}
  BY CutAssumption
<1>2. ikeOverhead \in Nat /\ mtu \in Nat
  BY CutAssumption
<1>3. mtu > ikeOverhead + s.iv + s.icv + s.block
  BY CutAssumption
<1>4. PICK spare \in {0, s.block} :
         maxPlaintextPerFrag(s, mtu) = mtu - ikeOverhead - s.iv - s.icv - spare
  BY DEF maxPlaintextPerFrag
<1>5. maxPlaintextPerFrag(s, mtu) \in Nat \ {0}
  BY <1>1, <1>2, <1>3, <1>4
<1> QED
  BY <1>1, <1>2, <1>5

(* The ceiling in fragmentMessage: one fragment fewer would not do. *)
LEMMA Ceiling ==
    ASSUME NEW s \in Suites, NEW mtu \in MTUs, NEW length \in Nat
    PROVE  LET M == maxPlaintextPerFrag(s, mtu)
               n == numFrags(s, mtu, length)
           IN  /\ n \in Nat /\ length <= n * M
               /\ n > 0 => (n - 1) * M < length
<1> DEFINE M == maxPlaintextPerFrag(s, mtu)
           n == numFrags(s, mtu, length)
<1>1. M \in Nat \ {0}
  BY PlaintextRoom
<1>2. length + M - 1 \in Nat
  BY <1>1
<1>3. PICK r \in 0..(M - 1) : n \in Nat /\ length + M - 1 = M * n + r
  BY <1>1, <1>2, DivMod DEF numFrags
<1> HIDE DEF M, n
<1>4. n * M = length + M - 1 - r
  BY <1>1, <1>3
<1>5. n > 0 => (n - 1) * M = n * M - M
  BY <1>1, <1>3
<1>6. length <= n * M /\ (n > 0 => (n - 1) * M < length)
  BY <1>1, <1>3, <1>4, <1>5
<1> QED
  BY <1>3, <1>6 DEF M, n

(* The chunks of fragmentMessage follow each other, none is empty, the     *)
(* last one ends with the message, and none is larger than there is room.  *)
THEOREM ChunksCoverMessage ==
    ASSUME NEW s \in Suites, NEW mtu \in MTUs, NEW length \in Nat
    PROVE  /\ cut(s, mtu, length, 0) = 0
           /\ cut(s, mtu, length, numFrags(s, mtu, length)) = length
           /\ \A i \in 1..numFrags(s, mtu, length) :
                cut(s, mtu, length, i) - cut(s, mtu, length, i - 1)
                    \in 1..maxPlaintextPerFrag(s, mtu)
<1> DEFINE M == maxPlaintextPerFrag(s, mtu)
           n == numFrags(s, mtu, length)
<1>1. M \in Nat \ {0}
  BY PlaintextRoom
<1>2. n \in Nat /\ length <= n * M /\ (n > 0 => (n - 1) * M < length)
  BY Ceiling
<1>3. cut(s, mtu, length, 0) = 0
  BY <1>1 DEF cut
<1>4. cut(s, mtu, length, n) = length
  BY <1>1, <1>2, Multiples DEF cut
<1>5. ASSUME NEW i \in 1..n
      PROVE  cut(s, mtu, length, i) - cut(s, mtu, length, i - 1) \in 1..M
  <2>1. i - 1 \in Nat /\ n - 1 \in Nat /\ i - 1 <= n - 1
    BY <1>2
  <2>2. /\ (i - 1) * M \in Nat /\ i * M = (i - 1) * M + M
        /\ (i - 1) * M <= (n - 1) * M
    BY <1>1, <2>1, Multiples
  <2>3. (i - 1) * M < length /\ (n - 1) * M \in Nat
    BY <1>1, <1>2, <2>1, <2>2, Multiples
  <2> QED
    BY <1>1, <2>2, <2>3 DEF cut
<1> QED
  BY <1>3, <1>4, <1>5

(* buildSKFPacket adds less than a block to a chunk and the byte with the  *)
(* length.                                                                 *)
LEMMA PadLenRange ==
    ASSUME NEW s \in Suites, NEW n \in Nat
    PROVE  padLen(s, n) \in 0..(s.block - 1)
<1> DEFINE b == s.block
<1>1. b \in Nat \ {0} /\ n + 1 \in Nat
  OBVIOUS
<1>2. padLen(s, n) = (b - ((n + 1) % b)) % b
  BY DEF padLen
<1> HIDE DEF b
<1>3. (n + 1) % b \in 0..(b - 1)
  BY <1>1, DivMod
<1>4. b - ((n + 1) % b) \in Nat
  BY <1>1, <1>3
<1>5. (b - ((n + 1) % b)) % b \in 0..(b - 1)
  BY <1>1, <1>4, DivMod
<1> QED
  BY <1>2, <1>5 DEF b

(* No packet with a fragment exceeds s.ikeFragmentMTU, at any length of    *)
(* the message: the block kept back is enough for the padding.             *)
THEOREM PacketsFitTheMTU ==
    ASSUME NEW s \in Suites, NEW mtu \in MTUs, NEW length \in Nat,
           NEW i \in 1..numFrags(s, mtu, length)
    PROVE  packetSize(s, mtu, length, i) <= mtu
<1> DEFINE chunk == cut(s, mtu, length, i) - cut(s, mtu, length, i - 1)
<1>1. chunk \in 1..maxPlaintextPerFrag(s, mtu)
  BY ChunksCoverMessage
<1>2. maxPlaintextPerFrag(s, mtu) \in Nat /\ chunk \in Nat
  BY <1>1, PlaintextRoom
<1>3. padLen(s, chunk) \in 0..(s.block - 1)
  BY <1>2, PadLenRange
<1> HIDE DEF chunk
<1>4. CASE s.aead
  BY <1>1, <1>2, <1>4, PlaintextRoom DEF packetSize, maxPlaintextPerFrag, chunk
<1>5. CASE ~s.aead
  <2>1. chunk + padLen(s, chunk) + 1 <= maxPlaintextPerFrag(s, mtu) + s.block
    BY <1>1, <1>2, <1>3, PlaintextRoom
  <2> QED
    BY <1>2, <1>3, <1>5, <2>1, PlaintextRoom
       DEF packetSize, maxPlaintextPerFrag, chunk
<1> QED
  BY <1>4, <1>5

(* buildSKFPacket sends the chunk as it is in the array, and changes only  *)
(* the bytes that follow it, at most a block of them, and these only with  *)
(* CBC.                                                                    *)
THEOREM PaddingBehindChunk ==
    ASSUME NEW s \in Suites, NEW array \in Seq(Nat),
           NEW from \in Nat, NEW to \in Nat, from <= to + 1
    PROVE  LET r == buildSKFPacket(s, array, from, to)
           IN  /\ Len(r.array) = Len(array)
               /\ \A p \in 1..Len(array) :
                    r.array[p] # array[p] =>
                        ~s.aead /\ p \in (to + 1)..(to + s.block)
<1>1. to - from + 1 \in Nat
  OBVIOUS
<1>2. padLen(s, to - from + 1) \in 0..(s.block - 1) /\ s.block \in Nat
  BY <1>1, PadLenRange
<1>3. Len(array) \in Nat
  OBVIOUS
<1> DEFINE r == buildSKFPacket(s, array, from, to)
<1>4. DOMAIN r.array = 1..Len(array)
  BY DEF buildSKFPacket
<1>5. r.array \in Seq(Nat)
  <2>1. \A p \in 1..Len(array) : array[p] \in Nat
    BY SMTT(30)
  <2> QED
    BY <1>3, <2>1 DEF buildSKFPacket, Pad
<1>6. Len(r.array) = Len(array)
  BY <1>3, <1>4, <1>5
<1>7. \A p \in 1..Len(array) :
        r.array[p] # array[p] => ~s.aead /\ p \in (to + 1)..(to + s.block)
  <2> SUFFICES ASSUME NEW p \in 1..Len(array), r.array[p] # array[p]
               PROVE  ~s.aead /\ p \in (to + 1)..(to + s.block)
    OBVIOUS
  <2> DEFINE pad == padLen(s, to - from + 1)
  <2>1. ~s.aead /\ p \in (to + 1)..(to + pad + 1)
    BY SMTT(30), <1>2, <1>3 DEF buildSKFPacket
  <2>2. pad \in Int /\ s.block \in Int /\ pad + 1 <= s.block
    BY SMTT(30), <1>2
  <2> HIDE DEF pad
  <2>3. p \in Int /\ to + 1 <= p /\ p <= to + s.block
    BY SMTT(30), <2>1, <2>2
  <2> QED
    BY <2>1, <2>2, <2>3
<1> QED
  BY <1>6, <1>7

-----------------------------------------------------------------------------
HIDE CutAssumption

(* What the loop of fragmentMessage has built after n turns. *)
Builds(g, s, mtu, length, spare, n) ==
    g = [i \in 0..n |->
            IF i = 0 THEN [array |-> innerData(length, spare), sent |-> <<>>]
            ELSE buildFragment(s, mtu, length, i, g[i - 1])]

(* The loop has a solution for every number of turns. *)
LEMMA LoopBuilds ==
    ASSUME NEW s, NEW mtu, NEW length, NEW spare
    PROVE  \A n \in Nat : \E g : Builds(g, s, mtu, length, spare, n)
<1> DEFINE first == [array |-> innerData(length, spare), sent |-> <<>>]
           T == {n \in Nat : ~\E g : Builds(g, s, mtu, length, spare, n)}
<1> SUFFICES ASSUME T # {} PROVE FALSE
  OBVIOUS
<1>1. PICK n \in T : \A m \in T : n <= m
  BY LeastElement
<1>2. CASE n = 0
  <2> DEFINE f == [i \in 0..0 |-> first]
  <2>1. Builds(f, s, mtu, length, spare, 0)
    BY DEF Builds
  <2> QED
    BY <1>2, <2>1
<1>3. CASE n # 0
  <2>1. n - 1 \in Nat /\ n - 1 \notin T
    BY <1>1, <1>3
  <2>2. PICK g : Builds(g, s, mtu, length, spare, n - 1)
    BY <2>1
  <2> DEFINE f == [i \in 0..n |->
                    IF i = n THEN buildFragment(s, mtu, length, n, g[n - 1]) ELSE g[i]]
  <2>3. ASSUME NEW i \in 0..n
        PROVE  f[i] = IF i = 0 THEN first
                      ELSE buildFragment(s, mtu, length, i, f[i - 1])
    <3>1. CASE i = n
      BY <1>3, <3>1
    <3>2. CASE i # n
      <4>1. f[i] = g[i] /\ (i # 0 => f[i - 1] = g[i - 1])
        BY <3>2
      <4>2. g[i] = IF i = 0 THEN first ELSE buildFragment(s, mtu, length, i, g[i - 1])
        BY <2>2, <3>2 DEF Builds
      <4> HIDE DEF f, first
      <4> QED
        BY <4>1, <4>2
    <3> QED
      BY <3>1, <3>2
  <2>4. f = [i \in 0..n |-> f[i]]
    OBVIOUS
  <2> HIDE DEF f
  <2>5. Builds(f, s, mtu, length, spare, n)
    BY <2>3, <2>4 DEF Builds
  <2> QED
    BY <2>5
<1> QED
  BY <1>2, <1>3

(* A byte of the message is still what it was, or the padding of an        *)
(* earlier fragment has overwritten it.                                    *)
Intact(s, mtu, length, p, b) == b = p \/ (~s.aead /\ p \in Hit(s, mtu, length))

(* What has been sent after n fragments is the message up to the cut, and  *)
(* what comes behind it in the array is intact too.                        *)
Built(s, mtu, length, spare, n, acc) ==
    /\ acc.sent \in Seq(Nat) /\ Len(acc.sent) = cut(s, mtu, length, n)
    /\ \A p \in 1..Len(acc.sent) : Intact(s, mtu, length, p, acc.sent[p])
    /\ n < numFrags(s, mtu, length) =>
        /\ acc.array \in Seq(Nat) /\ Len(acc.array) = length + spare
        /\ \A p \in 1..length : Intact(s, mtu, length, p, acc.array[p])

(* Before the first turn nothing is sent and the array is intact. *)
LEMMA FirstBuilt ==
    ASSUME NEW s \in Suites, NEW mtu \in MTUs, NEW length \in Nat, NEW spare \in Nat
    PROVE  Built(s, mtu, length, spare, 0,
                 [array |-> innerData(length, spare), sent |-> <<>>])
<1> DEFINE a == innerData(length, spare)
<1>1. a \in [1..(length + spare) -> Nat] /\ \A p \in 1..length : a[p] = p
  BY DEF innerData, Pad
<1>2. a \in Seq(Nat) /\ Len(a) = length + spare
  <2> HIDE DEF a
  <2> QED
    BY <1>1
<1> HIDE DEF a
<1>3. cut(s, mtu, length, 0) = 0
  BY ChunksCoverMessage
<1> DEFINE acc == [array |-> a, sent |-> <<>>]
<1>4. acc.array = a /\ acc.sent = <<>> /\ Len(acc.sent) = 0 /\ acc.sent \in Seq(Nat)
  OBVIOUS
<1> HIDE DEF acc
<1>5. Built(s, mtu, length, spare, 0, acc)
  <2>1. \A p \in 1..length : Intact(s, mtu, length, p, acc.array[p])
    BY <1>1, <1>4 DEF Intact
  <2>2. \A p \in 1..Len(acc.sent) : Intact(s, mtu, length, p, acc.sent[p])
    BY <1>4
  <2> QED
    BY <1>2, <1>3, <1>4, <2>1, <2>2 DEF Built
<1> QED
  BY <1>5 DEF acc, a

(* The cuts below the last are whole chunks. *)
LEMMA WholeChunks ==
    ASSUME NEW s \in Suites, NEW mtu \in MTUs, NEW length \in Nat,
           NEW i \in 1..numFrags(s, mtu, length), i < numFrags(s, mtu, length)
    PROVE  cut(s, mtu, length, i) - cut(s, mtu, length, i - 1)
                = maxPlaintextPerFrag(s, mtu)
<1> DEFINE M == maxPlaintextPerFrag(s, mtu)
           n == numFrags(s, mtu, length)
<1>1. M \in Nat \ {0}
  BY PlaintextRoom
<1>2. n \in Nat /\ (n > 0 => (n - 1) * M < length)
  BY Ceiling
<1>3. i - 1 \in Nat /\ i \in Nat /\ n - 1 \in Nat /\ i <= n - 1
  BY <1>2
<1>4. /\ (i - 1) * M \in Nat /\ i * M = (i - 1) * M + M /\ i * M <= (n - 1) * M
      /\ i * M \in Nat /\ (n - 1) * M \in Nat
  BY <1>1, <1>3, Multiples
<1>5. i * M < length
  BY <1>2, <1>3, <1>4
<1> QED
  BY <1>1, <1>4, <1>5 DEF cut

(* The cuts of a message ascend, and none lies beyond its end. *)
LEMMA CutsAscend ==
    ASSUME NEW s \in Suites, NEW mtu \in MTUs, NEW length \in Nat,
           NEW i \in 1..numFrags(s, mtu, length)
    PROVE  /\ cut(s, mtu, length, i - 1) \in Nat /\ cut(s, mtu, length, i) \in Nat
           /\ cut(s, mtu, length, i - 1) < cut(s, mtu, length, i)
           /\ cut(s, mtu, length, i) <= length
           /\ cut(s, mtu, length, i) - cut(s, mtu, length, i - 1)
                    \in 1..maxPlaintextPerFrag(s, mtu)
<1> DEFINE M == maxPlaintextPerFrag(s, mtu)
           n == numFrags(s, mtu, length)
<1>1. M \in Nat \ {0} /\ n \in Nat
  BY PlaintextRoom, Ceiling
<1>2. i - 1 \in Nat /\ i \in Nat
  BY <1>1
<1>3. i * M \in Nat /\ (i - 1) * M \in Nat
  BY <1>1, <1>2, Multiples
<1>4. /\ cut(s, mtu, length, i - 1) \in Nat /\ cut(s, mtu, length, i) \in Nat
      /\ cut(s, mtu, length, i) <= length
  BY <1>3 DEF cut
<1>5. cut(s, mtu, length, i) - cut(s, mtu, length, i - 1) \in 1..M
  BY ChunksCoverMessage
<1> QED
  BY <1>1, <1>4, <1>5

(* One turn: the next fragment is sent, and its padding hits what is       *)
(* behind it.                                                              *)
LEMMA NextBuilt ==
    ASSUME NEW s \in Suites, NEW mtu \in MTUs, NEW length \in Nat, NEW spare \in Nat,
           NEW i \in 1..numFrags(s, mtu, length), NEW acc,
           Built(s, mtu, length, spare, i - 1, acc)
    PROVE  Built(s, mtu, length, spare, i, buildFragment(s, mtu, length, i, acc))
<1> DEFINE n == numFrags(s, mtu, length)
           M == maxPlaintextPerFrag(s, mtu)
           before == cut(s, mtu, length, i - 1)
           to == cut(s, mtu, length, i)
           a == acc.array
           r == buildSKFPacket(s, a, before + 1, to)
           pad == padLen(s, to - (before + 1) + 1)
           written == IF s.aead \/ ~(to + pad <= Len(a)) THEN {}
                      ELSE (to + 1)..(IF to + pad < Len(a) THEN to + pad + 1 ELSE to + pad)
           after == buildFragment(s, mtu, length, i, acc)
<1>1. /\ before \in Nat /\ to \in Nat /\ before < to /\ to <= length
      /\ to - before \in 1..M
  BY CutsAscend
<1>2. M \in Nat \ {0} /\ n \in Nat
  BY PlaintextRoom, Ceiling
<1>3. /\ acc.sent \in Seq(Nat) /\ Len(acc.sent) = before
      /\ \A p \in 1..Len(acc.sent) : Intact(s, mtu, length, p, acc.sent[p])
      /\ a \in Seq(Nat) /\ Len(a) = length + spare
      /\ \A p \in 1..length : Intact(s, mtu, length, p, a[p])
  BY <1>2 DEF Built
<1>4. /\ r.sent = SubSeq(a, before + 1, to)
      /\ r.array = [p \in 1..Len(a) |-> IF p \in written THEN Pad ELSE a[p]]
  BY DEF buildSKFPacket
<1>5. after.array = r.array /\ after.sent = acc.sent \o r.sent
  BY DEF buildFragment
<1> HIDE DEF n, M, before, to, r, after, written, pad, a
<1>6. /\ r.sent \in Seq(Nat) /\ Len(r.sent) = to - before
      /\ \A k \in 1..(to - before) : r.sent[k] = a[before + k]
  <2>1. to <= Len(a) /\ before + 1 \in 1..(Len(a) + 1) /\ to \in 0..Len(a)
    BY <1>1, <1>3
  <2>2. /\ SubSeq(a, before + 1, to) \in Seq(Nat)
        /\ Len(SubSeq(a, before + 1, to)) = to - before
        /\ \A k \in 1..(to - before) : SubSeq(a, before + 1, to)[k] = a[before + k]
    <3>1. a \in Seq(Nat) /\ before < to /\ to <= Len(a)
      BY <1>1, <1>3, <2>1
    <3>2. before \in Nat /\ to \in Nat
      BY <1>1
    <3> QED
      BY <3>1, <3>2, ChunkOf
  <2> QED
    BY <1>4, <2>2
<1>7. /\ after.sent \in Seq(Nat) /\ Len(after.sent) = to
      /\ \A p \in 1..to : after.sent[p] = IF p <= before THEN acc.sent[p] ELSE a[p]
  <2> DEFINE x == acc.sent
             y == r.sent
  <2>1. x \in Seq(Nat) /\ y \in Seq(Nat) /\ Len(x) = before /\ Len(y) = to - before
    BY <1>3, <1>6
  <2> HIDE DEF x, y
  <2>2. /\ x \o y \in Seq(Nat) /\ Len(x \o y) = to
        /\ \A p \in 1..to : (x \o y)[p] = IF p <= before THEN x[p] ELSE y[p - before]
    <3>1. /\ x \o y \in Seq(Nat) /\ Len(x \o y) = Len(x) + Len(y)
          /\ \A p \in 1..(Len(x) + Len(y)) :
                (x \o y)[p] = IF p <= Len(x) THEN x[p] ELSE y[p - Len(x)]
      BY <2>1, ConcatProperties
    <3>2. Len(x) + Len(y) = to
      BY <1>1, <2>1
    <3> QED
      BY <2>1, <3>1, <3>2
  <2>3. ASSUME NEW p \in 1..to, ~(p <= before) PROVE y[p - before] = a[p]
    <3>1. p - before \in 1..(to - before) /\ before + (p - before) = p
      BY <1>1, <2>3
    <3>2. r.sent[p - before] = a[before + (p - before)]
      BY <1>6, <3>1
    <3> QED
      BY <3>1, <3>2 DEF y
  <2> QED
    BY <1>5, <2>2, <2>3 DEF x, y
<1>8. \A p \in 1..to : Intact(s, mtu, length, p, after.sent[p])
  <2> SUFFICES ASSUME NEW p \in 1..to
               PROVE  Intact(s, mtu, length, p, after.sent[p])
    OBVIOUS
  <2>1. CASE p <= before
    <3>1. p \in 1..Len(acc.sent)
      BY <1>1, <1>3, <2>1
    <3> QED
      BY <1>3, <1>7, <2>1, <3>1
  <2>2. CASE ~(p <= before)
    <3>1. p \in 1..length
      BY <1>1
    <3> QED
      BY <1>3, <1>7, <2>2, <3>1
  <2> QED
    BY <2>1, <2>2
<1>9. ASSUME i < n
      PROVE  /\ after.array \in Seq(Nat) /\ Len(after.array) = length + spare
             /\ \A p \in 1..length : Intact(s, mtu, length, p, after.array[p])
  <2>1. /\ DOMAIN after.array = 1..(length + spare)
        /\ \A p \in 1..(length + spare) :
                after.array[p] = IF p \in written THEN Pad ELSE a[p]
    BY <1>3, <1>4, <1>5
  <2>2. after.array \in [1..(length + spare) -> Nat]
    <3>1. \A p \in 1..(length + spare) : a[p] \in Nat
      BY <1>3, ElementOfSeq
    <3>2. 0 \in Nat /\ Pad = 0
      BY DEF Pad
    <3> QED
      BY <1>3, <1>4, <1>5, <3>1, <3>2
  <2>3. to - before = M
    BY <1>9, WholeChunks DEF n, M, to, before
  <2>4. pad = padLen(s, M)
    BY <1>1, <1>2, <2>3 DEF pad
  <2>5. pad \in Nat
    BY <1>2, <2>4, PadLenRange, PlaintextRoom
  <2>6. ~s.aead => (to + 1)..(to + pad + 1) \subseteq Hit(s, mtu, length)
    <3>1. i \in 1..(n - 1)
      BY <1>2, <1>9
    <3>2. Hit(s, mtu, length) =
            UNION {(cut(s, mtu, length, j) + 1)..(cut(s, mtu, length, j) + padLen(s, M) + 1)
                    : j \in 1..(n - 1)}
      BY DEF Hit, n, M
    <3> QED
      BY <2>4, <3>1, <3>2 DEF to
  <2>7. \A p \in written : ~s.aead /\ p \in (to + 1)..(to + pad + 1)
    BY SMTT(30), <1>1, <1>3, <2>5 DEF written
  <2>8. \A p \in 1..length : Intact(s, mtu, length, p, after.array[p])
    <3> SUFFICES ASSUME NEW p \in 1..length
                 PROVE  Intact(s, mtu, length, p, after.array[p])
      OBVIOUS
    <3>1. CASE p \in written
      BY <2>6, <2>7, <3>1 DEF Intact
    <3>2. CASE p \notin written
      <4>1. after.array[p] = a[p]
        BY <2>1, <3>2
      <4> QED
        BY <1>3, <4>1
    <3> QED
      BY <3>1, <3>2
  <2>9. after.array \in Seq(Nat) /\ Len(after.array) = length + spare
    <3> DEFINE x == after.array
               m == length + spare
    <3>1. x \in [1..m -> Nat] /\ m \in Nat
      BY <2>2
    <3> HIDE DEF x, m
    <3>2. x \in Seq(Nat) /\ Len(x) = m
      BY <3>1
    <3> QED
      BY <3>2 DEF x, m
  <2> QED
    BY <2>8, <2>9
<1> QED
  BY <1>7, <1>8, <1>9 DEF Built, n, to, after

(* What the ePDG has got once every fragment is built. *)
LEMMA FragmentsCarryTheMessage ==
    ASSUME NEW s \in Suites, NEW mtu \in MTUs, NEW length \in Nat, NEW spare \in Nat
    PROVE  LET got == fragmentMessage(s, mtu, length, spare)
           IN /\ Len(got) = length
              /\ \A p \in 1..length :
                    got[p] = p \/ (~s.aead /\ p \in Hit(s, mtu, length))
<1> DEFINE n == numFrags(s, mtu, length)
           built == CHOOSE g : Builds(g, s, mtu, length, spare, n)
           got == fragmentMessage(s, mtu, length, spare)
<1>1. n \in Nat
  BY Ceiling
<1>2. Builds(built, s, mtu, length, spare, n)
  BY <1>1, LoopBuilds
<1>3. got = built[n].sent
  BY DEF fragmentMessage, Builds
<1> HIDE DEF built
<1>4. /\ built[0] = [array |-> innerData(length, spare), sent |-> <<>>]
      /\ \A i \in 1..n : built[i] = buildFragment(s, mtu, length, i, built[i - 1])
  <2>1. built = [i \in 0..n |->
                    IF i = 0 THEN [array |-> innerData(length, spare), sent |-> <<>>]
                    ELSE buildFragment(s, mtu, length, i, built[i - 1])]
    BY <1>2 DEF Builds
  <2> HIDE DEF n
  <2> QED
    BY <1>1, <2>1
<1> DEFINE T == {i \in 0..n : ~Built(s, mtu, length, spare, i, built[i])}
<1> HIDE DEF n
<1>5. T \subseteq Nat
  BY <1>1
<1>6. T = {}
  <2> SUFFICES ASSUME T # {} PROVE FALSE
    OBVIOUS
  <2>1. PICK i \in T : \A m \in T : i <= m
    <3> HIDE DEF T
    <3> QED
      BY <1>5, LeastElement
  <2>2. i # 0
    BY <1>4, FirstBuilt
  <2>3. i \in 1..n /\ i - 1 \in 0..n /\ i - 1 \notin T
    BY <1>1, <2>1, <2>2
  <2>4. Built(s, mtu, length, spare, i - 1, built[i - 1])
    BY <2>3
  <2>5. Built(s, mtu, length, spare, i, built[i])
    BY <1>4, <2>3, <2>4, NextBuilt DEF n
  <2> QED
    BY <2>1, <2>5
<1>7. Built(s, mtu, length, spare, n, built[n])
  BY <1>1, <1>6
<1>8. cut(s, mtu, length, n) = length
  BY ChunksCoverMessage DEF n
<1> QED
  BY <1>3, <1>7, <1>8 DEF Built, Intact

(* At every length and with every cipher, MTU and room in the array. *)
LEMMA MessagesReassemble == EveryMessageReassembles
<1> SUFFICES ASSUME NEW s \in Suites, NEW mtu \in MTUs,
                    NEW length \in 0..MaxLength, NEW spare \in 0..MaxSpare
             PROVE  LET got == fragmentMessage(s, mtu, length, spare)
                    IN /\ Len(got) = length
                       /\ \A p \in 1..length :
                            got[p] = p \/ (~s.aead /\ p \in Hit(s, mtu, length))
                       /\ \A i \in 1..numFrags(s, mtu, length) :
                            packetSize(s, mtu, length, i) <= mtu
  BY DEF EveryMessageReassembles
<1>1. length \in Nat /\ spare \in Nat
  OBVIOUS
<1> QED
  BY <1>1, FragmentsCarryTheMessage, PacketsFitTheMTU

(* What the ePDG puts together from the fragments of a request is what was *)
(* cut, but for the bytes that the padding of CBC hits, and every packet   *)
(* fits: for every cipher and path MTU, every length and room in the array.*)
THEOREM RequestsReassemble == PeerReassembles
BY MessagesReassemble, PTL DEF PeerReassembles
=============================================================================
