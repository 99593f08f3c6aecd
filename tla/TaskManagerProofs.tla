------------------------- MODULE TaskManagerProofs -------------------------
(***************************************************************************)
(* TLAPS proofs about the request window, for every set of requests, every *)
(* finite set of message IDs, every window size and retry limit.           *)
(*                                                                         *)
(* None of the safety invariants is inductive alone.  That no channel is   *)
(* completed twice rests on a request being in at most one place, in       *)
(* flight or in the queue (Slots); that no waiter is lost rests on who     *)
(* owns which ID as well (Shape).  Budget counts the retransmissions.      *)
(* What Slots and Budget give holds even of callers that hand over an ID   *)
(* twice, which those in IKERequests do.                                   *)
(***************************************************************************)
EXTENDS TaskManager, TLAPS, FiniteSetTheorems, SequenceTheorems

(* A request in flight sits under its own ID and has an open channel. *)
PendingOpen ==
    \A id \in MsgID : pending[id] # None =>
        ch[pending[id]] = "open" /\ msgID[pending[id]] = id

(* A queued request has an open channel, and its ID is free in the window. *)
QueueOpen ==
    \A i \in 1..Len(queue) :
        ch[queue[i]] = "open" /\ pending[msgID[queue[i]]] = None

QueueInjective ==
    \A i, j \in 1..Len(queue) : queue[i] = queue[j] => i = j

DistinctIDs ==
    \A r, s \in Request :
        ch[r] = "open" /\ ch[s] = "open" /\ msgID[r] = msgID[s] => r = s

Flies(r) == \E id \in MsgID : pending[id] = r

(* A queued request has an open channel and is not in flight as well. *)
QueueWaits ==
    \A i \in 1..Len(queue) : ch[queue[i]] = "open" /\ ~Flies(queue[i])

(* What holds whatever IDs the callers choose ... *)
Slots ==
    /\ TypeOK
    /\ PendingOpen /\ QueueWaits /\ QueueInjective
    /\ WindowBound
    /\ QueueNeverStranded
    /\ NeverBroken

(* ... and what holds as long as those they choose are free. *)
Shape == Slots /\ QueueOpen /\ DistinctIDs /\ NoLostWaiter

(* What the transmission count says about where a request is. *)
Budget ==
    \A r \in Request :
        /\ ch[r] = "nil" => sends[r] = 0 /\ retryCount[r] = 0
        /\ InQueue(r) => sends[r] = 0 /\ retryCount[r] = 0
        /\ Flies(r) => sends[r] = retryCount[r] + 1 /\ retryCount[r] <= MaxRetries
        /\ sends[r] <= MaxRetries + 1
        /\ ch[r] = "closed" /\ ~ctxDone => sends[r] = MaxRetries + 1

LoopOrder == loopExited => ctxDone

SlotInv == Slots /\ Budget /\ LoopOrder
IInv == Shape /\ Budget /\ LoopOrder
-----------------------------------------------------------------------------
USE WindowSizeAssumption, MaxRetriesAssumption, NoneAssumption, MsgIDAssumption

(* The initial window satisfies the inductive invariant. *)
LEMMA InitIInv == Init => IInv
<1> SUFFICES ASSUME Init PROVE IInv
  OBVIOUS
<1>1. TypeOK
  <2>1. queue \in Seq(Request)
    BY EmptySeq DEF Init
  <2>2. /\ wakeup \in BOOLEAN /\ ctxDone \in BOOLEAN
        /\ loopExited \in BOOLEAN /\ broken \in BOOLEAN
    BY Zenon DEF Init
  <2> QED
    BY <2>1, <2>2 DEF Init, TypeOK, ChanState
<1>2. Len(queue) = 0 /\ InFlight(pending) = {}
  BY DEF Init, InFlight
<1>3. WindowBound /\ QueueNeverStranded
  BY SMTT(30), <1>2, FS_EmptySet DEF WindowBound, QueueNeverStranded, Init
<1>4. PendingOpen /\ QueueOpen /\ QueueWaits /\ QueueInjective /\ DistinctIDs
  BY <1>2 DEF Init, PendingOpen, QueueOpen, QueueWaits, QueueInjective, DistinctIDs
<1>5. NoLostWaiter /\ NeverBroken /\ LoopOrder
  BY DEF Init, NoLostWaiter, NeverBroken, LoopOrder
<1>6. Budget
  BY <1>2 DEF Init, Budget, InQueue, Flies
<1> QED
  BY <1>1, <1>3, <1>4, <1>5, <1>6 DEF IInv, Shape, Slots

(* The window is finite, so its occupancy is a number. *)
LEMMA InFlightFinite ==
  ASSUME NEW p
  PROVE  IsFiniteSet(InFlight(p)) /\ Cardinality(InFlight(p)) \in Nat
<1>1. InFlight(p) \in SUBSET MsgID
  BY DEF InFlight
<1> QED
  BY <1>1, FS_Subset, FS_CardinalityType

(* Putting a request under an unused ID takes exactly one slot. *)
LEMMA OneSlotMore ==
  ASSUME NEW p \in [MsgID -> Request \cup {None}], NEW id \in MsgID,
         NEW m \in Request, p[id] = None
  PROVE  Cardinality(InFlight([p EXCEPT ![id] = m]))
            = Cardinality(InFlight(p)) + 1
<1>1. InFlight([p EXCEPT ![id] = m]) = InFlight(p) \cup {id}
  BY DEF InFlight
<1>2. id \notin InFlight(p)
  BY DEF InFlight
<1> QED
  BY <1>1, <1>2, InFlightFinite, FS_AddElement

(* Under an ID that is in use it takes none. *)
LEMMA OneSlotAtMost ==
  ASSUME NEW p \in [MsgID -> Request \cup {None}], NEW id \in MsgID,
         NEW m \in Request
  PROVE  Cardinality(InFlight([p EXCEPT ![id] = m]))
            <= Cardinality(InFlight(p)) + 1
<1>1. CASE p[id] = None
  <2>1. Cardinality(InFlight([p EXCEPT ![id] = m])) = Cardinality(InFlight(p)) + 1
    BY <1>1, OneSlotMore
  <2>2. Cardinality(InFlight(p)) \in Nat
    BY InFlightFinite
  <2> QED
    BY <2>1, <2>2
<1>2. CASE p[id] # None
  <2>1. InFlight([p EXCEPT ![id] = m]) = InFlight(p)
    BY <1>2 DEF InFlight
  <2> QED
    BY <2>1, InFlightFinite
<1> QED
  BY <1>1, <1>2

(* Emptying at least one used slot frees at least one. *)
LEMMA FewerSlots ==
  ASSUME NEW p \in [MsgID -> Request \cup {None}],
         NEW D \in SUBSET InFlight(p), D # {}
  PROVE  LET q == [id \in MsgID |-> IF id \in D THEN None ELSE p[id]]
         IN  Cardinality(InFlight(q)) < Cardinality(InFlight(p))
<1> DEFINE q == [id \in MsgID |-> IF id \in D THEN None ELSE p[id]]
<1>1. InFlight(q) = InFlight(p) \ D
  BY DEF InFlight
<1>2. InFlight(q) \in SUBSET InFlight(p) /\ InFlight(q) # InFlight(p)
  BY <1>1
<1>3. /\ Cardinality(InFlight(q)) <= Cardinality(InFlight(p))
      /\ Cardinality(InFlight(q)) # Cardinality(InFlight(p))
  BY <1>2, InFlightFinite, FS_Subset
<1> QED
  BY <1>3, InFlightFinite
-----------------------------------------------------------------------------
(* Requests leave the window and the queue is pumped: HandleResponse and   *)
(* checkTimeouts share this step.  D is the set of IDs that are freed.     *)
Freed(D) == [id \in MsgID |-> IF id \in D THEN None ELSE pending[id]]

Release(D, x, s, d, w) ==
    /\ ch' = [r \in Request |-> IF \E id \in D : pending[id] = r THEN x ELSE ch[r]]
    /\ pumpQueue(Freed(D), s, d, w)
    /\ UNCHANGED msgID
    /\ broken' = FALSE

(* What pumpQueue does after a release: the head of the queue, if there is *)
(* one, goes under its own ID.                                             *)
LEMMA PumpCases ==
  ASSUME Slots,
         NEW D \in SUBSET InFlight(pending), D # {},
         NEW s, NEW d, NEW w,
         pumpQueue(Freed(D), s, d, w)
  PROVE  /\ Cardinality(InFlight(Freed(D))) < WindowSize
         /\ \/ /\ queue = <<>> /\ queue' = <<>>
               /\ pending' = Freed(D) /\ sends' = s /\ due' = d /\ wakeup' = w
            \/ /\ queue # <<>> /\ 1 \in 1..Len(queue)
               /\ Head(queue) \in Request /\ Head(queue) = queue[1]
               /\ ch[Head(queue)] = "open"
               /\ activateMessage(Head(queue), msgID[Head(queue)], Freed(D), s, d)
               /\ queue' = Tail(queue)
<1> USE DEF Slots
<1>1. Cardinality(InFlight(Freed(D))) < WindowSize
  <2>1. Cardinality(InFlight(Freed(D))) < Cardinality(InFlight(pending))
    BY FewerSlots DEF TypeOK, Freed
  <2> QED
    BY <2>1, InFlightFinite DEF WindowBound
<1>2. CASE queue = <<>>
  BY <1>1, <1>2 DEF pumpQueue
<1>3. CASE queue # <<>>
  <2>1. Len(queue) > 0 /\ Len(queue) \in Nat
    BY <1>3, EmptySeq DEF TypeOK
  <2>2. Head(queue) \in Request /\ Head(queue) = queue[1] /\ 1 \in 1..Len(queue)
    BY <1>3, <2>1 DEF TypeOK
  <2>3. ch[Head(queue)] = "open"
    BY <2>2 DEF QueueWaits
  <2> QED
    BY <1>1, <1>3, <2>1, <2>2, <2>3 DEF pumpQueue
<1> QED
  BY <1>2, <1>3

(* The slots after a release, whatever IDs are in the queue. *)
LEMMA ReleaseSlots ==
  ASSUME Slots,
         NEW D \in SUBSET InFlight(pending), D # {},
         NEW x \in {"full", "closed"}, NEW s, NEW d, NEW w,
         Release(D, x, s, d, w)
  PROVE  /\ pending' \in [MsgID -> Request \cup {None}]
         /\ queue' \in Seq(Request)
         /\ PendingOpen' /\ QueueWaits' /\ QueueInjective'
         /\ WindowBound' /\ QueueNeverStranded' /\ NeverBroken'
<1> DEFINE p == Freed(D)
<1> USE DEF Slots
<1>1. /\ p \in [MsgID -> Request \cup {None}]
      /\ Cardinality(InFlight(p)) < WindowSize
      /\ Cardinality(InFlight(p)) \in Nat
  BY PumpCases, InFlightFinite DEF Release, Freed, TypeOK
<1>2. \A id \in MsgID : p[id] # None =>
          p[id] = pending[id] /\ ch'[p[id]] = "open" /\ msgID'[p[id]] = id
  BY DEF Release, Freed, TypeOK, PendingOpen, InFlight
<1>3. \A i \in 1..Len(queue) :
          /\ queue[i] \in Request /\ ch'[queue[i]] = "open"
          /\ \A id \in MsgID : p[id] # queue[i]
  <2> SUFFICES ASSUME NEW i \in 1..Len(queue)
               PROVE  /\ queue[i] \in Request /\ ch'[queue[i]] = "open"
                      /\ \A id \in MsgID : p[id] # queue[i]
    OBVIOUS
  <2>1. /\ queue[i] \in Request /\ ch[queue[i]] = "open"
        /\ \A id \in MsgID : pending[id] # queue[i]
    BY DEF TypeOK, QueueWaits, Flies
  <2>2. \A id \in D : pending[id] # queue[i]
    BY <2>1 DEF InFlight
  <2> QED
    BY <2>1, <2>2 DEF Release, Freed
<1>4. NeverBroken'
  BY DEF NeverBroken, Release
<1>5. CASE queue = <<>> /\ queue' = <<>> /\ pending' = p
  <2>1. Len(queue') = 0 /\ queue' \in Seq(Request)
    BY <1>5, EmptySeq
  <2>2. PendingOpen' /\ QueueWaits' /\ QueueInjective'
    BY <1>2, <1>5, <2>1 DEF PendingOpen, QueueWaits, QueueInjective
  <2>3. WindowBound' /\ QueueNeverStranded'
    BY <1>1, <1>5 DEF WindowBound, QueueNeverStranded, InFlight
  <2> QED
    BY <1>1, <1>4, <1>5, <2>1, <2>2, <2>3
<1>6. CASE /\ queue # <<>> /\ 1 \in 1..Len(queue)
           /\ Head(queue) \in Request /\ Head(queue) = queue[1]
           /\ activateMessage(Head(queue), msgID[Head(queue)], p, s, d)
           /\ queue' = Tail(queue)
  <2> DEFINE h == Head(queue)
             hid == msgID[h]
  <2>1. /\ Len(queue) \in Nat \ {0} /\ queue' \in Seq(Request)
        /\ Len(queue') = Len(queue) - 1
        /\ \A i \in 1..Len(queue') : queue'[i] = queue[i+1]
    BY <1>6, EmptySeq, HeadTailProperties DEF TypeOK
  <2>2. /\ hid \in MsgID /\ h \in Request /\ h # None
        /\ pending' = [p EXCEPT ![hid] = h] /\ ch'[h] = "open"
    BY <1>6, <1>3 DEF activateMessage, TypeOK
  <2>3. pending' \in [MsgID -> Request \cup {None}]
    BY <2>2, <1>1
  <2>4. PendingOpen'
    BY <2>2, <1>1, <1>2 DEF PendingOpen, Release
  <2>5. \A i \in 1..Len(queue') :
            /\ i + 1 \in 1..Len(queue) /\ queue'[i] = queue[i+1] /\ queue'[i] # h
    BY <1>6, <2>1 DEF QueueInjective
  <2>6. QueueInjective'
    BY <2>1, <2>5 DEF QueueInjective
  <2>7. QueueWaits'
    <3> SUFFICES ASSUME NEW i \in 1..Len(queue')
                 PROVE  ch'[queue'[i]] = "open" /\ \A id \in MsgID : pending'[id] # queue'[i]
      BY DEF QueueWaits, Flies
    <3>1. /\ ch'[queue'[i]] = "open" /\ queue'[i] # h
          /\ \A id \in MsgID : p[id] # queue'[i]
      BY <1>3, <2>5
    <3> QED
      BY <3>1, <2>2, <1>1
  <2>8. WindowBound'
    <3>1. Cardinality(InFlight(pending')) <= Cardinality(InFlight(p)) + 1
      BY <1>1, <2>2, OneSlotAtMost
    <3> QED
      BY SMTT(30), <1>1, <3>1, InFlightFinite DEF WindowBound, InFlight
  <2>9. QueueNeverStranded'
    BY <2>2, <1>1 DEF QueueNeverStranded, InFlight
  <2> QED
    BY <1>4, <2>1, <2>3, <2>4, <2>6, <2>7, <2>8, <2>9
<1> QED
  BY <1>5, <1>6, PumpCases DEF Release

(* Where IDs are free, the head of the queue finds its slot empty and no   *)
(* waiter gets lost.                                                       *)
LEMMA ReleaseShape ==
  ASSUME Shape,
         NEW D \in SUBSET InFlight(pending), D # {},
         NEW x \in {"full", "closed"}, NEW s, NEW d, NEW w,
         Release(D, x, s, d, w)
  PROVE  QueueOpen' /\ DistinctIDs' /\ NoLostWaiter'
<1> DEFINE p == Freed(D)
<1> USE DEF Shape, Slots
<1>1. p \in [MsgID -> Request \cup {None}]
  BY DEF Freed, TypeOK
<1>2. \A r \in Request : ch'[r] = "open" =>
          /\ ch[r] = "open"
          /\ p[msgID[r]] = pending[msgID[r]]
  <2> SUFFICES ASSUME NEW r \in Request, ch'[r] = "open"
               PROVE  ch[r] = "open" /\ p[msgID[r]] = pending[msgID[r]]
    OBVIOUS
  <2>1. ch[r] = "open" /\ \A id \in D : pending[id] # r
    BY DEF Release
  <2>2. msgID[r] \notin D
    BY <2>1 DEF TypeOK, PendingOpen, DistinctIDs, InFlight
  <2> QED
    BY <2>1, <2>2 DEF Freed, TypeOK
<1>3. \A i \in 1..Len(queue) :
          queue[i] \in Request /\ ch'[queue[i]] = "open" /\ p[msgID[queue[i]]] = None
  <2> SUFFICES ASSUME NEW i \in 1..Len(queue)
               PROVE  /\ queue[i] \in Request /\ ch'[queue[i]] = "open"
                      /\ p[msgID[queue[i]]] = None
    OBVIOUS
  <2>1. /\ queue[i] \in Request /\ ch[queue[i]] = "open"
        /\ pending[msgID[queue[i]]] = None
    BY DEF TypeOK, QueueOpen
  <2>2. \A id \in D : pending[id] # queue[i]
    BY <2>1 DEF TypeOK, PendingOpen, InFlight
  <2> QED
    BY <2>1, <2>2 DEF Release, Freed, TypeOK
<1>4. DistinctIDs'
  BY <1>2 DEF DistinctIDs, Release
<1>5. CASE queue = <<>> /\ queue' = <<>> /\ pending' = p
  <2>1. Len(queue') = 0 /\ Len(queue) = 0
    BY <1>5
  <2>2. QueueOpen'
    BY <2>1 DEF QueueOpen
  <2>3. NoLostWaiter'
    BY <1>5, <1>2, <2>1 DEF NoLostWaiter, InQueue, Release
  <2> QED
    BY <1>4, <2>2, <2>3
<1>6. CASE /\ queue # <<>> /\ 1 \in 1..Len(queue)
           /\ Head(queue) \in Request /\ Head(queue) = queue[1]
           /\ activateMessage(Head(queue), msgID[Head(queue)], p, s, d)
           /\ queue' = Tail(queue)
  <2> DEFINE h == Head(queue)
             hid == msgID[h]
  <2>1. /\ Len(queue) \in Nat \ {0} /\ Len(queue') = Len(queue) - 1
        /\ \A i \in 1..Len(queue') : queue'[i] = queue[i+1]
    BY <1>6, EmptySeq, HeadTailProperties DEF TypeOK
  <2>2. /\ hid \in MsgID /\ h \in Request /\ p[hid] = None
        /\ pending' = [p EXCEPT ![hid] = h] /\ ch'[h] = "open"
    BY <1>6, <1>3 DEF activateMessage, TypeOK
  <2>3. \A i \in 1..Len(queue') :
            /\ i + 1 \in 1..Len(queue) /\ queue'[i] = queue[i+1] /\ queue'[i] # h
    BY <1>6, <2>1 DEF QueueInjective
  <2>4. QueueOpen'
    <3> SUFFICES ASSUME NEW i \in 1..Len(queue')
                 PROVE  ch'[queue'[i]] = "open" /\ pending'[msgID'[queue'[i]]] = None
      BY DEF QueueOpen
    <3>1. /\ queue'[i] \in Request /\ ch'[queue'[i]] = "open"
          /\ p[msgID[queue'[i]]] = None
      BY <1>3, <2>3
    <3>2. msgID[queue'[i]] # hid
      BY <3>1, <2>2, <2>3, <1>4 DEF DistinctIDs, Release
    <3> QED
      BY <3>1, <3>2, <2>2, <1>1 DEF Release, TypeOK
  <2>5. NoLostWaiter'
    <3> SUFFICES ASSUME NEW r \in Request, ch'[r] = "open"
                 PROVE  pending'[msgID'[r]] = r \/ InQueue(r)'
      BY DEF NoLostWaiter
    <3>1. CASE r = h
      BY <3>1, <2>2, <1>1 DEF Release
    <3>2. CASE r # h /\ pending[msgID[r]] = r
      BY <3>2, <2>2, <1>1, <1>2, <1>4 DEF DistinctIDs, Release, TypeOK
    <3>3. CASE r # h /\ InQueue(r)
      <4>1. PICK i \in 1..Len(queue) : queue[i] = r
        BY <3>3 DEF InQueue
      <4>2. i # 1 /\ i - 1 \in 1..Len(queue') /\ queue'[i-1] = r
        BY <4>1, <3>3, <1>6, <2>1
      <4> QED
        BY <4>2 DEF InQueue
    <3> QED
      BY <1>2, <3>1, <3>2, <3>3 DEF NoLostWaiter
  <2> QED
    BY <1>4, <2>4, <2>5
<1> QED
  BY <1>5, <1>6, PumpCases DEF Release
-----------------------------------------------------------------------------
(* EnqueueRequest under any ID, one that is in use included. *)
LEMMA EnqueueSlots ==
  ASSUME SlotInv, NEW r \in Request, NEW id \in MsgID, EnqueueRequest(r, id)
  PROVE  SlotInv'
<1> USE DEF SlotInv, Slots
<1>1. /\ ch[r] = "nil" /\ ch' = [ch EXCEPT ![r] = "open"]
      /\ msgID' = [msgID EXCEPT ![r] = id]
      /\ UNCHANGED <<retryCount, ctxDone, loopExited, broken>>
  BY DEF EnqueueRequest
<1>2. /\ \A s \in Request : s # r => ch'[s] = ch[s] /\ msgID'[s] = msgID[s]
      /\ ch'[r] = "open" /\ msgID'[r] = id
      /\ ch' \in [Request -> ChanState] /\ msgID' \in [Request -> MsgID]
  BY <1>1 DEF TypeOK, ChanState
<1>3. \A k \in MsgID : pending[k] # r
  BY <1>1 DEF TypeOK, PendingOpen
<1>4. \A i \in 1..Len(queue) : queue[i] \in Request /\ queue[i] # r
  BY <1>1 DEF TypeOK, QueueWaits
<1>5. sends[r] = 0 /\ retryCount[r] = 0
  BY <1>1 DEF Budget
<1>6. CASE /\ Cardinality(InFlight(pending)) < WindowSize
           /\ activateMessage(r, id, pending, sends, due) /\ UNCHANGED queue
  <2>1. /\ pending' = [pending EXCEPT ![id] = r]
        /\ sends' = [sends EXCEPT ![r] = @ + 1]
        /\ due' = due \ {r} /\ wakeup' = TRUE
    BY <1>6 DEF activateMessage
  <2>2. TypeOK'
    <3>1. wakeup' \in BOOLEAN
      BY <2>1, Zenon
    <3> QED
      BY <1>1, <1>2, <1>6, <2>1, <3>1 DEF TypeOK
  <2>3. PendingOpen'
    BY <1>2, <1>3, <2>1 DEF PendingOpen, TypeOK
  <2>4. QueueWaits' /\ QueueInjective'
    BY <1>2, <1>4, <1>6, <2>1 DEF QueueWaits, Flies, QueueInjective, TypeOK
  <2>5. WindowBound'
    <3>1. Cardinality(InFlight(pending')) <= Cardinality(InFlight(pending)) + 1
      BY <2>1, OneSlotAtMost DEF TypeOK
    <3> QED
      BY <1>6, <3>1, InFlightFinite DEF WindowBound, InFlight
  <2>6. QueueNeverStranded'
    BY <2>1 DEF QueueNeverStranded, InFlight, TypeOK
  <2>7. NeverBroken' /\ LoopOrder'
    BY <1>1 DEF NeverBroken, LoopOrder
  <2>8. Budget'
    <3> SUFFICES ASSUME NEW s \in Request
                 PROVE  /\ ch'[s] = "nil" => sends'[s] = 0 /\ retryCount'[s] = 0
                        /\ InQueue(s)' => sends'[s] = 0 /\ retryCount'[s] = 0
                        /\ Flies(s)' => sends'[s] = retryCount'[s] + 1 /\ retryCount'[s] <= MaxRetries
                        /\ sends'[s] <= MaxRetries + 1
                        /\ ch'[s] = "closed" /\ ~ctxDone' => sends'[s] = MaxRetries + 1
      BY Zenon DEF Budget
    <3>1. CASE s = r
      <4>1. sends'[r] = 1 /\ retryCount'[r] = 0
        BY <1>1, <1>5, <2>1 DEF TypeOK
      <4>2. ~InQueue(r)'
        BY <1>4, <1>6 DEF InQueue
      <4> QED
        BY <3>1, <4>1, <4>2, <1>2
    <3>2. CASE s # r
      <4>1. sends'[s] = sends[s] /\ retryCount'[s] = retryCount[s] /\ ch'[s] = ch[s]
        BY <3>2, <1>1, <1>2, <2>1 DEF TypeOK
      <4>2. (InQueue(s)' => InQueue(s)) /\ (Flies(s)' => Flies(s))
        BY <3>2, <1>6, <2>1 DEF InQueue, Flies, TypeOK
      <4> QED
        BY <4>1, <4>2, <1>1 DEF Budget
    <3> QED
      BY <3>1, <3>2
  <2> QED
    BY <2>2, <2>3, <2>4, <2>5, <2>6, <2>7, <2>8
<1>7. CASE /\ ~(Cardinality(InFlight(pending)) < WindowSize)
           /\ queue' = Append(queue, r)
           /\ UNCHANGED <<pending, sends, due, wakeup>>
  <2>1. /\ Len(queue) \in Nat /\ queue' \in Seq(Request) /\ Len(queue') = Len(queue) + 1
        /\ \A i \in 1..Len(queue) : queue'[i] = queue[i]
        /\ queue'[Len(queue) + 1] = r
    BY <1>7, AppendProperties, LenProperties DEF TypeOK
  <2>2. TypeOK'
    BY <1>1, <1>2, <1>7, <2>1 DEF TypeOK
  <2>3. PendingOpen'
    BY <1>2, <1>3, <1>7 DEF PendingOpen, TypeOK
  <2>4. \A i \in 1..Len(queue') :
            \/ i = Len(queue) + 1 /\ queue'[i] = r
            \/ i \in 1..Len(queue) /\ queue'[i] = queue[i]
    BY <2>1
  <2>5. QueueWaits'
    BY <1>2, <1>3, <1>4, <1>7, <2>4 DEF QueueWaits, Flies
  <2>6. QueueInjective'
    BY <1>4, <2>1, <2>4 DEF QueueInjective
  <2>7. WindowBound' /\ NeverBroken' /\ LoopOrder'
    BY <1>1, <1>7 DEF WindowBound, NeverBroken, LoopOrder, InFlight
  <2>8. QueueNeverStranded'
    <3>1. InFlight(pending) # {}
      <4> SUFFICES ASSUME InFlight(pending) = {} PROVE FALSE
        OBVIOUS
      <4>1. Cardinality(InFlight(pending)) = 0
        BY FS_EmptySet
      <4> QED
        BY <4>1, <1>7
    <3> QED
      BY <3>1, <1>7 DEF QueueNeverStranded, InFlight
  <2>9. Budget'
    <3>1. ASSUME NEW s \in Request
          PROVE  /\ Flies(s)' <=> Flies(s)
                 /\ InQueue(s)' => s = r \/ InQueue(s)
      BY <1>7, <2>4 DEF Flies, InQueue
    <3>2. ~Flies(r)
      BY <1>3 DEF Flies
    <3> QED
      BY <1>1, <1>2, <1>7, <3>1, <3>2 DEF Budget
  <2> QED
    BY <2>2, <2>3, <2>5, <2>6, <2>7, <2>8, <2>9
<1> QED
  BY <1>6, <1>7 DEF EnqueueRequest

(* EnqueueRequest under an ID no waiting request carries. *)
LEMMA EnqueueShape ==
  ASSUME Shape, NEW r \in Request, NEW id \in MsgID, FreeID(id),
         EnqueueRequest(r, id)
  PROVE  QueueOpen' /\ DistinctIDs' /\ NoLostWaiter'
<1> USE DEF Shape, Slots
<1>1. /\ ch[r] = "nil" /\ ch' = [ch EXCEPT ![r] = "open"]
      /\ msgID' = [msgID EXCEPT ![r] = id]
  BY DEF EnqueueRequest
<1>2. /\ \A s \in Request : s # r => ch'[s] = ch[s] /\ msgID'[s] = msgID[s]
      /\ ch'[r] = "open" /\ msgID'[r] = id
  BY <1>1 DEF TypeOK
<1>3. DistinctIDs'
  BY <1>2 DEF DistinctIDs, FreeID
<1>4. pending[id] = None
  BY <1>1 DEF TypeOK, PendingOpen, FreeID
<1>5. \A i \in 1..Len(queue) :
          /\ queue[i] \in Request /\ queue[i] # r /\ msgID[queue[i]] # id
          /\ ch[queue[i]] = "open" /\ pending[msgID[queue[i]]] = None
  BY <1>1 DEF TypeOK, QueueOpen, FreeID
<1>6. CASE activateMessage(r, id, pending, sends, due) /\ UNCHANGED queue
  <2>1. pending' = [pending EXCEPT ![id] = r]
    BY <1>6 DEF activateMessage
  <2>2. QueueOpen'
    BY <1>2, <1>5, <1>6, <2>1 DEF QueueOpen, TypeOK
  <2>3. NoLostWaiter'
    <3> SUFFICES ASSUME NEW s \in Request, ch'[s] = "open"
                 PROVE  pending'[msgID'[s]] = s \/ InQueue(s)'
      BY DEF NoLostWaiter
    <3>1. CASE s = r
      BY <3>1, <1>2, <2>1 DEF TypeOK
    <3>2. CASE s # r /\ InQueue(s)
      BY <3>2, <1>6 DEF InQueue
    <3>3. CASE s # r /\ pending[msgID[s]] = s
      BY <3>3, <1>2, <1>4, <2>1 DEF TypeOK
    <3> QED
      BY <3>1, <3>2, <3>3, <1>2 DEF NoLostWaiter
  <2> QED
    BY <1>3, <2>2, <2>3
<1>7. CASE queue' = Append(queue, r) /\ pending' = pending
  <2>1. /\ Len(queue) \in Nat /\ Len(queue') = Len(queue) + 1
        /\ \A i \in 1..Len(queue) : queue'[i] = queue[i]
        /\ queue'[Len(queue) + 1] = r
    BY <1>7, AppendProperties, LenProperties DEF TypeOK
  <2>2. \A i \in 1..Len(queue') :
            queue'[i] = r \/ (i \in 1..Len(queue) /\ queue'[i] = queue[i])
    BY <2>1
  <2>3. QueueOpen'
    BY <1>2, <1>4, <1>5, <1>7, <2>2 DEF QueueOpen
  <2>4. NoLostWaiter'
    <3> SUFFICES ASSUME NEW s \in Request, ch'[s] = "open"
                 PROVE  pending'[msgID'[s]] = s \/ InQueue(s)'
      BY DEF NoLostWaiter
    <3>1. CASE s = r
      BY <3>1, <2>1 DEF InQueue
    <3>2. CASE s # r /\ InQueue(s)
      <4>1. PICK i \in 1..Len(queue) : queue[i] = s
        BY <3>2 DEF InQueue
      <4>2. i \in 1..Len(queue') /\ queue'[i] = s
        BY <4>1, <2>1
      <4> QED
        BY <4>2 DEF InQueue
    <3>3. CASE s # r /\ pending[msgID[s]] = s
      BY <3>3, <1>2, <1>7
    <3> QED
      BY <3>1, <3>2, <3>3, <1>2 DEF NoLostWaiter
  <2> QED
    BY <1>3, <2>3, <2>4
<1> QED
  BY <1>6, <1>7 DEF EnqueueRequest
-----------------------------------------------------------------------------
(* The retransmission counts as they stand between the release of the IDs  *)
(* in D and the pump: s is the transmission count the caller has computed. *)
BudgetBeforePump(D, s) ==
    \A r \in Request :
        /\ ch'[r] = "nil" => s[r] = 0 /\ retryCount'[r] = 0
        /\ InQueue(r) => s[r] = 0 /\ retryCount'[r] = 0
        /\ (\E id \in MsgID : Freed(D)[id] = r) =>
                s[r] = retryCount'[r] + 1 /\ retryCount'[r] <= MaxRetries
        /\ s[r] <= MaxRetries + 1
        /\ ch'[r] = "closed" /\ ~ctxDone' => s[r] = MaxRetries + 1

(* The pump spends the first transmission of the request it activates. *)
LEMMA ReleaseBudget ==
  ASSUME Slots,
         NEW D \in SUBSET InFlight(pending), D # {},
         NEW x \in {"full", "closed"}, NEW s \in [Request -> Nat],
         NEW d \in SUBSET Request, NEW w \in BOOLEAN,
         Release(D, x, s, d, w),
         retryCount' \in [Request -> Nat],
         BudgetBeforePump(D, s)
  PROVE  /\ Budget'
         /\ sends' \in [Request -> Nat] /\ due' \subseteq Request /\ wakeup' \in BOOLEAN
<1>1. CASE queue = <<>> /\ queue' = <<>> /\ pending' = Freed(D) /\ sends' = s /\ due' = d /\ wakeup' = w
  <2>1. \A r \in Request : (InQueue(r)' <=> InQueue(r)) /\ (Flies(r)' <=> \E id \in MsgID : Freed(D)[id] = r)
    BY <1>1 DEF InQueue, Flies
  <2> QED
    BY <1>1, <2>1 DEF Budget, BudgetBeforePump
<1>2. CASE /\ queue # <<>> /\ 1 \in 1..Len(queue)
           /\ Head(queue) \in Request /\ Head(queue) = queue[1]
           /\ ch[Head(queue)] = "open"
           /\ activateMessage(Head(queue), msgID[Head(queue)], Freed(D), s, d)
           /\ queue' = Tail(queue)
  <2> DEFINE h == Head(queue)
  <2>1. /\ Len(queue) \in Nat \ {0} /\ Len(queue') = Len(queue) - 1
        /\ \A i \in 1..Len(queue') : queue'[i] = queue[i+1]
    BY <1>2, EmptySeq, HeadTailProperties DEF Slots, TypeOK
  <2>2. InQueue(h) /\ s[h] = 0 /\ retryCount'[h] = 0
    BY <1>2, <2>1 DEF InQueue, BudgetBeforePump
  <2>3. /\ sends' = [s EXCEPT ![h] = @ + 1] /\ due' = d \ {h}
        /\ pending' = [Freed(D) EXCEPT ![msgID[h]] = h]
    BY <1>2 DEF activateMessage
  <2>4. wakeup' \in BOOLEAN
    BY <1>2, Zenon DEF activateMessage
  <2>5. sends' \in [Request -> Nat] /\ due' \subseteq Request
    BY <1>2, <2>3
  <2>6. ch'[h] = "open"
    <3>1. \A id \in D : pending[id] # h
      BY <1>2 DEF Slots, QueueWaits, Flies, InFlight
    <3> QED
      BY <1>2, <3>1 DEF Release
  <2>7. ASSUME NEW r \in Request
        PROVE  /\ ch'[r] = "nil" => sends'[r] = 0 /\ retryCount'[r] = 0
               /\ InQueue(r)' => sends'[r] = 0 /\ retryCount'[r] = 0
               /\ Flies(r)' => sends'[r] = retryCount'[r] + 1 /\ retryCount'[r] <= MaxRetries
               /\ sends'[r] <= MaxRetries + 1
               /\ ch'[r] = "closed" /\ ~ctxDone' => sends'[r] = MaxRetries + 1
    <3>1. CASE r = h
      <4>1. ~InQueue(r)'
        <5>1. \A i \in 1..Len(queue') : i + 1 \in 1..Len(queue) /\ i + 1 # 1
          BY <2>1
        <5> QED
          BY <3>1, <5>1, <1>2, <2>1 DEF InQueue, Slots, QueueInjective
      <4>2. sends'[r] = 1
        BY <3>1, <1>2, <2>2, <2>3
      <4> QED
        BY <3>1, <4>1, <4>2, <2>2, <2>6
    <3>2. CASE r # h
      <4>1. sends'[r] = s[r]
        BY <3>2, <2>3
      <4>2. InQueue(r)' => InQueue(r)
        BY <2>1 DEF InQueue
      <4>3. Flies(r)' => \E id \in MsgID : Freed(D)[id] = r
        BY <3>2, <2>3 DEF Flies, Freed
      <4> QED
        BY <4>1, <4>2, <4>3 DEF BudgetBeforePump
    <3> QED
      BY <3>1, <3>2
  <2> QED
    BY <2>4, <2>5, <2>7, Zenon DEF Budget
<1> QED
  BY <1>1, <1>2, PumpCases DEF Release

(* HandleResponse is a release of one ID. *)
LEMMA ResponseReleases ==
  ASSUME Slots, NEW id \in MsgID, HandleResponse(id)
  PROVE  /\ {id} \in SUBSET InFlight(pending) /\ {id} # {}
         /\ pending[id] \in Request /\ ch[pending[id]] = "open"
         /\ Release({id}, "full", sends, due, wakeup)
<1> USE DEF Slots
<1>1. /\ pending[id] \in Request /\ ch[pending[id]] = "open" /\ ~broken
      /\ {id} \in SUBSET InFlight(pending) /\ {id} # {}
  BY DEF HandleResponse, TypeOK, PendingOpen, NeverBroken, InFlight
<1>2. broken' = FALSE
  BY <1>1, Zenon DEF HandleResponse
<1>3. [pending EXCEPT ![id] = None] = Freed({id})
  BY DEF Freed, TypeOK
<1>4. ch' = [q \in Request |-> IF \E k \in {id} : pending[k] = q THEN "full" ELSE ch[q]]
  BY <1>1 DEF HandleResponse, TypeOK
<1> QED
  BY <1>1, <1>2, <1>3, <1>4 DEF HandleResponse, Release

(* An answered request leaves the slots in order. *)
LEMMA ResponseSlots ==
  ASSUME SlotInv, NEW id \in MsgID, HandleResponse(id)
  PROVE  SlotInv'
<1> USE DEF SlotInv, Slots
<1>1. {id} \in SUBSET InFlight(pending) /\ {id} # {}
  BY ResponseReleases
<1>2. Release({id}, "full", sends, due, wakeup)
  BY ResponseReleases
<1>3. UNCHANGED <<retryCount, ctxDone, loopExited, msgID>>
  BY DEF HandleResponse
<1>4. BudgetBeforePump({id}, sends)
  <2>1. \A q \in Request : /\ ch'[q] = ch[q] \/ ch'[q] = "full"
                           /\ (\E k \in MsgID : Freed({id})[k] = q) => Flies(q)
    BY <1>2 DEF Release, Freed, Flies, TypeOK
  <2> QED
    BY <1>3, <2>1 DEF BudgetBeforePump, Budget
<1>5. /\ Budget'
      /\ sends' \in [Request -> Nat] /\ due' \subseteq Request /\ wakeup' \in BOOLEAN
  BY ZenonT(60), <1>1, <1>2, <1>3, <1>4, ReleaseBudget DEF TypeOK
<1>6. /\ pending' \in [MsgID -> Request \cup {None}]
      /\ queue' \in Seq(Request)
      /\ PendingOpen' /\ QueueWaits' /\ QueueInjective'
      /\ WindowBound' /\ QueueNeverStranded' /\ NeverBroken'
  BY <1>1, <1>2, ReleaseSlots
<1>7. ch' \in [Request -> ChanState]
  BY <1>2 DEF Release, ChanState, TypeOK
<1>8. broken' \in BOOLEAN /\ LoopOrder'
  BY <1>2, <1>3 DEF Release, LoopOrder
<1>9. TypeOK'
  BY <1>3, <1>5, <1>6, <1>7, <1>8 DEF TypeOK
<1> QED
  BY <1>5, <1>6, <1>8, <1>9
-----------------------------------------------------------------------------
(* The names checkTimeouts gives to what it computes. *)
Expired == {id \in InFlight(pending) : pending[id] \in due}
ToDelete == {id \in Expired : retryCount[pending[id]] >= MaxRetries}
Dropped == {pending[id] : id \in ToDelete}
Resent == {pending[id] : id \in Expired \ ToDelete}
SendsAfter == [r \in Request |-> IF r \in Resent THEN sends[r] + 1 ELSE sends[r]]

(* What checkTimeouts does before it pumps the queue. *)
LEMMA TimeoutFacts ==
  ASSUME SlotInv, NEW w \in BOOLEAN, checkTimeouts(w)
  PROVE  /\ ToDelete \in SUBSET InFlight(pending)
         /\ Resent \in SUBSET Request /\ Dropped \in SUBSET Request
         /\ retryCount' = [r \in Request |->
                IF r \in Resent THEN retryCount[r] + 1 ELSE retryCount[r]]
         /\ broken' = FALSE
         /\ ch' = [r \in Request |->
                IF \E id \in ToDelete : pending[id] = r THEN "closed" ELSE ch[r]]
         /\ IF ToDelete # {}
            THEN pumpQueue(Freed(ToDelete), SendsAfter, due \ Resent, w)
            ELSE /\ pending' = Freed(ToDelete) /\ sends' = SendsAfter
                 /\ due' = due \ Resent /\ wakeup' = w /\ UNCHANGED queue
         /\ UNCHANGED <<msgID, ctxDone, loopExited>>
<1> USE DEF SlotInv, Slots
<1>1. ToDelete \in SUBSET InFlight(pending)
  BY DEF ToDelete, Expired
<1>2. Resent \in SUBSET Request /\ Dropped \in SUBSET Request
  BY DEF Resent, Dropped, ToDelete, Expired, InFlight, TypeOK
<1>3. \A r \in Dropped : ch[r] = "open"
  BY DEF Dropped, ToDelete, Expired, InFlight, TypeOK, PendingOpen
<1>4. broken' = FALSE
  <2>1. broken' = (broken \/ \E r \in Dropped : ch[r] # "open")
    BY DEF checkTimeouts, Dropped, ToDelete, Expired
  <2> QED
    BY <1>3, <2>1, Zenon DEF NeverBroken
<1>5. ch' = [r \in Request |-> IF \E id \in ToDelete : pending[id] = r THEN "closed" ELSE ch[r]]
  <2>1. ch' = [r \in Request |-> IF r \in Dropped THEN "closed" ELSE ch[r]]
    BY DEF checkTimeouts, Dropped, ToDelete, Expired
  <2>2. \A r : r \in Dropped <=> \E id \in ToDelete : pending[id] = r
    BY DEF Dropped
  <2> QED
    BY <2>1, <2>2
<1>6. /\ retryCount' = [r \in Request |->
                IF r \in Resent THEN retryCount[r] + 1 ELSE retryCount[r]]
      /\ IF ToDelete # {}
         THEN pumpQueue(Freed(ToDelete), SendsAfter, due \ Resent, w)
         ELSE /\ pending' = Freed(ToDelete) /\ sends' = SendsAfter
              /\ due' = due \ Resent /\ wakeup' = w /\ UNCHANGED queue
      /\ UNCHANGED <<msgID, ctxDone, loopExited>>
  BY DEF checkTimeouts, Freed, SendsAfter, Resent, ToDelete, Expired
<1> QED
  BY <1>1, <1>2, <1>4, <1>5, <1>6

(* The counts stay within the budget: what is dropped has used it up, what *)
(* is sent again had a retry left.                                         *)
LEMMA TimeoutBudget ==
  ASSUME SlotInv, NEW w \in BOOLEAN, checkTimeouts(w)
  PROVE  /\ SendsAfter \in [Request -> Nat] /\ retryCount' \in [Request -> Nat]
         /\ BudgetBeforePump(ToDelete, SendsAfter)
<1> USE DEF SlotInv, Slots
<1>1. SendsAfter \in [Request -> Nat] /\ retryCount' \in [Request -> Nat]
  <2>1. retryCount' = [r \in Request |->
                IF r \in Resent THEN retryCount[r] + 1 ELSE retryCount[r]]
    BY TimeoutFacts
  <2> QED
    BY <2>1 DEF SendsAfter, TypeOK
<1>2. ASSUME NEW r \in Request
      PROVE  /\ ch'[r] = "nil" => SendsAfter[r] = 0 /\ retryCount'[r] = 0
             /\ InQueue(r) => SendsAfter[r] = 0 /\ retryCount'[r] = 0
             /\ (\E id \in MsgID : Freed(ToDelete)[id] = r) =>
                    SendsAfter[r] = retryCount'[r] + 1 /\ retryCount'[r] <= MaxRetries
             /\ SendsAfter[r] <= MaxRetries + 1
             /\ ch'[r] = "closed" /\ ~ctxDone' => SendsAfter[r] = MaxRetries + 1
  <2>1. (\E id \in MsgID : Freed(ToDelete)[id] = r) => Flies(r)
    BY DEF Freed, Flies
  <2>2. CASE r \in Resent
    <3>1. PICK id \in Expired \ ToDelete : pending[id] = r
      BY <2>2 DEF Resent
    <3>2. /\ id \in MsgID /\ ch[r] = "open" /\ Flies(r) /\ ~(retryCount[r] >= MaxRetries)
          /\ msgID[r] = id
      BY <3>1 DEF Expired, ToDelete, InFlight, PendingOpen, Flies
    <3>3. ~InQueue(r) /\ (\A k \in ToDelete : pending[k] # r)
      BY <3>1, <3>2 DEF QueueWaits, InQueue, ToDelete
    <3>4. ch'[r] = "open"
      BY <3>2, <3>3, TimeoutFacts
    <3>5. SendsAfter[r] = sends[r] + 1 /\ retryCount'[r] = retryCount[r] + 1
      BY <2>2, TimeoutFacts DEF SendsAfter
    <3>6. sends[r] = retryCount[r] + 1 /\ retryCount[r] \in Nat
      BY <3>2 DEF Budget, TypeOK
    <3> QED
      BY <3>2, <3>3, <3>4, <3>5, <3>6
  <2>3. CASE r \notin Resent
    <3>1. SendsAfter[r] = sends[r] /\ retryCount'[r] = retryCount[r] /\ ctxDone' = ctxDone
      BY <2>3, TimeoutFacts DEF SendsAfter
    <3>2. CASE \E id \in ToDelete : pending[id] = r
      <4>1. ch'[r] = "closed"
        BY <3>2, TimeoutFacts
      <4>2. Flies(r) /\ retryCount[r] >= MaxRetries
        BY <3>2 DEF ToDelete, Expired, InFlight, Flies
      <4>3. sends[r] = MaxRetries + 1
        BY <4>2 DEF Budget, TypeOK
      <4> QED
        BY <2>1, <3>1, <4>1, <4>3 DEF Budget
    <3>3. CASE ~\E id \in ToDelete : pending[id] = r
      <4>1. ch'[r] = ch[r]
        BY <3>3, TimeoutFacts
      <4> QED
        BY <2>1, <3>1, <4>1 DEF Budget
    <3> QED
      BY <3>2, <3>3
  <2> QED
    BY <2>2, <2>3
<1> QED
  BY <1>1, <1>2 DEF BudgetBeforePump

(* A tick that resends, or drops one request for good, keeps the invariant. *)
LEMMA TimeoutSlots ==
  ASSUME SlotInv, NEW w \in BOOLEAN, checkTimeouts(w)
  PROVE  SlotInv'
<1> USE DEF SlotInv, Slots
<1>1. /\ retryCount' \in [Request -> Nat] /\ msgID' = msgID
      /\ ctxDone' = ctxDone /\ loopExited' = loopExited
      /\ due \ Resent \in SUBSET Request
  BY TimeoutFacts, TimeoutBudget DEF TypeOK
<1>2. ch' \in [Request -> ChanState] /\ broken' \in BOOLEAN /\ LoopOrder'
  BY <1>1, TimeoutFacts DEF ChanState, TypeOK, LoopOrder
<1>3. CASE ToDelete # {}
  <2>1. Release(ToDelete, "closed", SendsAfter, due \ Resent, w)
    BY <1>3, TimeoutFacts DEF Release
  <2>2. /\ Budget'
        /\ sends' \in [Request -> Nat] /\ due' \subseteq Request /\ wakeup' \in BOOLEAN
    <3>1. /\ ToDelete \in SUBSET InFlight(pending) /\ SendsAfter \in [Request -> Nat]
          /\ BudgetBeforePump(ToDelete, SendsAfter)
      BY TimeoutFacts, TimeoutBudget
    <3>2. "closed" \in {"full", "closed"}
      OBVIOUS
    <3> QED
      BY <1>1, <1>3, <2>1, <3>1, <3>2, ReleaseBudget
  <2>3. /\ pending' \in [MsgID -> Request \cup {None}]
        /\ queue' \in Seq(Request)
        /\ PendingOpen' /\ QueueWaits' /\ QueueInjective'
        /\ WindowBound' /\ QueueNeverStranded' /\ NeverBroken'
    BY <1>3, <2>1, TimeoutFacts, ReleaseSlots
  <2>4. TypeOK'
    BY <1>1, <1>2, <2>2, <2>3 DEF TypeOK
  <2> QED
    BY <1>2, <2>2, <2>3, <2>4
<1>4. CASE ToDelete = {}
  <2>1. /\ pending' = pending /\ queue' = queue /\ ch' = ch
        /\ sends' = SendsAfter /\ due' = due \ Resent /\ wakeup' = w
    BY ZenonT(30), <1>4, TimeoutFacts DEF Freed, TypeOK
  <2>2. wakeup' \in BOOLEAN
    BY <2>1, Zenon
  <2>3. TypeOK'
    BY <1>1, <1>2, <2>1, <2>2, TimeoutBudget DEF TypeOK
  <2>4. PendingOpen' /\ QueueWaits' /\ QueueInjective'
    BY <1>1, <2>1 DEF PendingOpen, QueueWaits, Flies, QueueInjective
  <2>5. WindowBound' /\ QueueNeverStranded' /\ NeverBroken'
    BY <2>1, TimeoutFacts DEF WindowBound, QueueNeverStranded, NeverBroken, InFlight
  <2>6. Budget'
    <3>1. \A r \in Request : /\ InQueue(r)' <=> InQueue(r)
                             /\ Flies(r)' <=> \E id \in MsgID : Freed(ToDelete)[id] = r
      BY <1>4, <2>1 DEF InQueue, Flies, Freed
    <3> QED
      BY <2>1, <3>1, TimeoutBudget DEF Budget, BudgetBeforePump
  <2> QED
    BY <1>2, <2>3, <2>4, <2>5, <2>6
<1> QED
  BY <1>3, <1>4

(* Completing everything on cancellation keeps the invariant. *)
LEMMA CtxDoneSlots == ASSUME SlotInv, LoopCtxDone PROVE SlotInv'
<1> USE DEF SlotInv, Slots
<1>1. /\ ctxDone = TRUE /\ ctxDone' = TRUE /\ loopExited' = TRUE
      /\ pending' = [id \in MsgID |-> None] /\ queue' = <<>> /\ Len(queue') = 0
      /\ UNCHANGED <<msgID, retryCount, due, sends, wakeup>>
  BY DEF LoopCtxDone, TypeOK
<1> DEFINE held == {r \in Request : InQueue(r) \/ \E id \in MsgID : pending[id] = r}
<1>2. \A r \in held : ch[r] = "open"
  BY DEF InQueue, TypeOK, PendingOpen, QueueWaits
<1>3. broken' = FALSE
  <2>1. broken' = (broken \/ \E r \in held : ch[r] # "open")
    BY DEF LoopCtxDone
  <2> QED
    BY <1>2, <2>1, Zenon DEF NeverBroken
<1>4. ch' = [r \in Request |-> IF r \in held THEN "closed" ELSE ch[r]]
  BY DEF LoopCtxDone
<1>5. \A r \in Request : ch'[r] = "nil" => ch[r] = "nil"
  BY <1>2, <1>4
<1>6. TypeOK'
  <2>1. ch' \in [Request -> ChanState] /\ queue' \in Seq(Request)
    BY <1>1, <1>4, EmptySeq DEF TypeOK, ChanState
  <2>2. ctxDone' \in BOOLEAN /\ loopExited' \in BOOLEAN /\ broken' \in BOOLEAN
    BY <1>1, <1>3, Zenon
  <2> QED
    BY <1>1, <2>1, <2>2 DEF TypeOK
<1>7. PendingOpen' /\ QueueWaits' /\ QueueInjective'
  BY <1>1 DEF PendingOpen, QueueWaits, QueueInjective
<1>8. InFlight(pending') = {}
  BY <1>1 DEF InFlight
<1>9. WindowBound' /\ QueueNeverStranded' /\ NeverBroken' /\ LoopOrder'
  <2>1. Cardinality(InFlight(pending')) = 0
    BY <1>8, FS_EmptySet
  <2> QED
    BY <1>1, <1>3, <2>1 DEF WindowBound, QueueNeverStranded, NeverBroken, LoopOrder, InFlight
<1>10. Budget'
  <2>1. \A r \in Request : ~Flies(r)' /\ ~InQueue(r)'
    BY <1>1 DEF Flies, InQueue
  <2> QED
    BY <1>1, <1>5, <2>1 DEF Budget
<1> QED
  BY <1>6, <1>7, <1>9, <1>10

(* Cancelling the context alone keeps the invariant. *)
LEMMA StopSlots == ASSUME SlotInv, Stop PROVE SlotInv'
<1> USE DEF SlotInv, Slots
<1>1. /\ ctxDone' = TRUE /\ ctxDone = FALSE
      /\ UNCHANGED <<pending, queue, msgID, retryCount, due, ch, sends, wakeup,
                     loopExited, broken>>
  BY DEF Stop, TypeOK
<1>2. TypeOK'
  BY <1>1 DEF TypeOK
<1>3. PendingOpen' /\ QueueWaits' /\ QueueInjective'
  BY <1>1 DEF PendingOpen, QueueWaits, Flies, QueueInjective
<1>4. WindowBound' /\ QueueNeverStranded' /\ NeverBroken' /\ LoopOrder'
  BY <1>1 DEF WindowBound, QueueNeverStranded, NeverBroken, LoopOrder, InFlight
<1>5. Budget'
  BY <1>1 DEF Budget, InQueue, Flies
<1> QED
  BY <1>2, <1>3, <1>4, <1>5

(* The passing of a deadline keeps the invariant. *)
LEMMA DeadlineSlots == ASSUME SlotInv, NEW r \in Request, DeadlinePasses(r) PROVE SlotInv'
<1> USE DEF SlotInv, Slots
<1>1. /\ due' = due \cup {r}
      /\ UNCHANGED <<pending, queue, msgID, retryCount, ch, sends, wakeup,
                     ctxDone, loopExited, broken>>
  BY DEF DeadlinePasses
<1>2. TypeOK'
  BY <1>1 DEF TypeOK
<1>3. PendingOpen' /\ QueueWaits' /\ QueueInjective'
  BY <1>1 DEF PendingOpen, QueueWaits, Flies, QueueInjective
<1>4. WindowBound' /\ QueueNeverStranded' /\ NeverBroken' /\ LoopOrder'
  BY <1>1 DEF WindowBound, QueueNeverStranded, NeverBroken, LoopOrder, InFlight
<1>5. Budget'
  BY <1>1 DEF Budget, InQueue, Flies
<1> QED
  BY <1>2, <1>3, <1>4, <1>5

(* A step that changes nothing keeps the invariant. *)
LEMMA StutterSlots == ASSUME SlotInv, UNCHANGED vars PROVE SlotInv'
<1>1. TypeOK' /\ PendingOpen' /\ QueueWaits' /\ QueueInjective'
  BY DEF vars, SlotInv, Slots, TypeOK, PendingOpen, QueueWaits, Flies, QueueInjective
<1>2. WindowBound' /\ QueueNeverStranded' /\ NeverBroken' /\ LoopOrder' /\ Budget'
  BY DEF vars, SlotInv, Slots, WindowBound, QueueNeverStranded, NeverBroken, LoopOrder, Budget, InFlight, InQueue, Flies
<1> QED
  BY <1>1, <1>2 DEF SlotInv, Slots

(* The window under callers that promise nothing about their IDs. *)
AnyIDNext == Next \/ \E r \in Request, id \in MsgID : EnqueueRequest(r, id)

(* The slots are inductive under any callers. *)
LEMMA StepSlots == SlotInv /\ [AnyIDNext]_vars => SlotInv'
<1> SUFFICES ASSUME SlotInv, [AnyIDNext]_vars PROVE SlotInv'
  OBVIOUS
<1>1. ASSUME NEW r \in Request, NEW id \in MsgID, EnqueueRequest(r, id)
      PROVE  SlotInv'
  BY <1>1, EnqueueSlots
<1>2. ASSUME NEW id \in MsgID, HandleResponse(id) PROVE SlotInv'
  BY <1>2, ResponseSlots
<1>3. CASE LoopWakeup
  <2>1. FALSE \in BOOLEAN /\ checkTimeouts(FALSE)
    BY <1>3, Zenon DEF LoopWakeup
  <2> QED
    BY <2>1, TimeoutSlots
<1>4. CASE LoopTick
  <2>1. wakeup \in BOOLEAN /\ checkTimeouts(wakeup)
    BY <1>4 DEF LoopTick, SlotInv, Slots, TypeOK
  <2> QED
    BY <2>1, TimeoutSlots
<1>5. CASE LoopCtxDone
  BY <1>5, CtxDoneSlots
<1>6. CASE Stop
  BY <1>6, StopSlots
<1>7. ASSUME NEW r \in Request, DeadlinePasses(r) PROVE SlotInv'
  BY <1>7, DeadlineSlots
<1>8. CASE UNCHANGED vars
  BY <1>8, StutterSlots
<1> QED
  BY <1>1, <1>2, <1>3, <1>4, <1>5, <1>6, <1>7, <1>8 DEF Next, AnyIDNext
-----------------------------------------------------------------------------
(* The same under callers whose IDs are free: nobody is lost. *)

(* Steps that complete no channel and leave the window where it is. *)
LEMMA SameShape ==
  ASSUME Shape, UNCHANGED <<pending, queue, msgID, ch>>
  PROVE  QueueOpen' /\ DistinctIDs' /\ NoLostWaiter'
BY DEF Shape, QueueOpen, DistinctIDs, NoLostWaiter, InQueue

LEMMA TimeoutShape ==
  ASSUME IInv, NEW w \in BOOLEAN, checkTimeouts(w)
  PROVE  QueueOpen' /\ DistinctIDs' /\ NoLostWaiter'
<1> USE DEF IInv, Shape
<1>1. SlotInv
  BY DEF SlotInv
<1>2. CASE ToDelete # {}
  <2>1. Release(ToDelete, "closed", SendsAfter, due \ Resent, w)
    BY <1>1, <1>2, TimeoutFacts DEF Release
  <2>2. "closed" \in {"full", "closed"} /\ ToDelete \in SUBSET InFlight(pending)
    BY <1>1, TimeoutFacts
  <2> QED
    BY <1>2, <2>1, <2>2, ReleaseShape
<1>3. CASE ToDelete = {}
  <2>1. UNCHANGED <<pending, queue, msgID, ch>>
    BY ZenonT(30), <1>1, <1>3, TimeoutFacts DEF Freed, SlotInv, Slots, TypeOK
  <2> QED
    BY <2>1, SameShape
<1> QED
  BY <1>2, <1>3

LEMMA CtxDoneShape ==
  ASSUME Shape, LoopCtxDone
  PROVE  QueueOpen' /\ DistinctIDs' /\ NoLostWaiter'
<1> USE DEF Shape
<1> DEFINE held == {r \in Request : InQueue(r) \/ \E id \in MsgID : pending[id] = r}
<1>1. \A r \in Request : ch[r] = "open" => r \in held
  BY DEF NoLostWaiter, Slots, TypeOK
<1>2. ch' = [r \in Request |-> IF r \in held THEN "closed" ELSE ch[r]]
  BY DEF LoopCtxDone
<1>3. \A r \in Request : ch'[r] # "open"
  BY <1>1, <1>2
<1>4. Len(queue') = 0
  BY DEF LoopCtxDone
<1> QED
  BY <1>3, <1>4 DEF QueueOpen, DistinctIDs, NoLostWaiter

(* The invariant is inductive: every step of the window keeps it. *)
LEMMA StepIInv == IInv /\ [Next]_vars => IInv'
<1> SUFFICES ASSUME IInv, [Next]_vars PROVE IInv'
  OBVIOUS
<1>1. SlotInv /\ Shape
  BY DEF IInv, SlotInv, Shape
<1>2. SlotInv'
  BY <1>1, StepSlots DEF AnyIDNext
<1>3. QueueOpen' /\ DistinctIDs' /\ NoLostWaiter'
  <2>1. ASSUME NEW r \in Request, NEW id \in MsgID, FreeID(id) /\ EnqueueRequest(r, id)
        PROVE  QueueOpen' /\ DistinctIDs' /\ NoLostWaiter'
    BY <1>1, <2>1, EnqueueShape
  <2>2. ASSUME NEW id \in MsgID, HandleResponse(id)
        PROVE  QueueOpen' /\ DistinctIDs' /\ NoLostWaiter'
    <3>1. /\ Release({id}, "full", sends, due, wakeup) /\ "full" \in {"full", "closed"}
          /\ {id} \in SUBSET InFlight(pending) /\ {id} # {}
      BY <1>1, <2>2, ResponseReleases DEF Shape
    <3> QED
      BY <1>1, <3>1, ReleaseShape
  <2>3. CASE LoopWakeup
    <3>1. FALSE \in BOOLEAN /\ checkTimeouts(FALSE)
      BY <2>3, Zenon DEF LoopWakeup
    <3> QED
      BY <3>1, TimeoutShape
  <2>4. CASE LoopTick
    <3>1. wakeup \in BOOLEAN /\ checkTimeouts(wakeup)
      BY <1>1, <2>4 DEF LoopTick, SlotInv, Slots, TypeOK
    <3> QED
      BY <3>1, TimeoutShape
  <2>5. CASE LoopCtxDone
    BY <1>1, <2>5, CtxDoneShape
  <2>6. CASE Stop \/ (\E r \in Request : DeadlinePasses(r)) \/ UNCHANGED vars
    <3>1. UNCHANGED <<pending, queue, msgID, ch>>
      BY <2>6 DEF Stop, DeadlinePasses, vars
    <3> QED
      BY <1>1, <3>1, SameShape
  <2> QED
    BY <2>1, <2>2, <2>3, <2>4, <2>5, <2>6 DEF Next
<1> QED
  BY <1>2, <1>3 DEF IInv, SlotInv, Shape

(* The inductive invariant holds in every behaviour of the window. *)
THEOREM WindowInvariant == Spec => []IInv
<1> QED
  BY InitIInv, StepIInv, PTL DEF Spec
(* Every reachable state of the window is well typed. *)
THEOREM TypeCorrect == Spec => []TypeOK
<1>1. IInv => TypeOK
  BY DEF IInv, Shape, Slots
<1> QED
  BY <1>1, WindowInvariant, PTL

(* At most WindowSize requests are in flight, for every window size. *)
THEOREM WindowIsBounded == Spec => []WindowBound
<1>1. IInv => WindowBound
  BY DEF IInv, Shape, Slots
<1> QED
  BY <1>1, WindowInvariant, PTL

(* A caller whose channel is open is in the window or in the queue. *)
THEOREM NoWaiterIsLost == Spec => []NoLostWaiter
<1>1. IInv => NoLostWaiter
  BY DEF IInv, Shape, Slots
<1> QED
  BY <1>1, WindowInvariant, PTL

(* Pumping one request at a time never strands the queue behind an empty   *)
(* window, although pumpQueue leaves free slots unused.                    *)
THEOREM QueueIsNeverStranded == Spec => []QueueNeverStranded
<1>1. IInv => QueueNeverStranded
  BY DEF IInv, Shape, Slots
<1> QED
  BY <1>1, WindowInvariant, PTL

(* No completion channel is closed twice or written after completion. *)
THEOREM NoChannelPanic == Spec => []NeverBroken
<1>1. IInv => NeverBroken
  BY DEF IInv, Shape, Slots
<1> QED
  BY <1>1, WindowInvariant, PTL

(* A hard timeout comes after exactly MaxRetries retransmissions. *)
THEOREM RetriesWithinBudget == Spec => []RetryBudget
<1>1. IInv => RetryBudget
  BY DEF IInv, Budget, RetryBudget
<1> QED
  BY <1>1, WindowInvariant, PTL

-----------------------------------------------------------------------------
Finished(r) == ch[r] \in {"full", "closed"}

(* A release touches the channels of requests in flight only, and the pump *)
(* transmits a queued one: both are still open.                            *)
LEMMA ReleaseKeepsFinished ==
  ASSUME Slots,
         NEW D \in SUBSET InFlight(pending), D # {},
         NEW x, NEW s, NEW d, NEW w, Release(D, x, s, d, w),
         NEW r \in Request, Finished(r), s \in [Request -> Nat], s[r] = sends[r]
  PROVE  ch'[r] = ch[r] /\ sends'[r] = sends[r]
<1>1. \A id \in D : pending[id] # r
  BY DEF Slots, PendingOpen, InFlight, Finished
<1>2. ch'[r] = ch[r]
  BY <1>1 DEF Release
<1>3. CASE sends' = s
  BY <1>2, <1>3
<1>4. CASE /\ ch[Head(queue)] = "open"
           /\ activateMessage(Head(queue), msgID[Head(queue)], Freed(D), s, d)
  <2>1. r # Head(queue)
    BY <1>4 DEF Finished
  <2>2. sends' = [s EXCEPT ![Head(queue)] = @ + 1]
    BY <1>4 DEF activateMessage
  <2>3. sends'[r] = s[r]
    BY <2>1, <2>2
  <2> QED
    BY <1>2, <2>3
<1> QED
  BY <1>3, <1>4, PumpCases DEF Release

(* A tick of the timer does not touch a completed request. *)
LEMMA TimeoutKeepsFinished ==
  ASSUME SlotInv, NEW w \in BOOLEAN, checkTimeouts(w), NEW r \in Request, Finished(r)
  PROVE  ch'[r] = ch[r] /\ sends'[r] = sends[r]
<1> USE DEF SlotInv
<1>1. r \notin Resent
  BY DEF Resent, Expired, InFlight, Slots, PendingOpen, Finished
<1>2. SendsAfter[r] = sends[r] /\ SendsAfter \in [Request -> Nat]
  BY <1>1, TimeoutBudget DEF SendsAfter
<1>3. CASE ToDelete # {}
  <2>1. Release(ToDelete, "closed", SendsAfter, due \ Resent, w)
    BY <1>3, TimeoutFacts DEF Release
  <2>2. ToDelete \in SUBSET InFlight(pending)
    BY TimeoutFacts
  <2> QED
    BY <1>2, <1>3, <2>1, <2>2, ReleaseKeepsFinished
<1>4. CASE ToDelete = {}
  BY <1>2, <1>4, TimeoutFacts
<1> QED
  BY <1>3, <1>4

(* No step of the window touches a completed request. *)
LEMMA StepKeepsFinished ==
  ASSUME SlotInv, [AnyIDNext]_vars, NEW r \in Request, Finished(r)
  PROVE  ch'[r] = ch[r] /\ sends'[r] = sends[r]
<1> USE DEF SlotInv
<1>1. ASSUME NEW q \in Request, NEW id \in MsgID, EnqueueRequest(q, id)
      PROVE  ch'[r] = ch[r] /\ sends'[r] = sends[r]
  <2>1. q # r /\ ch' = [ch EXCEPT ![q] = "open"]
        /\ (sends' = sends \/ sends' = [sends EXCEPT ![q] = @ + 1])
    BY <1>1 DEF EnqueueRequest, activateMessage, Finished
  <2> QED
    BY <2>1 DEF Slots, TypeOK
<1>2. ASSUME NEW id \in MsgID, HandleResponse(id)
      PROVE  ch'[r] = ch[r] /\ sends'[r] = sends[r]
  <2>1. Release({id}, "full", sends, due, wakeup) /\ {id} \in SUBSET InFlight(pending)
    BY <1>2, ResponseReleases
  <2> QED
    BY <2>1, ReleaseKeepsFinished DEF Slots, TypeOK
<1>3. CASE LoopWakeup
  <2>1. FALSE \in BOOLEAN /\ checkTimeouts(FALSE)
    BY <1>3, Zenon DEF LoopWakeup
  <2> QED
    BY <2>1, TimeoutKeepsFinished
<1>4. CASE LoopTick
  <2>1. wakeup \in BOOLEAN /\ checkTimeouts(wakeup)
    BY <1>4 DEF LoopTick, Slots, TypeOK
  <2> QED
    BY <2>1, TimeoutKeepsFinished
<1>5. CASE LoopCtxDone
  <2>1. ~InQueue(r)
    BY DEF Slots, QueueWaits, InQueue, Finished
  <2>2. \A id \in MsgID : pending[id] # r
    BY DEF Slots, PendingOpen, Finished
  <2>3. sends' = sends /\ ch'[r] = IF InQueue(r) \/ \E id \in MsgID : pending[id] = r
                                 THEN "closed" ELSE ch[r]
    BY <1>5 DEF LoopCtxDone
  <2> QED
    BY <2>1, <2>2, <2>3
<1>6. CASE Stop \/ (\E q \in Request : DeadlinePasses(q)) \/ UNCHANGED vars
  BY <1>6 DEF Stop, DeadlinePasses, vars
<1> QED
  BY <1>1, <1>2, <1>3, <1>4, <1>5, <1>6 DEF Next, AnyIDNext

(* A completed request keeps its outcome and is never transmitted again. *)
THEOREM CompletionIsFinal == Spec => CompletedIsFinal
<1>1. IInv /\ [Next]_vars =>
          [\A r \in Request : ch[r] \in {"full", "closed"} =>
               ch'[r] = ch[r] /\ sends'[r] = sends[r]]_vars
  BY StepKeepsFinished DEF Finished, IInv, SlotInv, Shape, AnyIDNext
<1> QED
  BY <1>1, WindowInvariant, PTL DEF Spec, CompletedIsFinal
-----------------------------------------------------------------------------
(* Refinement of RequestWindow. *)

(* The abstract status of a request, read off the concrete state. *)
StatusReads ==
    \A r \in Request :
        /\ statusOf(r) = "idle" <=> ch[r] = "nil"
        /\ statusOf(r) = "answered" <=> ch[r] = "full"
        /\ statusOf(r) = "failed" <=> ch[r] = "closed"
        /\ statusOf(r) = "flying" <=> Flies(r)
        /\ statusOf(r) = "queued" <=> InQueue(r)

(* What the refinement mapping reads from a well-shaped window. *)
LEMMA StatusFacts == Shape => StatusReads
<1> SUFFICES ASSUME Shape, NEW r \in Request
             PROVE  /\ statusOf(r) = "idle" <=> ch[r] = "nil"
                    /\ statusOf(r) = "answered" <=> ch[r] = "full"
                    /\ statusOf(r) = "failed" <=> ch[r] = "closed"
                    /\ statusOf(r) = "flying" <=> Flies(r)
                    /\ statusOf(r) = "queued" <=> InQueue(r)
  BY Zenon DEF StatusReads
<1>1. ch[r] \in {"nil", "open", "full", "closed"} /\ r # None /\ msgID[r] \in MsgID
  BY DEF Shape, Slots, TypeOK, ChanState
<1>2. Flies(r) <=> ch[r] = "open" /\ pending[msgID[r]] = r
  BY <1>1 DEF Shape, Slots, PendingOpen, Flies
<1>3. InQueue(r) <=> ch[r] = "open" /\ pending[msgID[r]] # r
  BY <1>1 DEF Shape, Slots, QueueOpen, InQueue, NoLostWaiter
<1>4. /\ statusOf(r) = "idle" <=> ch[r] = "nil"
      /\ statusOf(r) = "answered" <=> ch[r] = "full"
      /\ statusOf(r) = "failed" <=> ch[r] = "closed"
      /\ statusOf(r) = "flying" <=> ch[r] = "open" /\ pending[msgID[r]] = r
      /\ statusOf(r) = "queued" <=> ch[r] = "open" /\ pending[msgID[r]] # r
  BY <1>1 DEF statusOf
<1> QED
  BY <1>2, <1>3, <1>4

(* Every request has exactly one of the five abstract statuses. *)
StatusTotal ==
    \A r \in Request : statusOf(r) \in {"idle", "queued", "flying", "answered", "failed"}

(* The refinement mapping gives every request a status. *)
LEMMA StatusTyped == StatusTotal
  BY DEF StatusTotal, statusOf

(* The instance's Cardinality is the one of FiniteSets. *)
LEMMA SameCardinality == \A S : Window!Cardinality(S) = Cardinality(S)
  BY DEF Cardinality, Window!Cardinality

(* As many requests fly as IDs are in use. *)
LEMMA FlyingCount ==
  ASSUME Shape
  PROVE  Cardinality(Window!Flying) = Cardinality(InFlight(pending))
<1> DEFINE f == [id \in InFlight(pending) |-> pending[id]]
<1>1. Window!Flying = {r \in Request : Flies(r)}
  BY StatusFacts DEF Window!Flying, StatusReads
<1>2. \A id \in InFlight(pending) : f[id] \in Window!Flying
  BY <1>1 DEF Flies, InFlight, Shape, Slots, TypeOK
<1>3. \A a, b \in InFlight(pending) : f[a] = f[b] => a = b
  BY DEF InFlight, Shape, Slots, PendingOpen
<1>4. \A r \in Window!Flying : \E id \in InFlight(pending) : f[id] = r
  BY <1>1 DEF Flies, InFlight
<1>5. f \in Bijection(InFlight(pending), Window!Flying)
  <2>1. f \in [InFlight(pending) -> Window!Flying]
    BY <1>2
  <2> QED
    BY <2>1, <1>3, <1>4 DEF Bijection, Injection, Surjection, IsInjective
<1>6. ExistsBijection(InFlight(pending), Window!Flying)
  BY <1>5 DEF ExistsBijection
<1> QED
  BY <1>6, InFlightFinite, FS_Bijection
(* A release of the IDs in D lands the requests that held them. *)
LEMMA ReleaseLands ==
  ASSUME Shape, Shape',
         NEW D \in SUBSET InFlight(pending), D # {},
         NEW x \in {"full", "closed"}, NEW s, NEW d, NEW w,
         Release(D, x, s, d, w), loopExited' = loopExited,
         x = "full" => \E id : D = {id}
  PROVE  Window!ANext
<1> DEFINE landed == {pending[id] : id \in D}
           outcome == IF x = "full" THEN "answered" ELSE "failed"
<1>1. StatusReads /\ StatusReads' /\ StatusTotal /\ StatusTotal'
  <2>1. StatusTotal'
    BY StatusTyped, PTL
  <2>2. Shape' => StatusReads'
    BY StatusFacts, PTL
  <2> QED
    BY <2>1, <2>2, StatusFacts, StatusTyped
<1>2. landed \in SUBSET Request /\ landed # {} /\ \A r \in landed : Flies(r)
  BY DEF InFlight, Shape, Slots, TypeOK, Flies
<1>3. landed \subseteq Window!Flying
  BY <1>1, <1>2 DEF Window!Flying, StatusReads
<1>4. outcome = "answered" => Cardinality(landed) = 1
  <2> SUFFICES ASSUME x = "full" PROVE Cardinality(landed) = 1
    OBVIOUS
  <2>1. PICK id : D = {id}
    OBVIOUS
  <2>2. landed = {pending[id]}
    BY <2>1
  <2> QED
    BY <2>2, FS_Singleton
<1>5. queue' = IF queue = <<>> THEN queue ELSE Tail(queue)
  BY PumpCases DEF Release, Shape
<1>6. ASSUME NEW r \in Request
      PROVE  statusOf(r)' = IF r \in landed THEN outcome
                            ELSE IF queue # <<>> /\ r = Head(queue) THEN "flying"
                            ELSE statusOf(r)
  <2>1. ch'[r] = IF r \in landed THEN x ELSE ch[r]
    BY DEF Release
  <2>2. CASE r \in landed
    BY <1>1, <2>1, <2>2 DEF StatusReads
  <2>3. CASE r \notin landed /\ queue # <<>> /\ r = Head(queue)
    <3>1. activateMessage(r, msgID[r], Freed(D), s, d) /\ msgID[r] \in MsgID
      BY <2>3, PumpCases DEF Release, Shape, Slots, TypeOK
    <3>2. Flies(r)'
      BY <3>1 DEF activateMessage, Flies, Freed
    <3> QED
      BY <1>1, <2>3, <3>2 DEF StatusReads
  <2>4. CASE r \notin landed /\ ~(queue # <<>> /\ r = Head(queue))
    <3>1. ch'[r] = ch[r]
      BY <2>1, <2>4
    <3>2. CASE ch[r] # "open"
      <4>1. ch[r] \in {"nil", "full", "closed"}
        BY <3>2 DEF Shape, Slots, TypeOK, ChanState
      <4>2. statusOf(r)' = statusOf(r)
        BY <3>1, <4>1, <1>1 DEF StatusReads
      <4> QED
        BY <2>4, <4>2
    <3>3. CASE ch[r] = "open"
      <4>1. Flies(r)' <=> Flies(r)
        <5>1. (\E id \in MsgID : Freed(D)[id] = r) <=> Flies(r)
          BY <2>4 DEF Freed, Flies
        <5>2. CASE pending' = Freed(D)
          BY <5>1, <5>2 DEF Flies
        <5>3. CASE /\ queue # <<>> /\ Head(queue) \in Request
                   /\ Freed(D)[msgID[Head(queue)]] = None
                   /\ activateMessage(Head(queue), msgID[Head(queue)], Freed(D), s, d)
          <6>1. /\ pending' = [Freed(D) EXCEPT ![msgID[Head(queue)]] = Head(queue)]
                /\ r # Head(queue) /\ r # None
            BY <5>3, <2>4 DEF activateMessage
          <6>2. \A id \in MsgID : pending'[id] = r <=> Freed(D)[id] = r
            BY <5>3, <6>1 DEF Freed
          <6> QED
            BY <5>1, <6>2 DEF Flies
        <5>4. ASSUME queue # <<>>, 1 \in 1..Len(queue), Head(queue) = queue[1],
                     Head(queue) \in Request
              PROVE  Freed(D)[msgID[Head(queue)]] = None
          BY <5>4 DEF Shape, Slots, QueueOpen, Freed, TypeOK
        <5> QED
          BY <5>2, <5>3, <5>4, PumpCases DEF Release, Shape
      <4>2. statusOf(r) \in {"queued", "flying"} /\ statusOf(r)' \in {"queued", "flying"}
        BY <3>1, <3>3, <1>1 DEF StatusReads, StatusTotal
      <4> QED
        BY <1>1, <2>4, <4>1, <4>2 DEF StatusReads
    <3> QED
      BY <3>2, <3>3
  <2> QED
    BY <2>2, <2>3, <2>4
<1>7. Window!Land(landed, outcome)
  BY <1>2, <1>3, <1>4, <1>5, <1>6, SameCardinality DEF Window!Land
<1>8. landed \in SUBSET Request /\ outcome \in {"answered", "failed"}
  BY <1>2
<1> QED
  BY <1>7, <1>8 DEF Window!ANext
(* A request that enters the window flies; one that does not is queued. *)
LEMMA EnqueueSubmits ==
  ASSUME Shape, Shape', NEW r \in Request, NEW id \in MsgID, FreeID(id),
         EnqueueRequest(r, id)
  PROVE  Window!ANext
<1>1. StatusReads /\ StatusReads' /\ StatusTotal /\ StatusTotal'
  <2>1. StatusTotal'
    BY StatusTyped, PTL
  <2>2. Shape' => StatusReads'
    BY StatusFacts, PTL
  <2> QED
    BY <2>1, <2>2, StatusFacts, StatusTyped
<1>2. /\ ch[r] = "nil" /\ ch'[r] = "open" /\ loopExited' = loopExited
      /\ \A q \in Request : q # r => ch'[q] = ch[q] /\ msgID'[q] = msgID[q]
  BY DEF EnqueueRequest, Shape, Slots, TypeOK
<1>3. statusOf(r) = "idle"
  BY <1>1, <1>2 DEF StatusReads
<1>4. ASSUME NEW q \in Request, q # r, Flies(q)' <=> Flies(q)
      PROVE  statusOf(q)' = statusOf(q)
  <2>1. ch'[q] = ch[q] /\ ch[q] \in {"nil", "open", "full", "closed"}
    BY <1>2, <1>4 DEF Shape, Slots, TypeOK, ChanState
  <2> QED
    BY <1>1, <1>4, <2>1 DEF StatusReads, StatusTotal
<1>5. CASE /\ Cardinality(InFlight(pending)) < WindowSize
           /\ activateMessage(r, id, pending, sends, due) /\ UNCHANGED queue
  <2>1. pending' = [pending EXCEPT ![id] = r] /\ pending[id] = None
    BY <1>5 DEF activateMessage, FreeID, Shape, Slots, TypeOK, PendingOpen
  <2>2. Flies(r)' /\ \A q \in Request : q # r => (Flies(q)' <=> Flies(q))
    BY <2>1 DEF Flies, Shape, Slots, TypeOK
  <2>3. statusOf(r)' = "flying" /\ \A q \in Request : q # r => statusOf(q)' = statusOf(q)
    BY <1>1, <1>4, <2>2 DEF StatusReads
  <2>4. Window!Submit(r)
    BY <1>2, <1>3, <1>5, <2>3, FlyingCount, SameCardinality DEF Window!Submit
  <2> QED
    BY <2>4 DEF Window!ANext
<1>6. CASE /\ ~(Cardinality(InFlight(pending)) < WindowSize)
           /\ queue' = Append(queue, r)
           /\ UNCHANGED <<pending, sends, due, wakeup>>
  <2>1. \A q \in Request : Flies(q)' <=> Flies(q)
    BY <1>6 DEF Flies
  <2>2. ~Flies(r)
    BY <1>1, <1>3 DEF StatusReads
  <2>3. \A q \in Request : q # r => statusOf(q)' = statusOf(q)
    BY <1>4, <2>1
  <2>4. statusOf(r)' = "queued"
    BY <1>1, <1>2, <2>1, <2>2 DEF StatusReads, StatusTotal
  <2>5. Cardinality(InFlight(pending)) = WindowSize
    BY <1>6, InFlightFinite DEF Shape, Slots, WindowBound
  <2>6. Window!Submit(r)
    BY <1>2, <1>3, <1>6, <2>3, <2>4, <2>5, FlyingCount, SameCardinality DEF Window!Submit
  <2> QED
    BY <2>6 DEF Window!ANext
<1> QED
  BY <1>5, <1>6 DEF EnqueueRequest

(* checkTimeouts lands what it drops, and is invisible otherwise. *)
LEMMA TimeoutLands ==
  ASSUME IInv, Shape', NEW w \in BOOLEAN, checkTimeouts(w)
  PROVE  Window!ANext \/ UNCHANGED <<pending, queue, msgID, ch, loopExited>>
<1> USE DEF IInv
<1>0. SlotInv
  BY DEF SlotInv, Shape
<1>1. CASE ToDelete # {}
  <2>1. /\ Release(ToDelete, "closed", SendsAfter, due \ Resent, w)
        /\ ToDelete \in SUBSET InFlight(pending) /\ loopExited' = loopExited
    BY <1>0, <1>1, TimeoutFacts DEF Release
  <2>2. "closed" \in {"full", "closed"} /\ "closed" # "full"
    OBVIOUS
  <2> QED
    BY <1>1, <2>1, <2>2, ReleaseLands
<1>2. CASE ToDelete = {}
  <2>1. pending' = pending
    BY <1>0, <1>2, TimeoutFacts DEF Freed, Shape, Slots, TypeOK
  <2>2. ch' = ch
    BY <1>0, <1>2, TimeoutFacts DEF Shape, Slots, TypeOK
  <2>3. UNCHANGED <<queue, msgID, loopExited>>
    BY <1>0, <1>2, TimeoutFacts
  <2> QED
    BY <2>1, <2>2, <2>3
<1> QED
  BY <1>1, <1>2

(* The cancelled window fails everything it still holds. *)
LEMMA CtxDoneCloses == ASSUME Shape, Shape', LoopCtxDone PROVE Window!ANext
<1>1. StatusReads /\ StatusReads'
  <2>1. Shape' => StatusReads'
    BY StatusFacts, PTL
  <2> QED
    BY <2>1, StatusFacts
<1>2. /\ ~loopExited /\ loopExited' = TRUE /\ queue' = <<>>
      /\ \A r \in Request : ch'[r] = IF InQueue(r) \/ Flies(r) THEN "closed" ELSE ch[r]
  BY DEF LoopCtxDone, Flies
<1>3. \A r \in Request : statusOf(r)' =
            IF statusOf(r) \in {"queued", "flying"} THEN "failed" ELSE statusOf(r)
  <2> SUFFICES ASSUME NEW r \in Request
               PROVE  statusOf(r)' = IF statusOf(r) \in {"queued", "flying"}
                                     THEN "failed" ELSE statusOf(r)
    OBVIOUS
  <2>1. CASE InQueue(r) \/ Flies(r)
    BY <1>1, <1>2, <2>1 DEF StatusReads
  <2>2. CASE ~InQueue(r) /\ ~Flies(r)
    <3>1. statusOf(r) \in {"idle", "answered", "failed"}
      BY <1>1, <2>2, StatusTyped DEF StatusReads, StatusTotal
    <3> QED
      BY <1>1, <1>2, <2>2, <3>1 DEF StatusReads
  <2> QED
    BY <2>1, <2>2
<1>4. Window!Close
  BY <1>2, <1>3 DEF Window!Close
<1> QED
  BY <1>4 DEF Window!ANext

(* Every step is a step, or a stutter, of the abstract window. *)
LEMMA StepRefines == IInv /\ IInv' /\ [Next]_vars => [Window!ANext]_(Window!avars)
<1> SUFFICES ASSUME IInv, IInv', [Next]_vars PROVE [Window!ANext]_(Window!avars)
  OBVIOUS
<1> USE DEF IInv
<1>1. ASSUME UNCHANGED <<pending, queue, msgID, ch, loopExited>>
      PROVE  UNCHANGED Window!avars
  BY <1>1 DEF Window!avars, statusOf
<1>2. ASSUME NEW r \in Request, NEW id \in MsgID, FreeID(id) /\ EnqueueRequest(r, id)
      PROVE  Window!ANext
  BY <1>2, EnqueueSubmits
<1>3. ASSUME NEW id \in MsgID, HandleResponse(id) PROVE Window!ANext
  <2>1. /\ Release({id}, "full", sends, due, wakeup)
        /\ {id} \in SUBSET InFlight(pending) /\ {id} # {}
    BY <1>3, ResponseReleases DEF Shape
  <2>2. loopExited' = loopExited /\ "full" \in {"full", "closed"} /\ \E k : {id} = {k}
    BY <1>3 DEF HandleResponse
  <2> QED
    BY <2>1, <2>2, ReleaseLands
<1>4. CASE LoopWakeup
  <2>1. FALSE \in BOOLEAN /\ checkTimeouts(FALSE)
    BY <1>4, Zenon DEF LoopWakeup
  <2> QED
    BY <1>1, <2>1, TimeoutLands
<1>5. CASE LoopTick
  <2>1. wakeup \in BOOLEAN /\ checkTimeouts(wakeup)
    BY <1>5 DEF LoopTick, Shape, Slots, TypeOK
  <2> QED
    BY <1>1, <2>1, TimeoutLands
<1>6. CASE LoopCtxDone
  BY <1>6, CtxDoneCloses
<1>7. CASE Stop \/ (\E r \in Request : DeadlinePasses(r)) \/ UNCHANGED vars
  <2>1. UNCHANGED <<pending, queue, msgID, ch, loopExited>>
    BY <1>7 DEF Stop, DeadlinePasses, vars
  <2> QED
    BY <1>1, <2>1
<1> QED
  BY <1>2, <1>3, <1>4, <1>5, <1>6, <1>7 DEF Next

(* The window of window.go, with retries, deadlines, message IDs and       *)
(* channels, implements the abstract request window.                       *)
THEOREM WindowRefinement == Spec => ImplementsWindow
<1>1. Init => Window!AInit
  BY DEF Init, Window!AInit, statusOf
<1> QED
  BY <1>1, StepRefines, WindowInvariant, PTL DEF Spec, ImplementsWindow, Window!ASafe
=============================================================================
