------------------------- MODULE IKERequestsProofs -------------------------
(***************************************************************************)
(* TLAPS proofs about the callers of the request window, for any number of *)
(* calls, IKE rekeys, retransmissions and any size of the window.          *)
(*                                                                         *)
(* Any number of goroutines call, and their calls wait side by side.  ID   *)
(* and registration of a call are read from the counter in two steps       *)
(* (session.go:1999 and 2008), which nothing keeps together.  Apart says   *)
(* that no other goroutine comes in between: under that condition alone    *)
(* the callers keep what TaskManager asks of them and answers reach their  *)
(* calls (RInv).  The last part shows what holds without it.               *)
(***************************************************************************)
EXTENDS IKERequests, TaskManagerProofs

PC == {"idle", "wrapped", "loaded", "waiting", "done"}

WindowType ==
    /\ pending \in [MsgID -> Request \cup {None}]
    /\ queue \in Seq(Request)
    /\ msgID \in [Request -> Nat]
    /\ sends \in [Request -> Nat]

CallType ==
    /\ seq \in Nat /\ ikeSA \in Nat /\ deletes \in Nat /\ syncs \in Nat
    /\ pc \in [Request -> PC]
    /\ wire \in [Request -> MsgID] /\ reg \in [Request -> Nat]
    /\ saOf \in [Request -> Nat]
    /\ got \in [Request -> Request \cup {None}]
    /\ sync \in MsgID \cup {None}
    /\ sync # None => syncs > 0

Enqueued(r) == pc[r] \in {"waiting", "done"}
Busy(r) == pc[r] \notin {"idle", "done"}

(* The window holds and has sent only what was handed to it, under the ID  *)
(* it was registered with.                                                 *)
WindowKnows ==
    /\ \A id \in MsgID : pending[id] # None =>
            Enqueued(pending[id]) /\ msgID[pending[id]] = id
    /\ \A i \in 1..Len(queue) : Enqueued(queue[i])
    /\ \A r \in Request :
         /\ sends[r] > 0 => Enqueued(r)
         /\ Enqueued(r) => msgID[r] = reg[r]

(* What the code does not see to (session.go:2008): nobody moves the       *)
(* counter while a call is between its two reads, and the counter does not *)
(* go back, for a new IKE SA or a late MESSAGE_ID_SYNC, under calls that   *)
(* are under way.                                                          *)
Apart ==
    /\ (\E r \in Request : pc[r] = "wrapped") => seq' = seq
    /\ seq' < seq => \A r \in Request : ~Busy(r)

(* A call under way is one of the present IKE SA; answers are those of     *)
(* calls handed to the window and go to such calls.                        *)
Present ==
    \A r \in Request :
        /\ Busy(r) => saOf[r] = ikeSA
        /\ ~Enqueued(r) => got[r] = None
        /\ got[r] # None => Enqueued(got[r])

(* A call is registered under the ID its packet carries, which no other    *)
(* call under way has.                                                     *)
OwnIDs ==
    \A r \in Request :
        /\ pc[r] = "wrapped" => seq = wire[r] + 1 /\ wire[r] < MaxID
        /\ pc[r] \in {"loaded", "waiting", "done"} => reg[r] = wire[r]
        /\ Busy(r) =>
            /\ wire[r] < seq
            /\ \A q \in Request : Busy(q) /\ wire[q] = wire[r] => q = r

(* While nothing else moves the counter, no ID is used twice on an IKE SA. *)
FreshIDs ==
    \A r \in Request :
        pc[r] # "idle" =>
            /\ saOf[r] <= ikeSA
            /\ saOf[r] = ikeSA => wire[r] < seq
            /\ \A q \in Request :
                 pc[q] # "idle" /\ saOf[q] = saOf[r] /\ wire[q] = wire[r] => q = r

RInv ==
    /\ WindowType /\ CallType /\ WindowKnows /\ Present /\ OwnIDs
    /\ CounterUndisturbed => FreshIDs
    /\ ResponseIsMine
-----------------------------------------------------------------------------
USE NoneAssumption, IDAssumption, BoundAssumption DEF callVars, otherVars

LEMMA InitRInv == RInit => RInv
<1> SUFFICES ASSUME RInit PROVE RInv
  OBVIOUS
<1>1. /\ pending = [id \in MsgID |-> None] /\ queue = <<>>
      /\ sends = [r \in Request |-> 0] /\ msgID = [r \in Request |-> 0]
  BY DEF RInit, Init
<1>2. WindowType
  BY <1>1, EmptySeq DEF WindowType
<1>3. /\ seq \in Nat /\ ikeSA = 0 /\ deletes = 0 /\ syncs = 0 /\ sync = None
      /\ pc = [r \in Request |-> "idle"]
      /\ wire = [r \in Request |-> 0] /\ reg = [r \in Request |-> 0]
      /\ saOf = [r \in Request |-> 0] /\ got = [r \in Request |-> None]
  BY DEF RInit
<1>4. CallType
  BY <1>3 DEF CallType, PC
<1>5. WindowKnows
  <2>1. Len(queue) = 0
    BY <1>1
  <2> QED
    BY <1>1, <1>3, <2>1 DEF WindowKnows, Enqueued
<1>6. Present /\ OwnIDs /\ FreshIDs /\ ResponseIsMine
  BY <1>3 DEF Present, OwnIDs, FreshIDs, ResponseIsMine, Enqueued, Busy
<1> QED
  BY <1>2, <1>4, <1>5, <1>6 DEF RInv

(* The counter read back right after an increment gives the ID again. *)
LEMMA ReadBack == \A k \in 0..(MaxID - 1) : (k + 1 + MaxID) % (MaxID + 1) = k
<1> SUFFICES ASSUME NEW k \in 0..(MaxID - 1)
             PROVE  (k + 1 + MaxID) % (MaxID + 1) = k
  OBVIOUS
<1> QED
  BY SMT
-----------------------------------------------------------------------------
(* The window. *)

LEMMA PumpKnows ==
    ASSUME WindowType, WindowKnows, UNCHANGED <<pc, reg, msgID>>,
           NEW p \in [MsgID -> Request \cup {None}],
           \A id \in MsgID : p[id] # None => p[id] = pending[id],
           NEW s \in [Request -> Nat],
           \A r \in Request : s[r] > 0 => Enqueued(r),
           NEW d, NEW w, pumpQueue(p, s, d, w)
    PROVE  WindowType' /\ WindowKnows'
<1>1. CASE Len(queue) > 0 /\ Cardinality(InFlight(p)) < WindowSize
  <2> DEFINE m == Head(queue)
  <2>1. /\ m \in Request /\ m = queue[1] /\ 1 \in 1..Len(queue)
        /\ Tail(queue) \in Seq(Request)
        /\ \A i \in 1..Len(Tail(queue)) :
             Tail(queue)[i] = queue[i + 1] /\ i + 1 \in 1..Len(queue)
    <3>1. queue \in Seq(Request) /\ queue # <<>> /\ Len(queue) \in Nat
      BY <1>1 DEF WindowType
    <3>2. /\ m \in Request /\ Tail(queue) \in Seq(Request)
          /\ Len(Tail(queue)) = Len(queue) - 1
          /\ \A i \in 1..Len(Tail(queue)) : Tail(queue)[i] = queue[i + 1]
      BY <3>1, HeadTailProperties
    <3>3. m = queue[1] /\ 1 \in 1..Len(queue)
      BY <1>1, <3>1
    <3> QED
      BY <3>1, <3>2, <3>3
  <2>2. Enqueued(m)
    BY <2>1 DEF WindowKnows
  <2>3. /\ pending' = [p EXCEPT ![msgID[m]] = m]
        /\ sends' = [s EXCEPT ![m] = @ + 1]
        /\ queue' = Tail(queue)
    BY <1>1 DEF pumpQueue, activateMessage
  <2> HIDE DEF m
  <2>4. WindowType'
    <3>1. pending' \in [MsgID -> Request \cup {None}]
      BY <2>1, <2>3
    <3>2. sends' \in [Request -> Nat]
      BY <2>1, <2>3
    <3> QED
      BY <2>1, <2>3, <3>1, <3>2 DEF WindowType
  <2>5. \A id \in MsgID : pending'[id] # None =>
            Enqueued(pending'[id]) /\ msgID[pending'[id]] = id
    BY <2>2, <2>3 DEF WindowKnows
  <2>6. \A i \in 1..Len(queue') : Enqueued(queue'[i])
    BY <2>1, <2>3 DEF WindowKnows
  <2>7. \A r \in Request : sends'[r] > 0 => Enqueued(r)
    BY <2>1, <2>2, <2>3
  <2>8. \A r : Enqueued(r)' <=> Enqueued(r)
    BY DEF Enqueued
  <2> QED
    BY <2>4, <2>5, <2>6, <2>7, <2>8 DEF WindowKnows
<1>2. CASE ~(Len(queue) > 0 /\ Cardinality(InFlight(p)) < WindowSize)
  <2>1. pending' = p /\ sends' = s /\ queue' = queue
    BY <1>2 DEF pumpQueue
  <2>2. \A r : Enqueued(r)' <=> Enqueued(r)
    BY DEF Enqueued
  <2> QED
    BY <2>1, <2>2 DEF WindowType, WindowKnows
<1> QED
  BY <1>1, <1>2

LEMMA ResponseKnows ==
    ASSUME WindowType, WindowKnows, UNCHANGED <<pc, reg>>,
           NEW id \in MsgID, HandleResponse(id)
    PROVE  WindowType' /\ WindowKnows'
<1> DEFINE p == [pending EXCEPT ![id] = None]
<1>1. /\ p \in [MsgID -> Request \cup {None}]
      /\ \A i \in MsgID : p[i] # None => p[i] = pending[i]
  BY DEF WindowType
<1>2. msgID' = msgID /\ pumpQueue(p, sends, due, wakeup)
  BY DEF HandleResponse
<1> HIDE DEF p
<1>3. /\ sends \in [Request -> Nat]
      /\ \A r \in Request : sends[r] > 0 => Enqueued(r)
  BY DEF WindowType, WindowKnows
<1> QED
  BY <1>1, <1>2, <1>3, PumpKnows

LEMMA TimeoutKnows ==
    ASSUME WindowType, WindowKnows, UNCHANGED <<pc, reg>>,
           NEW w, checkTimeouts(w)
    PROVE  WindowType' /\ WindowKnows'
<1> DEFINE expired == {id \in InFlight(pending) : pending[id] \in due}
           toDelete == {id \in expired : retryCount[pending[id]] >= MaxRetries}
           resent == {pending[id] : id \in expired \ toDelete}
           p == [id \in MsgID |-> IF id \in toDelete THEN None ELSE pending[id]]
           s == [r \in Request |-> IF r \in resent THEN sends[r] + 1 ELSE sends[r]]
<1>1. /\ p \in [MsgID -> Request \cup {None}]
      /\ \A i \in MsgID : p[i] # None => p[i] = pending[i]
  BY DEF WindowType
<1>2. \A r \in resent : Enqueued(r)
  BY DEF WindowKnows, InFlight
<1>3. s \in [Request -> Nat]
  BY DEF WindowType
<1>4. \A r \in Request : s[r] > 0 => Enqueued(r)
  BY <1>2 DEF WindowKnows
<1>5. /\ msgID' = msgID
      /\ IF toDelete # {}
         THEN pumpQueue(p, s, due \ resent, w)
         ELSE pending' = p /\ sends' = s /\ queue' = queue
  BY DEF checkTimeouts
<1> HIDE DEF p, s, resent, toDelete
<1>6. CASE toDelete # {}
  BY <1>1, <1>3, <1>4, <1>5, <1>6, PumpKnows
<1>7. CASE toDelete = {}
  <2>1. \A r : Enqueued(r)' <=> Enqueued(r)
    BY DEF Enqueued
  <2> QED
    BY <1>1, <1>3, <1>4, <1>5, <1>7, <2>1 DEF WindowType, WindowKnows
<1> QED
  BY <1>6, <1>7

LEMMA EnqueueKnows ==
    ASSUME WindowType, CallType, WindowKnows, NEW r \in Request, enqueue(r)
    PROVE  WindowType' /\ WindowKnows'
<1>1. /\ pc[r] = "loaded" /\ pc' = [pc EXCEPT ![r] = "waiting"] /\ reg' = reg
      /\ msgID' = [msgID EXCEPT ![r] = reg[r]]
      /\ \/ /\ pending' = [pending EXCEPT ![reg[r]] = r]
            /\ sends' = [sends EXCEPT ![r] = @ + 1] /\ queue' = queue
         \/ queue' = Append(queue, r) /\ UNCHANGED <<pending, sends>>
  BY DEF enqueue, EnqueueRequest, activateMessage
<1>2. /\ ~Enqueued(r) /\ Enqueued(r)'
      /\ \A q \in Request \ {r} : Enqueued(q)' <=> Enqueued(q)
      /\ \A q : Enqueued(q)' <=> pc'[q] \in {"waiting", "done"}
  BY <1>1 DEF Enqueued, CallType
<1>3. WindowType'
  <2>1. msgID' \in [Request -> Nat]
    BY <1>1 DEF WindowType, CallType
  <2>2. pending' \in [MsgID -> Request \cup {None}]
    BY <1>1 DEF WindowType
  <2>3. sends' \in [Request -> Nat]
    BY <1>1 DEF WindowType
  <2>4. queue' \in Seq(Request)
    <3>1. queue \in Seq(Request) /\ Append(queue, r) \in Seq(Request)
      BY AppendProperties DEF WindowType
    <3> QED
      BY <1>1, <3>1
  <2> QED
    BY <1>1, <2>1, <2>2, <2>3, <2>4 DEF WindowType
<1>4. /\ msgID'[r] = reg[r]
      /\ \A q \in Request \ {r} : msgID'[q] = msgID[q]
  BY <1>1 DEF WindowType
<1>5. \A id \in MsgID : pending[id] # None =>
          pending[id] \in Request \ {r}
  BY <1>2 DEF WindowKnows, WindowType
<1>6. ASSUME NEW id \in MsgID, pending'[id] # None
      PROVE  /\ pc'[pending'[id]] \in {"waiting", "done"}
             /\ msgID'[pending'[id]] = id
  <2>1. CASE pending'[id] = pending[id]
    BY <1>2, <1>4, <1>5, <1>6, <2>1 DEF WindowKnows
  <2>2. CASE pending'[id] = r /\ id = reg[r]
    BY <1>2, <1>4, <2>2
  <2>3. pending'[id] = pending[id] \/ (pending'[id] = r /\ id = reg[r])
    BY <1>1 DEF WindowType
  <2> QED
    BY <2>1, <2>2, <2>3
<1>7. \A i \in 1..Len(queue') : pc'[queue'[i]] \in {"waiting", "done"}
  <2>1. \A i \in 1..Len(queue) : queue[i] \in Request \ {r}
    BY <1>2 DEF WindowKnows, WindowType
  <2>2. CASE queue' = queue
    BY <1>2, <2>1, <2>2 DEF WindowKnows
  <2>3. CASE queue' = Append(queue, r)
    <3>1. /\ Len(queue') = Len(queue) + 1 /\ Len(queue) \in Nat
          /\ \A i \in 1..Len(queue) : queue'[i] = queue[i]
          /\ queue'[Len(queue) + 1] = r
      BY <2>3, AppendProperties DEF WindowType
    <3>2. \A i \in 1..Len(queue') : i \in 1..Len(queue) \/ i = Len(queue) + 1
      BY <3>1
    <3>3. pc'[r] \in {"waiting", "done"}
      BY <1>2
    <3>4. \A i \in 1..Len(queue) : pc'[queue[i]] \in {"waiting", "done"}
      BY <1>2, <2>1 DEF WindowKnows
    <3> QED
      BY <3>1, <3>2, <3>3, <3>4
  <2> QED
    BY <1>1, <2>2, <2>3
<1>8. \A q \in Request :
          /\ sends'[q] > 0 => Enqueued(q)'
          /\ Enqueued(q)' => msgID'[q] = reg'[q]
  BY <1>1, <1>2, <1>4 DEF WindowKnows, WindowType
<1> QED
  BY <1>3, <1>6, <1>7, <1>8 DEF WindowKnows, Enqueued

(* The timers of the window and its end. *)
LEMMA WindowStep ==
    ASSUME RInv, window
    PROVE  RInv'
<1>1. UNCHANGED <<seq, pc, wire, reg, got, saOf, ikeSA, sync, deletes, syncs>>
  BY DEF window
<1>2. WindowType' /\ WindowKnows'
  <2>1. CASE LoopWakeup \/ LoopTick
    BY <1>1, <2>1, TimeoutKnows DEF LoopWakeup, LoopTick, RInv
  <2>2. CASE LoopCtxDone
    <3>1. /\ pending' = [id \in MsgID |-> None] /\ queue' = <<>>
          /\ UNCHANGED <<msgID, sends>>
      BY <2>2 DEF LoopCtxDone
    <3>2. Len(queue') = 0 /\ queue' \in Seq(Request)
      BY <3>1, EmptySeq
    <3> QED
      BY <1>1, <3>1, <3>2 DEF RInv, WindowType, WindowKnows, Enqueued
  <2>3. CASE Stop \/ \E r \in Request : DeadlinePasses(r)
    BY <1>1, <2>3
       DEF Stop, DeadlinePasses, RInv, WindowType, WindowKnows, Enqueued
  <2> QED
    BY <2>1, <2>2, <2>3 DEF window
<1>3. /\ CallType' /\ Present' /\ OwnIDs' /\ (CounterUndisturbed' => FreshIDs')
      /\ ResponseIsMine'
  BY <1>1 DEF RInv, CallType, Present, Enqueued, Busy, CounterUndisturbed,
              OwnIDs, FreshIDs, ResponseIsMine
<1> QED
  BY <1>2, <1>3 DEF RInv
-----------------------------------------------------------------------------
(* The callers. *)

(* Steps that leave the window alone and enqueue nothing. *)
LEMMA WindowUntouched ==
    ASSUME RInv, UNCHANGED <<pending, queue, msgID, sends>>, CallType',
           \A r \in Request : (Enqueued(r)' <=> Enqueued(r))
                              /\ (Enqueued(r) => reg'[r] = reg[r])
    PROVE  WindowType' /\ WindowKnows'
<1>1. WindowType'
  BY DEF RInv, WindowType
<1>2. \A id \in MsgID : pending[id] # None => pending[id] \in Request
  BY DEF RInv, WindowType
<1>3. \A i \in 1..Len(queue) : queue[i] \in Request
  BY DEF RInv, WindowType
<1> QED
  BY <1>1, <1>2, <1>3 DEF RInv, WindowKnows

LEMMA WrapStep ==
    ASSUME RInv, Apart, NEW r \in Request, encryptAndWrap(r)
    PROVE  RInv'
<1>1. /\ pc[r] = "idle"
      /\ seq < MaxID
      /\ wire' = [wire EXCEPT ![r] = seq]
      /\ saOf' = [saOf EXCEPT ![r] = ikeSA]
      /\ seq' = seq + 1
      /\ pc' = [pc EXCEPT ![r] = "wrapped"]
      /\ UNCHANGED <<reg, got, ikeSA, sync, deletes, syncs>>
      /\ UNCHANGED <<pending, queue, msgID, sends>>
  BY DEF encryptAndWrap, vars
<1>2. CallType'
  BY <1>1 DEF RInv, CallType, PC
<1>3. /\ ~Enqueued(r) /\ ~Enqueued(r)'
      /\ \A q \in Request \ {r} : Enqueued(q)' <=> Enqueued(q)
  BY <1>1 DEF RInv, CallType, Enqueued
<1>4. WindowType' /\ WindowKnows'
  BY <1>1, <1>2, <1>3, WindowUntouched
<1>5. Present'
  BY <1>1 DEF RInv, CallType, Present, Enqueued, Busy
<1>6. /\ pc'[r] = "wrapped" /\ wire'[r] = seq /\ saOf'[r] = ikeSA
      /\ \A q \in Request \ {r} :
           pc'[q] = pc[q] /\ wire'[q] = wire[q] /\ saOf'[q] = saOf[q]
  BY <1>1 DEF RInv, CallType
<1>7. seq \in Nat /\ ikeSA \in Nat
      /\ \A q \in Request : wire[q] \in Nat /\ saOf[q] \in Nat
  BY DEF RInv, CallType
<1>8. \A q \in Request : pc[q] # "wrapped"
  BY <1>1, <1>7 DEF Apart
<1>9. OwnIDs'
  <2>1. OwnIDs /\ reg' = reg
    BY <1>1 DEF RInv
  <2> QED
    BY <1>1, <1>6, <1>7, <1>8, <2>1 DEF OwnIDs, Busy
<1>10. ASSUME CounterUndisturbed PROVE FreshIDs'
  <2>1. FreshIDs
    BY <1>10 DEF RInv
  <2> QED
    BY <1>1, <1>6, <1>7, <2>1 DEF FreshIDs
<1>11. ResponseIsMine'
  <2>1. \A q \in Request : got[q] \in Request \cup {None} /\ got[q] # r
    BY <1>3 DEF RInv, CallType, Present
  <2> QED
    BY <1>1, <2>1 DEF RInv, CallType, CounterUndisturbed, ResponseIsMine
<1> QED
  BY <1>1, <1>2, <1>4, <1>5, <1>9, <1>10, <1>11 DEF RInv, CounterUndisturbed

LEMMA LoadStep ==
    ASSUME RInv, NEW r \in Request, loadMsgID(r)
    PROVE  RInv'
<1> DEFINE back == (seq + MaxID) % (MaxID + 1)
<1>1. /\ pc[r] = "wrapped"
      /\ reg' = [reg EXCEPT ![r] = back]
      /\ pc' = [pc EXCEPT ![r] = "loaded"]
      /\ UNCHANGED <<seq, wire, got, saOf, ikeSA, sync, deletes, syncs>>
      /\ UNCHANGED <<pending, queue, msgID, sends>>
  BY DEF loadMsgID, vars
<1>2. back \in Nat
  BY DEF RInv, CallType
<1>3. back = wire[r]
  <2>1. seq = wire[r] + 1 /\ wire[r] \in 0..(MaxID - 1)
    BY <1>1 DEF RInv, OwnIDs, CallType
  <2> QED
    BY <2>1, ReadBack
<1> HIDE DEF back
<1>4. CallType'
  BY <1>1, <1>2 DEF RInv, CallType, PC
<1>5. /\ ~Enqueued(r) /\ ~Enqueued(r)'
      /\ \A q \in Request \ {r} : Enqueued(q)' <=> Enqueued(q)
  BY <1>1 DEF RInv, CallType, Enqueued
<1>6. WindowType' /\ WindowKnows'
  BY <1>1, <1>4, <1>5, WindowUntouched DEF RInv, CallType
<1>7. Present'
  BY <1>1 DEF RInv, CallType, Present, Enqueued, Busy
<1>8. OwnIDs'
  BY <1>1, <1>3 DEF RInv, CallType, OwnIDs, Busy
<1>9. CounterUndisturbed' => FreshIDs'
  BY <1>1 DEF RInv, CallType, CounterUndisturbed, FreshIDs
<1>10. ResponseIsMine'
  BY <1>1 DEF RInv, CallType, CounterUndisturbed, ResponseIsMine
<1> QED
  BY <1>4, <1>6, <1>7, <1>8, <1>9, <1>10 DEF RInv

LEMMA EnqueueStep ==
    ASSUME RInv, NEW r \in Request, enqueue(r)
    PROVE  RInv'
<1>1. /\ pc[r] = "loaded" /\ pc' = [pc EXCEPT ![r] = "waiting"]
      /\ UNCHANGED <<seq, wire, reg, got, saOf, ikeSA, sync, deletes, syncs>>
  BY DEF enqueue
<1>2. WindowType' /\ WindowKnows'
  BY EnqueueKnows DEF RInv
<1>3. CallType'
  BY <1>1 DEF RInv, CallType, PC
<1>4. Present'
  BY <1>1 DEF RInv, CallType, Present, Enqueued, Busy
<1>5. OwnIDs' /\ (CounterUndisturbed' => FreshIDs')
  BY <1>1 DEF RInv, CallType, CounterUndisturbed, OwnIDs, Busy, FreshIDs
<1>6. got[r] = None
  BY <1>1 DEF RInv, Present, Enqueued
<1>7. ResponseIsMine'
  BY <1>1, <1>6 DEF RInv, CallType, CounterUndisturbed, ResponseIsMine
<1> QED
  BY <1>2, <1>3, <1>4, <1>5, <1>7 DEF RInv

LEMMA ReturnStep ==
    ASSUME RInv, NEW r \in Request, return(r)
    PROVE  RInv'
<1>1. /\ pc[r] = "waiting" /\ pc' = [pc EXCEPT ![r] = "done"]
      /\ UNCHANGED <<seq, wire, reg, got, saOf, ikeSA, sync, deletes, syncs>>
      /\ UNCHANGED <<pending, queue, msgID, sends>>
  BY DEF return, vars
<1>2. CallType'
  BY <1>1 DEF RInv, CallType, PC
<1>3. \A q \in Request : Enqueued(q)' <=> Enqueued(q)
  BY <1>1 DEF RInv, CallType, Enqueued
<1>4. WindowType' /\ WindowKnows'
  BY <1>1, <1>2, <1>3, WindowUntouched
<1>5. Present'
  BY <1>1 DEF RInv, CallType, Present, Enqueued, Busy
<1>6. OwnIDs' /\ (CounterUndisturbed' => FreshIDs')
  BY <1>1 DEF RInv, CallType, CounterUndisturbed, OwnIDs, Busy, FreshIDs
<1>7. ResponseIsMine'
  BY <1>1 DEF RInv, CallType, CounterUndisturbed, ResponseIsMine
<1> QED
  BY <1>2, <1>4, <1>5, <1>6, <1>7 DEF RInv

(* An answer goes to the call registered under its ID: that call's own, or *)
(* one of an earlier IKE SA, since on the present one no ID is used twice. *)
LEMMA DispatchStep ==
    ASSUME RInv, NEW r \in Request, ikeDispatchLoop(r)
    PROVE  RInv'
<1>1. /\ sends[r] > 0
      /\ UNCHANGED <<seq, pc, wire, reg, saOf, ikeSA, sync, deletes, syncs>>
  BY DEF ikeDispatchLoop
<1> DEFINE id == wire[r]
<1>2. CASE id \in MsgID /\ pending[id] # None
  <2>1. HandleResponse(id) /\ got' = [got EXCEPT ![pending[id]] = r]
    BY <1>2 DEF ikeDispatchLoop
  <2>2. WindowType' /\ WindowKnows'
    BY <1>1, <1>2, <2>1, ResponseKnows DEF RInv
  <2>3. PICK q \in Request : q = pending[id]
    BY <1>2 DEF RInv, WindowType
  <2>4. Enqueued(q) /\ msgID[q] = id /\ got' = [got EXCEPT ![q] = r]
    BY <1>2, <2>1, <2>3 DEF RInv, WindowKnows
  <2>5. CallType'
    BY <1>1, <2>3, <2>4 DEF RInv, CallType
  <2>6. Present'
    <3>1. Enqueued(r)
      BY <1>1 DEF RInv, WindowKnows
    <3>2. \A x \in Request : got'[x] = IF x = q THEN r ELSE got[x]
      BY <2>4 DEF RInv, CallType
    <3> QED
      BY <1>1, <2>4, <3>1, <3>2 DEF RInv, Present, Enqueued, Busy
  <2>7. OwnIDs' /\ (CounterUndisturbed' => FreshIDs')
    BY <1>1 DEF RInv, CounterUndisturbed, OwnIDs, Busy, FreshIDs
  <2>8. ASSUME CounterUndisturbed, pc[q] = "waiting", q # r
        PROVE  saOf[r] < saOf[q] /\ wire[r] = wire[q]
    <3>1. FreshIDs
      BY <2>8 DEF RInv
    <3>2. wire[q] = id
      BY <2>4, <2>8 DEF RInv, WindowKnows, OwnIDs, Enqueued
    <3>3. saOf[q] = ikeSA
      BY <2>8 DEF RInv, Present, Busy
    <3>4. pc[r] # "idle"
      BY <1>1 DEF RInv, WindowKnows, Enqueued
    <3>5. saOf[r] <= ikeSA /\ saOf[r] # saOf[q]
      BY <2>8, <3>1, <3>2, <3>4 DEF FreshIDs
    <3> QED
      BY <3>2, <3>3, <3>5 DEF RInv, CallType
  <2>9. ResponseIsMine'
    BY <1>1, <2>4, <2>8
       DEF RInv, CallType, CounterUndisturbed, ResponseIsMine
  <2> QED
    BY <2>2, <2>5, <2>6, <2>7, <2>9 DEF RInv
<1>3. CASE UNCHANGED vars /\ got' = got
  <2>1. UNCHANGED <<pending, queue, msgID, sends>>
    BY <1>3 DEF vars
  <2>2. CallType' /\ \A q \in Request : Enqueued(q)' <=> Enqueued(q)
    BY <1>1, <1>3 DEF RInv, CallType, Enqueued
  <2>3. WindowType' /\ WindowKnows'
    BY <1>1, <2>1, <2>2, WindowUntouched
  <2> QED
    BY <1>1, <1>3, <2>2, <2>3
       DEF RInv, Present, Enqueued, Busy, CounterUndisturbed, OwnIDs,
           FreshIDs, ResponseIsMine
<1> QED
  BY <1>2, <1>3 DEF ikeDispatchLoop, RInv, CallType

(* However the counter moves, apart from the calls it leaves them their    *)
(* IDs.                                                                    *)
LEMMA CounterMoves ==
    ASSUME RInv, Apart, UNCHANGED <<pc, wire, reg>>, seq' \in Nat
    PROVE  OwnIDs'
<1>1. CASE \E r \in Request : pc[r] = "wrapped"
  BY <1>1 DEF Apart, RInv, OwnIDs, Busy
<1>2. CASE ~ \E r \in Request : pc[r] = "wrapped"
  <2>1. seq \in Nat /\ \A r \in Request : wire[r] \in Nat
    BY DEF RInv, CallType
  <2>2. CASE seq' < seq
    <3>1. \A r \in Request : ~Busy(r)
      BY <2>2 DEF Apart
    <3> QED
      BY <1>2, <3>1 DEF RInv, OwnIDs, Busy
  <2>3. CASE ~(seq' < seq)
    BY <1>2, <2>1, <2>3 DEF RInv, OwnIDs, Busy
  <2> QED
    BY <2>2, <2>3
<1> QED
  BY <1>1, <1>2

(* Delete notices and MESSAGE_ID_SYNC end what is claimed of all calls of  *)
(* an IKE SA.                                                              *)
LEMMA CounterStep ==
    ASSUME RInv, Apart,
           \/ sendDeleteChildSA \/ midSyncStore
           \/ \E v \in MsgID : midSyncCheck(v)
    PROVE  RInv'
<1>1. UNCHANGED <<pending, queue, msgID, sends, pc, wire, reg, got, saOf, ikeSA>>
  BY DEF sendDeleteChildSA, midSyncStore, midSyncCheck, vars
<1>2. /\ seq' \in Nat /\ deletes' \in Nat /\ syncs' \in Nat
      /\ sync' \in MsgID \cup {None}
      /\ sync' # None => syncs' > 0
      /\ ~CounterUndisturbed'
  BY SMTT(30) DEF sendDeleteChildSA, midSyncStore, midSyncCheck, RInv,
     CallType,
         CounterUndisturbed
<1>3. CallType' /\ \A q \in Request : Enqueued(q)' <=> Enqueued(q)
  BY <1>1, <1>2 DEF RInv, CallType, Enqueued
<1>4. WindowType' /\ WindowKnows'
  BY <1>1, <1>3, WindowUntouched
<1>5. OwnIDs'
  BY <1>1, <1>2, CounterMoves
<1> QED
  BY <1>1, <1>2, <1>3, <1>4, <1>5
     DEF RInv, Present, Enqueued, Busy, ResponseIsMine

(* An IKE rekey finds no call under way: one would have taken an ID below  *)
(* the counter, which goes back to 0.                                      *)
LEMMA SwitchStep ==
    ASSUME RInv, Apart, NEW g \in Goroutine, switchIKESA(g)
    PROVE  RInv'
<1>1. /\ ikeSA' = ikeSA + 1 /\ seq' = 0
      /\ UNCHANGED <<pc, wire, reg, got, saOf, sync, deletes, syncs>>
      /\ UNCHANGED <<pending, queue, msgID, sends>>
  BY DEF switchIKESA, vars
<1>2. CallType' /\ \A q \in Request : Enqueued(q)' <=> Enqueued(q)
  BY <1>1 DEF RInv, CallType, Enqueued
<1>3. WindowType' /\ WindowKnows'
  BY <1>1, <1>2, WindowUntouched
<1>4. \A q \in Request : ~Busy(q)
  <2> SUFFICES ASSUME NEW q \in Request, Busy(q) PROVE FALSE
    OBVIOUS
  <2>1. wire[q] < seq /\ wire[q] \in Nat /\ seq \in Nat
    BY DEF RInv, OwnIDs, CallType
  <2>2. seq' < seq
    BY <1>1, <2>1
  <2> QED
    BY <2>2 DEF Apart
<1>5. Present'
  BY <1>1, <1>4 DEF RInv, Present, Enqueued, Busy
<1>6. OwnIDs'
  BY <1>1, CounterMoves
<1>7. CounterUndisturbed' => FreshIDs'
  BY <1>1 DEF RInv, CallType, CounterUndisturbed, FreshIDs
<1>8. ResponseIsMine'
  BY <1>1 DEF RInv, CounterUndisturbed, ResponseIsMine
<1> QED
  BY <1>2, <1>3, <1>5, <1>6, <1>7, <1>8 DEF RInv

LEMMA StepRInv == RInv /\ [RNext]_rvars /\ [Apart]_rvars => RInv'
<1> SUFFICES ASSUME RInv, [RNext]_rvars, [Apart]_rvars PROVE RInv'
  OBVIOUS
<1>1. CASE UNCHANGED rvars
  <2>1. /\ UNCHANGED <<pending, queue, msgID, sends>>
        /\ UNCHANGED <<seq, pc, wire, reg, got, saOf, ikeSA, sync, deletes,
                       syncs>>
    BY <1>1 DEF rvars, vars
  <2>2. CallType' /\ \A q \in Request : Enqueued(q)' <=> Enqueued(q)
    BY <2>1 DEF RInv, CallType, Enqueued
  <2>3. WindowType' /\ WindowKnows'
    BY <2>1, <2>2, WindowUntouched
  <2> QED
    BY <2>1, <2>2, <2>3
       DEF RInv, Present, Enqueued, Busy, CounterUndisturbed, OwnIDs,
           FreshIDs, ResponseIsMine
<1>2. CASE RNext /\ Apart
  BY <1>2, WrapStep, LoadStep, EnqueueStep, ReturnStep, DispatchStep,
     CounterStep, SwitchStep, WindowStep DEF RNext
<1> QED
  BY <1>1, <1>2

(* sendEncryptedWithRetry, called from any number of goroutines whose      *)
(* calls wait side by side: as long as they keep apart at the counter, the *)
(* answer a waiting call finds is to its own packet or was sent under an   *)
(* IKE SA before its own, in whatever order and however often answers      *)
(* come, however many calls, rekeys and retransmissions there are.         *)
THEOREM AnswersReachTheirCalls ==
    RSpec /\ [][Apart]_rvars => []ResponseIsMine
<1>1. RInv => ResponseIsMine
  BY DEF RInv
<1> QED
  BY <1>1, InitRInv, StepRInv, PTL DEF RSpec
-----------------------------------------------------------------------------
(* The window under its callers.  TaskManager assumes of them that no ID   *)
(* is handed over while an open request still carries it (FreeID); here    *)
(* that is proved of sendEncryptedWithRetry, up to the cancellation of the *)
(* session: from then on a call returns without waiting for its channel.   *)

(* Until then a call is over only when its channel is. *)
Settled ==
    \A r \in Request :
        /\ reg[r] \in MsgID
        /\ pc[r] \in {"idle", "wrapped", "loaded"} => ch[r] = "nil"
        /\ pc[r] = "done" => ch[r] \in {"full", "closed"}

SInv == ~ctxDone => IInv /\ Settled

(* No call has begun. *)
LEMMA InitSInv == RInit => SInv
<1> SUFFICES ASSUME RInit PROVE SInv
  OBVIOUS
<1>1. IInv
  BY InitIInv DEF RInit
<1>2. /\ pc = [r \in Request |-> "idle"] /\ reg = [r \in Request |-> 0]
      /\ ch = [r \in Request |-> "nil"]
  BY DEF RInit, Init
<1> QED
  BY <1>1, <1>2 DEF SInv, Settled

(* A step of the loop or an answer completes only the channel of a call    *)
(* that waits.                                                             *)
LEMMA OnlyWaitingComplete ==
    ASSUME IInv, Settled, CallType,
           \/ \E w \in BOOLEAN : checkTimeouts(w)
           \/ \E id \in MsgID : HandleResponse(id)
    PROVE  \A q \in Request : ch'[q] = ch[q] \/ pc[q] = "waiting"
<1>1. \A q \in Request : ch[q] = "open" => pc[q] = "waiting"
  BY DEF Settled, CallType, PC
<1>2. \A id \in MsgID : pending[id] # None =>
          pending[id] \in Request /\ pc[pending[id]] = "waiting"
  BY <1>1 DEF IInv, Shape, Slots, TypeOK, PendingOpen
<1>3. ASSUME NEW w, checkTimeouts(w), NEW q \in Request
      PROVE  ch'[q] = ch[q] \/ pc[q] = "waiting"
  BY <1>2, <1>3 DEF checkTimeouts, InFlight
<1>4. ASSUME NEW id \in MsgID, HandleResponse(id), NEW q \in Request
      PROVE  ch'[q] = ch[q] \/ pc[q] = "waiting"
  BY <1>2, <1>4 DEF HandleResponse, IInv, Shape, Slots, TypeOK
<1> QED
  BY <1>3, <1>4

(* Before the cancellation every step is one of the window, under an ID    *)
(* that is free if it enqueues.                                            *)
LEMMA CallerStep ==
    ASSUME RInv, ~ctxDone, IInv, Settled, [RNext]_rvars
    PROVE  [Next]_vars /\ (~ctxDone' => Settled')
<1> USE DEF RInv
<1>1. ASSUME NEW r \in Request, encryptAndWrap(r) \/ loadMsgID(r) \/ return(r)
      PROVE  UNCHANGED vars /\ Settled'
  <2>1. UNCHANGED vars /\ UNCHANGED ch
    BY <1>1 DEF encryptAndWrap, loadMsgID, return, vars
  <2>2. CASE encryptAndWrap(r)
    BY <2>1, <2>2 DEF encryptAndWrap, Settled, CallType
  <2>3. CASE loadMsgID(r)
    <3>1. (seq + MaxID) % (MaxID + 1) \in MsgID
      BY DEF CallType
    <3> QED
      BY <2>1, <2>3, <3>1 DEF loadMsgID, Settled, CallType
  <2>4. CASE return(r)
    BY <2>1, <2>4 DEF return, Settled, CallType
  <2> QED
    BY <1>1, <2>1, <2>2, <2>3, <2>4
<1>2. ASSUME NEW r \in Request, enqueue(r) PROVE Next /\ Settled'
  <2>1. pc[r] = "loaded" /\ EnqueueRequest(r, reg[r]) /\ reg[r] \in MsgID
    BY <1>2 DEF enqueue, Settled
  <2>2. FreeID(reg[r])
    <3> SUFFICES ASSUME NEW q \in Request, ch[q] = "open"
                 PROVE  msgID[q] # reg[r]
      BY DEF FreeID
    <3>1. pc[q] = "waiting"
      BY DEF Settled, CallType, PC
    <3>2. msgID[q] = reg[q]
      BY <3>1 DEF WindowKnows, Enqueued
    <3>3. reg[q] = wire[q] /\ reg[r] = wire[r] /\ Busy(q) /\ Busy(r) /\ q # r
      BY <2>1, <3>1 DEF OwnIDs, Busy
    <3> QED
      BY <3>2, <3>3 DEF OwnIDs
  <2>3. /\ pc' = [pc EXCEPT ![r] = "waiting"] /\ reg' = reg
        /\ \A q \in Request : q # r => ch'[q] = ch[q]
    BY <1>2 DEF enqueue, EnqueueRequest, IInv, Shape, Slots, TypeOK
  <2> QED
    BY <2>1, <2>2, <2>3 DEF Next, Settled, CallType
<1>3. ASSUME NEW r \in Request, ikeDispatchLoop(r) PROVE [Next]_vars /\ Settled'
  <2>1. UNCHANGED <<pc, reg>> /\ wire[r] \in MsgID
    BY <1>3 DEF ikeDispatchLoop, CallType
  <2>2. CASE HandleResponse(wire[r])
    <3>1. \A q \in Request : ch'[q] = ch[q] \/ pc[q] = "waiting"
      BY <2>1, <2>2, OnlyWaitingComplete
    <3> QED
      BY <2>1, <2>2, <3>1 DEF Next, Settled
  <2>3. CASE UNCHANGED vars
    BY <2>1, <2>3 DEF vars, Settled
  <2> QED
    BY <1>3, <2>2, <2>3 DEF ikeDispatchLoop
<1>4. CASE window
  <2>1. UNCHANGED <<pc, reg>>
    BY <1>4 DEF window
  <2>2. Next
    BY <1>4 DEF window, Next
  <2>3. CASE LoopWakeup \/ LoopTick
    <3>1. \E w \in BOOLEAN : checkTimeouts(w)
      BY <2>3 DEF LoopWakeup, LoopTick, IInv, Shape, Slots, TypeOK
    <3>2. \A q \in Request : ch'[q] = ch[q] \/ pc[q] = "waiting"
      BY <3>1, OnlyWaitingComplete
    <3> QED
      BY <2>1, <2>2, <3>2 DEF Settled
  <2>4. CASE Stop \/ \E r \in Request : DeadlinePasses(r)
    BY <2>1, <2>2, <2>4 DEF Stop, DeadlinePasses, Settled
  <2> QED
    BY <1>4, <2>2, <2>3, <2>4 DEF window, LoopCtxDone
<1>5. CASE \/ sendDeleteChildSA \/ midSyncStore
           \/ \E v \in MsgID : midSyncCheck(v)
           \/ \E g \in Goroutine : switchIKESA(g)
           \/ UNCHANGED rvars
  <2>1. UNCHANGED vars /\ UNCHANGED <<pc, reg>>
    BY <1>5 DEF sendDeleteChildSA, midSyncStore, midSyncCheck, switchIKESA, rvars
  <2> QED
    BY <2>1 DEF vars, Settled
<1> QED
  BY <1>1, <1>2, <1>3, <1>4, <1>5 DEF RNext

(* Both invariants together carry over to the window. *)
LEMMA StepSInv ==
    RInv /\ SInv /\ [RNext]_rvars =>
        SInv' /\ (~ctxDone => IInv /\ IInv' /\ [Next]_vars)
<1> SUFFICES ASSUME RInv, SInv, [RNext]_rvars
             PROVE  SInv' /\ (~ctxDone => IInv /\ IInv' /\ [Next]_vars)
  OBVIOUS
<1>1. CASE ctxDone
  <2>1. ctxDone' = ctxDone
    BY <1>1 DEF RNext, rvars, vars, encryptAndWrap, loadMsgID, enqueue, return,
                ikeDispatchLoop, sendDeleteChildSA, midSyncCheck, midSyncStore,
                switchIKESA, window, EnqueueRequest, HandleResponse, LoopWakeup,
                LoopTick, LoopCtxDone, checkTimeouts, Stop, DeadlinePasses
  <2> QED
    BY <1>1, <2>1 DEF SInv
<1>2. CASE ~ctxDone
  <2>1. IInv /\ Settled
    BY <1>2 DEF SInv
  <2>2. [Next]_vars /\ (~ctxDone' => Settled')
    BY <1>2, <2>1, CallerStep
  <2>3. IInv'
    BY <2>1, <2>2, StepIInv
  <2> QED
    BY <2>1, <2>2, <2>3 DEF SInv
<1> QED
  BY <1>1, <1>2

LEMMA SpecSInv == RSpec /\ [][Apart]_rvars => [](RInv /\ SInv)
<1>1. RInv /\ SInv /\ [RNext]_rvars => SInv'
  BY StepSInv
<1> QED
  BY <1>1, InitRInv, InitSInv, StepRInv, PTL DEF RSpec

(* What TaskManager assumes of its callers holds of any number of          *)
(* goroutines that keep apart at the counter: until the session is         *)
(* cancelled every step of callers, dispatcher and counter is a step of    *)
(* the window as TaskManager has it, with an ID no open request carries,   *)
(* whatever Delete notices, MESSAGE_ID_SYNC and rekeys did to the counter. *)
THEOREM CallersKeepToTheWindow ==
    RSpec /\ [][Apart]_rvars => [][~ctxDone => [Next]_vars]_rvars
<1>1. RInv /\ SInv /\ [RNext]_rvars => (~ctxDone => [Next]_vars)
  BY StepSInv
<1> QED
  BY <1>1, SpecSInv, PTL DEF RSpec

(* sendEncryptedWithRetry on the window: until the cancellation a call     *)
(* that waits is in flight under its own ID or queued, the window keeps to *)
(* its size, and a call is given up only after its last retransmission,    *)
(* as long as the callers keep apart at the counter.                       *)
THEOREM NoCallIsLost ==
    RSpec /\ [][Apart]_rvars =>
        [](~ctxDone => /\ NoLostWaiter /\ WindowBound /\ QueueNeverStranded
                       /\ NeverBroken /\ RetryBudget)
<1>1. SInv => (~ctxDone => /\ NoLostWaiter /\ WindowBound /\ QueueNeverStranded
                           /\ NeverBroken /\ RetryBudget)
  BY DEF SInv, IInv, Shape, Slots, Budget, RetryBudget
<1> QED
  BY <1>1, SpecSInv, PTL

(* With these callers the window implements RequestWindow, up to the       *)
(* cancellation: every step of the whole, a repeated or late answer and a  *)
(* rekey included, is a step of the abstract window or leaves it alone, as *)
(* long as the callers keep apart at the counter.                          *)
THEOREM CallsImplementTheWindow ==
    RSpec /\ [][Apart]_rvars =>
        /\ Window!AInit
        /\ [][~ctxDone => [Window!ANext]_(Window!avars)]_rvars
<1>1. RInit => Window!AInit
  BY DEF RInit, Init, Window!AInit, statusOf
<1>2. RInv /\ SInv /\ [RNext]_rvars =>
          (~ctxDone => [Window!ANext]_(Window!avars))
  BY StepSInv, StepRefines
<1> QED
  BY <1>1, <1>2, SpecSInv, PTL DEF RSpec
-----------------------------------------------------------------------------
(* The code does not keep goroutines apart at the counter.  IDs may then   *)
(* collide and answers go astray; what the window keeps even so.           *)

IDType ==
    /\ seq \in Nat /\ sync \in MsgID \cup {None}
    /\ wire \in [Request -> MsgID] /\ reg \in [Request -> MsgID]

(* Any step is one of the window, under some ID if it enqueues. *)
LEMMA AnyCallerStep ==
    ASSUME IDType, [RNext]_rvars
    PROVE  IDType' /\ [AnyIDNext]_vars
<1>1. ASSUME NEW r \in Request, encryptAndWrap(r) \/ loadMsgID(r) \/ return(r)
      PROVE  IDType' /\ UNCHANGED vars
  <2>1. (seq + MaxID) % (MaxID + 1) \in MsgID /\ (seq < MaxID => seq \in MsgID)
    BY DEF IDType
  <2> QED
    BY <1>1, <2>1 DEF encryptAndWrap, loadMsgID, return, IDType
<1>2. ASSUME NEW r \in Request, enqueue(r) PROVE IDType' /\ AnyIDNext
  <2>1. EnqueueRequest(r, reg[r]) /\ reg[r] \in MsgID
    BY <1>2 DEF enqueue, IDType
  <2> QED
    BY <1>2, <2>1 DEF enqueue, AnyIDNext, IDType
<1>3. ASSUME NEW r \in Request, ikeDispatchLoop(r)
      PROVE  IDType' /\ (AnyIDNext \/ UNCHANGED vars)
  <2>1. HandleResponse(wire[r]) \/ UNCHANGED vars
    BY <1>3 DEF ikeDispatchLoop
  <2>2. wire[r] \in MsgID
    BY DEF IDType
  <2>3. UNCHANGED <<seq, sync, wire, reg>>
    BY <1>3 DEF ikeDispatchLoop
  <2> QED
    BY <2>1, <2>2, <2>3 DEF AnyIDNext, Next, IDType
<1>4. CASE window
  BY <1>4 DEF window, AnyIDNext, Next, IDType
<1>5. CASE \/ sendDeleteChildSA \/ midSyncStore
           \/ \E v \in MsgID : midSyncCheck(v)
           \/ \E g \in Goroutine : switchIKESA(g)
           \/ UNCHANGED rvars
  BY <1>5 DEF sendDeleteChildSA, midSyncStore, midSyncCheck, switchIKESA, rvars,
              IDType
<1> QED
  BY <1>1, <1>2, <1>3, <1>4, <1>5 DEF RNext

LEMMA SpecSlots == RSpec => [](IDType /\ SlotInv)
<1>1. RInit => IDType /\ SlotInv
  BY InitIInv DEF RInit, IDType, IInv, SlotInv, Shape
<1>2. IDType /\ SlotInv /\ [RNext]_rvars => IDType' /\ SlotInv'
  BY AnyCallerStep, StepSlots
<1> QED
  BY <1>1, <1>2, PTL DEF RSpec

(* However many goroutines call at once, and although two of their calls   *)
(* may register under the same ID, where the later displaces the earlier:  *)
(* the window keeps to its size, a queue does not outlive it, no channel   *)
(* is closed or written to twice, which would panic, and nobody is given   *)
(* up before the last retransmission.  Only answers and waiters get lost.  *)
THEOREM ConcurrentCallsKeepTheWindow ==
    RSpec => [](WindowBound /\ QueueNeverStranded /\ NeverBroken /\ RetryBudget)
<1>1. SlotInv =>
          WindowBound /\ QueueNeverStranded /\ NeverBroken /\ RetryBudget
  BY DEF SlotInv, Slots, Budget, RetryBudget
<1> QED
  BY <1>1, SpecSlots, PTL

(* Nor does a call that was answered or given up change again, whoever     *)
(* else has its ID.                                                        *)
THEOREM ConcurrentCompletionIsFinal == RSpec => CompletedIsFinal
<1>1. IDType /\ SlotInv /\ [RNext]_rvars =>
          [\A r \in Request : ch[r] \in {"full", "closed"} =>
               ch'[r] = ch[r] /\ sends'[r] = sends[r]]_vars
  BY AnyCallerStep, StepKeepsFinished DEF Finished
<1> QED
  BY <1>1, SpecSlots, PTL DEF RSpec, CompletedIsFinal
=============================================================================
