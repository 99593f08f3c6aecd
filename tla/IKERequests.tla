---------------------------- MODULE IKERequests ----------------------------
(***************************************************************************)
(* The callers of the request window: sendEncryptedWithRetry in            *)
(* pkg/swu/session.go with the message-ID counter SequenceNumber, the      *)
(* dispatcher that hands responses to the window, and the other writers of *)
(* the counter (direct Delete notices, IKEV2_MESSAGE_ID_SYNC, and the      *)
(* change to a new IKE SA, which begins at 0 again).                       *)
(*                                                                         *)
(* A call takes its message ID with an atomic increment while it encrypts, *)
(* and later reads the counter AGAIN to learn under which ID to register.  *)
(* The two accesses are separate steps here, as they are in the code.      *)
(***************************************************************************)
EXTENDS TaskManager

CONSTANTS
    Goroutine,    \* a partition of Request: calls of one goroutine are serial
    MaxID,        \* bound: IDs are 0..MaxID, the counter stops below MaxID
    Moves         \* bound: how often anything else than a call moves the
                  \* counter (Delete notices, MESSAGE_ID_SYNC, IKE rekeys)

ASSUME IDAssumption == MaxID \in Nat /\ MsgID = 0..MaxID
ASSUME BoundAssumption == Moves \in Nat
ASSUME PartitionAssumption ==
    /\ UNION Goroutine = Request
    /\ \A g, h \in Goroutine : g # h => g \cap h = {}

VARIABLES
    seq,          \* s.SequenceNumber
    pc,           \* idle, wrapped, loaded, waiting or done
    wire,         \* the message ID in the packet of the call
    reg,          \* the local variable msgID of the call
    got,          \* history: whose answer was put into the call's channel
    saOf,         \* the IKE SA the packet of the call was encrypted under
    ikeSA,        \* the IKE SA of s.Keys, s.SPIi and s.SPIr, numbered
    ikePending,   \* s.ikePending: responses nobody claimed, by message ID
    sync,         \* MESSAGE_ID_SYNC passed its check and is about to Store
    deletes, syncs  \* notices sent, syncs started so far

callVars == <<pc, wire, reg, got, saOf>>
otherVars == <<ikeSA, ikePending, sync, deletes, syncs>>
rvars == <<vars, seq, callVars, otherVars>>

(* On the first IKE SA message ID 0 was the IKE_SA_INIT exchange, and      *)
(* connectOnce stores 1; one that a rekey made begins at 0.                *)
RInit ==
    /\ Init
    /\ msgID = [r \in Request |-> 0]
    /\ seq \in {0, 1}
    /\ pc = [r \in Request |-> "idle"]
    /\ wire = [r \in Request |-> 0]
    /\ reg = [r \in Request |-> 0]
    /\ got = [r \in Request |-> None]
    /\ saOf = [r \in Request |-> 0]
    /\ ikeSA = 0
    /\ ikePending = {}
    /\ sync = None
    /\ deletes = 0 /\ syncs = 0

(* A goroutine between two calls, and its next call: which of the          *)
(* interchangeable ones that is does not matter.                           *)
between(g) == \A q \in g : pc[q] \in {"idle", "done"}
nextCall(g) == CHOOSE q \in g : pc[q] = "idle"

(* encryptAndWrap or fragmentMessage: NextSequenceNumber fixes the ID that *)
(* the packet, or every fragment of it, carries.                           *)
encryptAndWrap(r) ==
    /\ pc[r] = "idle"
    /\ \A g \in Goroutine : r \in g => between(g) /\ r = nextCall(g)
    /\ seq < MaxID
    /\ wire' = [wire EXCEPT ![r] = seq]
    /\ saOf' = [saOf EXCEPT ![r] = ikeSA]
    /\ seq' = seq + 1
    /\ pc' = [pc EXCEPT ![r] = "wrapped"]
    /\ UNCHANGED <<vars, reg, got, otherVars>>

(* Mutant: the counter is decremented once too often. *)
loadMsgIDTwoBack(r) ==
    /\ pc[r] = "wrapped"
    /\ reg' = [reg EXCEPT ![r] = (seq + MaxID - 1) % (MaxID + 1)]
    /\ pc' = [pc EXCEPT ![r] = "loaded"]
    /\ UNCHANGED <<vars, seq, wire, got, saOf, otherVars>>

(* msgID := s.SequenceNumber.Load() - 1, modulo the width of the counter. *)
loadMsgID(r) ==
    /\ pc[r] = "wrapped"
    /\ reg' = [reg EXCEPT ![r] = (seq + MaxID) % (MaxID + 1)]
    /\ pc' = [pc EXCEPT ![r] = "loaded"]
    /\ UNCHANGED <<vars, seq, wire, got, saOf, otherVars>>

enqueue(r) ==
    /\ pc[r] = "loaded"
    /\ EnqueueRequest(r, reg[r])
    /\ pc' = [pc EXCEPT ![r] = "waiting"]
    /\ UNCHANGED <<seq, wire, reg, got, saOf, otherVars>>

(* Mutant: a closed channel does not wake the caller. *)
returnAnswered(r) ==
    /\ pc[r] = "waiting"
    /\ ctxDone \/ ch[r] = "full"
    /\ pc' = [pc EXCEPT ![r] = "done"]
    /\ UNCHANGED <<vars, seq, wire, reg, got, saOf, otherVars>>

(* The final select: the channel has something, or the session is over. *)
return(r) ==
    /\ pc[r] = "waiting"
    /\ ctxDone \/ ch[r] \in {"full", "closed"}
    /\ pc' = [pc EXCEPT ![r] = "done"]
    /\ UNCHANGED <<vars, seq, wire, reg, got, saOf, otherVars>>

(* The peer answers the packet of r, for the first time or again, and      *)
(* ikeDispatchLoop delivers the answer by its message ID alone; what the   *)
(* window does not want is parked in ikePending.                           *)
ikeDispatchLoop(r) ==
    /\ sends[r] > 0
    /\ IF pending[wire[r]] # None
       THEN /\ HandleResponse(wire[r])
            /\ got' = [got EXCEPT ![pending[wire[r]]] = r]
            /\ UNCHANGED ikePending
       ELSE /\ ikePending' = ikePending \cup {wire[r]}
            /\ UNCHANGED <<vars, got>>
    /\ UNCHANGED <<seq, pc, wire, reg, saOf, ikeSA, sync, deletes, syncs>>

Moved == deletes + syncs + ikeSA

(* sendDeleteChildSA takes an ID and writes to the socket directly. *)
sendDeleteChildSA ==
    /\ Moved < Moves
    /\ seq < MaxID
    /\ seq' = seq + 1
    /\ deletes' = deletes + 1
    /\ UNCHANGED <<vars, callVars, ikeSA, ikePending, sync, syncs>>

(* handleIncomingInformational on IKEV2_MESSAGE_ID_SYNC compares the       *)
(* peer's EXPECTED_RECV with the counter ...                               *)
midSyncCheck(v) ==
    /\ Moved < Moves /\ sync = None
    /\ v > seq
    /\ sync' = v
    /\ syncs' = syncs + 1
    /\ UNCHANGED <<vars, seq, callVars, ikeSA, ikePending, deletes>>

(* ... and then stores it. *)
midSyncStore ==
    /\ sync # None
    /\ seq' = sync
    /\ sync' = None
    /\ UNCHANGED <<vars, callVars, ikeSA, ikePending, deletes, syncs>>

(* handleRekeyIKESAResp: the goroutine whose CREATE_CHILD_SA p was answered *)
(* has sent the DELETE q after it, with whatever success, and now changes  *)
(* to the new IKE SA.  The window and what it holds stay as they are.      *)
switchIKESA(g) ==
    /\ Moved < Moves /\ between(g)
    /\ \E p, q \in g :
        /\ {pc[p], pc[q]} = {"done"} /\ got[p] = p
        /\ saOf[p] = ikeSA /\ saOf[q] = ikeSA /\ wire[p] < wire[q]
        /\ \A x \in g \ {p, q} : pc[x] = "done" => saOf[x] < ikeSA \/ wire[x] < wire[p]
    /\ ikeSA' = ikeSA + 1
    /\ seq' = 0
    /\ UNCHANGED <<vars, callVars, ikePending, sync, deletes, syncs>>

window ==
    /\ \/ LoopWakeup \/ LoopTick \/ LoopCtxDone \/ Stop
       \/ \E r \in Request : DeadlinePasses(r)
    /\ UNCHANGED <<seq, callVars, otherVars>>

RNext ==
    \/ \E r \in Request :
        \/ encryptAndWrap(r) \/ loadMsgID(r) \/ enqueue(r) \/ return(r)
        \/ ikeDispatchLoop(r)
    \/ sendDeleteChildSA
    \/ \E v \in MsgID : midSyncCheck(v)
    \/ midSyncStore
    \/ \E g \in Goroutine : switchIKESA(g)
    \/ window

(* Runnable goroutines run, the window's loop ticks, deadlines pass.       *)
(* Nothing is assumed of the peer.                                         *)
RFairness ==
    /\ \A r \in Request :
        /\ WF_rvars(loadMsgID(r)) /\ WF_rvars(enqueue(r)) /\ WF_rvars(return(r))
        /\ WF_rvars(DeadlinePasses(r) /\ UNCHANGED <<seq, callVars, otherVars>>)
    /\ WF_rvars(LoopTick /\ UNCHANGED <<seq, callVars, otherVars>>)
    /\ WF_rvars(LoopCtxDone /\ UNCHANGED <<seq, callVars, otherVars>>)

RSpec == RInit /\ [][RNext]_rvars
RFairSpec == RSpec /\ RFairness
-----------------------------------------------------------------------------
(* Only sendEncryptedWithRetry and IKE rekeys have moved the counter. *)
CounterUndisturbed == deletes = 0 /\ syncs = 0

(* The answer a waiting call finds in its channel answers its own packet,  *)
(* although its ID was read twice, and although an IKE rekey begins at ID  *)
(* 0 again with the answers of the old IKE SA still on their way: one of   *)
(* these may then take the place of an answer under the new one that bears *)
(* the same ID, but no answer under the same keys ever does, nor one of a  *)
(* newer IKE SA.  (After a cancellation a call no longer waits, and what   *)
(* comes into its channel is not read.)                                    *)
ResponseIsMine ==
    CounterUndisturbed =>
        \A r \in Request : pc[r] = "waiting" /\ got[r] \notin {None, r} =>
            saOf[got[r]] < saOf[r] /\ wire[got[r]] = wire[r]

(* Every call returns: answered, timed out, or cancelled. *)
EveryCallReturns ==
    \A r \in Request : pc[r] = "waiting" ~> pc[r] = "done"
=============================================================================
