---------------------------- MODULE TaskManager ----------------------------
(***************************************************************************)
(* The request window of the IKE initiator: TaskManager in                 *)
(* pkg/swu/window.go.  Callers hand over encrypted requests; at most       *)
(* WindowSize of them are in flight, the others wait in a queue.  A        *)
(* background goroutine, windowLoop, retransmits what is overdue, gives up *)
(* after MaxRetries retransmissions, and closes everything when the        *)
(* context is cancelled.                                                   *)
(*                                                                         *)
(* Every operation below runs under tm.mu in the code and is therefore one *)
(* atomic action.  Wall-clock deadlines are abstracted to the set `due' of *)
(* requests whose Deadline has passed.                                     *)
(***************************************************************************)
EXTENDS Naturals, Sequences, FiniteSets

CONSTANTS
    Request,      \* OutgoingMessage objects, each enqueued at most once
    MsgID,        \* IKE message IDs (uint32 in the code)
    WindowSize,   \* tm.windowSize, at least 1 (NewTaskManager raises it)
    MaxRetries,   \* RetryConfig.MaxRetries
    None          \* "no request": an absent key of tm.pending

ASSUME WindowSizeAssumption == WindowSize \in Nat \ {0}
ASSUME MaxRetriesAssumption == MaxRetries \in Nat
ASSUME NoneAssumption == None \notin Request
ASSUME MsgIDAssumption == IsFiniteSet(MsgID)

VARIABLES
    pending,      \* tm.pending: message ID -> request in flight, or None
    queue,        \* tm.queue
    msgID,        \* OutgoingMessage.MsgID
    retryCount,   \* OutgoingMessage.RetryCount
    due,          \* requests whose Deadline is in the past
    ch,           \* OutgoingMessage.CompletionCh (buffered, capacity 1)
    sends,        \* history: how often sendFunc was called with the request
    wakeup,       \* tm.wakeupCh holds a token
    ctxDone,      \* tm.ctx is cancelled
    loopExited,   \* windowLoop has returned
    broken        \* a completed channel was sent to or closed again: Go panics

vars == <<pending, queue, msgID, retryCount, due, ch, sends, wakeup, ctxDone,
          loopExited, broken>>

(* CompletionCh: not made yet, empty, holding the response, closed. *)
ChanState == {"nil", "open", "full", "closed"}

TypeOK ==
    /\ pending \in [MsgID -> Request \cup {None}]
    /\ queue \in Seq(Request)
    /\ msgID \in [Request -> MsgID]
    /\ retryCount \in [Request -> Nat]
    /\ due \subseteq Request
    /\ ch \in [Request -> ChanState]
    /\ sends \in [Request -> Nat]
    /\ wakeup \in BOOLEAN /\ ctxDone \in BOOLEAN
    /\ loopExited \in BOOLEAN /\ broken \in BOOLEAN

-----------------------------------------------------------------------------

InFlight(p) == {id \in MsgID : p[id] # None}
InQueue(r) == \E i \in 1..Len(queue) : queue[i] = r

(* The state NewTaskManager builds before it starts windowLoop.  msgID is  *)
(* arbitrary until the request is enqueued.                                *)
Init ==
    /\ pending = [id \in MsgID |-> None]
    /\ queue = <<>>
    /\ msgID \in {f \in [Request -> MsgID] : \A r, s \in Request : f[r] = f[s]}
    /\ retryCount = [r \in Request |-> 0]
    /\ due = {}
    /\ ch = [r \in Request |-> "nil"]
    /\ sends = [r \in Request |-> 0]
    /\ wakeup = FALSE
    /\ ctxDone = FALSE
    /\ loopExited = FALSE
    /\ broken = FALSE

(* Mutant: the map is filled with the key instead of the message. *)
activateMessageByKey(m, id, p, s, d) ==
    /\ pending' = [p EXCEPT ![id] = id]
    /\ sends' = [s EXCEPT ![m] = @ + 1]
    /\ due' = d \ {m}
    /\ wakeup' = TRUE

(* Mutant: the first transmission is forgotten. *)
activateMessageSilent(m, id, p, s, d) ==
    /\ pending' = [p EXCEPT ![id] = m]
    /\ sends' = s
    /\ due' = d \ {m}
    /\ wakeup' = TRUE

(* activateMessage: a new deadline, a slot of the window p, the first      *)
(* transmission and a token for windowLoop.  s and d are the transmission  *)
(* counts and the overdue requests the caller has computed so far.         *)
activateMessage(m, id, p, s, d) ==
    /\ pending' = [p EXCEPT ![id] = m]
    /\ sends' = [s EXCEPT ![m] = @ + 1]
    /\ due' = d \ {m}
    /\ wakeup' = TRUE

(* Mutant: nobody pumps the queue. *)
pumpQueueNever(p, s, d, w) ==
    /\ pending' = p /\ sends' = s /\ due' = d /\ wakeup' = w
    /\ UNCHANGED queue

(* Mutant: the newest request leaves the queue first. *)
pumpQueueLast(p, s, d, w) ==
    IF Len(queue) > 0 /\ Cardinality(InFlight(p)) < WindowSize
    THEN LET m == queue[Len(queue)] IN
         /\ activateMessage(m, msgID[m], p, s, d)
         /\ queue' = SubSeq(queue, 1, Len(queue) - 1)
    ELSE pumpQueueNever(p, s, d, w)

(* pumpQueue on the window p: at most ONE request leaves the queue, however *)
(* many slots are free.  w is the token left in wakeupCh if none does.      *)
pumpQueue(p, s, d, w) ==
    IF Len(queue) > 0 /\ Cardinality(InFlight(p)) < WindowSize
    THEN /\ activateMessage(Head(queue), msgID[Head(queue)], p, s, d)
         /\ queue' = Tail(queue)
    ELSE /\ pending' = p
         /\ sends' = s
         /\ due' = d
         /\ wakeup' = w
         /\ UNCHANGED queue

(* Mutant: the window limit is not looked at. *)
EnqueueRequestUnlimited(r, id) ==
    /\ ch[r] = "nil"
    /\ msgID' = [msgID EXCEPT ![r] = id]
    /\ ch' = [ch EXCEPT ![r] = "open"]
    /\ activateMessage(r, id, pending, sends, due)
    /\ UNCHANGED <<queue, retryCount, ctxDone, loopExited, broken>>

(* EnqueueRequest makes a fresh CompletionCh and either activates the      *)
(* request at once, ahead of whatever is queued, or appends it.            *)
EnqueueRequest(r, id) ==
    /\ ch[r] = "nil"
    /\ msgID' = [msgID EXCEPT ![r] = id]
    /\ ch' = [ch EXCEPT ![r] = "open"]
    /\ IF Cardinality(InFlight(pending)) < WindowSize
       THEN activateMessage(r, id, pending, sends, due) /\ UNCHANGED queue
       ELSE /\ queue' = Append(queue, r)
            /\ UNCHANGED <<pending, sends, due, wakeup>>
    /\ UNCHANGED <<retryCount, ctxDone, loopExited, broken>>

(* Mutant: the answered request stays in the window. *)
HandleResponseKeeps(id) ==
    /\ pending[id] # None
    /\ broken' = (broken \/ ch[pending[id]] # "open")
    /\ ch' = [ch EXCEPT ![pending[id]] = "full"]
    /\ pumpQueue(pending, sends, due, wakeup)
    /\ UNCHANGED <<msgID, retryCount, ctxDone, loopExited>>

(* HandleResponse when msgID is in the window; an unknown ID changes       *)
(* nothing and returns false.                                              *)
HandleResponse(id) ==
    /\ pending[id] # None
    /\ broken' = (broken \/ ch[pending[id]] # "open")
    /\ ch' = [ch EXCEPT ![pending[id]] = "full"]
    /\ pumpQueue([pending EXCEPT ![id] = None], sends, due, wakeup)
    /\ UNCHANGED <<msgID, retryCount, ctxDone, loopExited>>

(* checkTimeouts: overdue requests that have used up their retries are     *)
(* closed and dropped, the other overdue ones are sent again with a later  *)
(* deadline, and if anything was dropped the queue is pumped, once.        *)
checkTimeouts(w) ==
    LET expired == {id \in InFlight(pending) : pending[id] \in due}
        toDelete == {id \in expired : retryCount[pending[id]] >= MaxRetries}
        dropped == {pending[id] : id \in toDelete}
        resent == {pending[id] : id \in expired \ toDelete}
        p == [id \in MsgID |-> IF id \in toDelete THEN None ELSE pending[id]]
        s == [r \in Request |-> IF r \in resent THEN sends[r] + 1 ELSE sends[r]]
    IN  /\ retryCount' = [r \in Request |->
                IF r \in resent THEN retryCount[r] + 1 ELSE retryCount[r]]
        /\ broken' = (broken \/ \E r \in dropped : ch[r] # "open")
        /\ ch' = [r \in Request |-> IF r \in dropped THEN "closed" ELSE ch[r]]
        /\ IF toDelete # {}
           THEN pumpQueue(p, s, due \ resent, w)
           ELSE /\ pending' = p
                /\ sends' = s
                /\ due' = due \ resent
                /\ wakeup' = w
                /\ UNCHANGED queue
        /\ UNCHANGED <<msgID, ctxDone, loopExited>>

(* windowLoop: its three select cases. *)
LoopWakeup ==
    /\ ~loopExited
    /\ wakeup
    /\ checkTimeouts(FALSE)

LoopTick ==
    /\ ~loopExited
    /\ checkTimeouts(wakeup)

(* Mutant: the maps are dropped, the channels are left open. *)
LoopCtxDoneSilent ==
    /\ ~loopExited
    /\ ctxDone
    /\ pending' = [id \in MsgID |-> None]
    /\ queue' = <<>>
    /\ loopExited' = TRUE
    /\ UNCHANGED <<msgID, retryCount, due, ch, sends, wakeup, ctxDone, broken>>

LoopCtxDone ==
    /\ ~loopExited
    /\ ctxDone
    /\ LET held == {r \in Request :
                       InQueue(r) \/ \E id \in MsgID : pending[id] = r}
       IN  /\ broken' = (broken \/ \E r \in held : ch[r] # "open")
           /\ ch' = [r \in Request |-> IF r \in held THEN "closed" ELSE ch[r]]
    /\ pending' = [id \in MsgID |-> None]
    /\ queue' = <<>>
    /\ loopExited' = TRUE
    /\ UNCHANGED <<msgID, retryCount, due, sends, wakeup, ctxDone>>

(* Stop, or the cancellation of the session context tm.ctx derives from. *)
Stop ==
    /\ ~ctxDone
    /\ ctxDone' = TRUE
    /\ UNCHANGED <<pending, queue, msgID, retryCount, due, ch, sends, wakeup,
                   loopExited, broken>>

(* The clock reaches a request's Deadline. *)
DeadlinePasses(r) ==
    /\ \E id \in MsgID : pending[id] = r
    /\ r \notin due
    /\ due' = due \cup {r}
    /\ UNCHANGED <<pending, queue, msgID, retryCount, ch, sends, wakeup,
                   ctxDone, loopExited, broken>>

(* What the callers owe the window: an ID that no request still waiting    *)
(* for its answer carries.  IKERequests examines whether they keep to it.  *)
FreeID(id) == \A r \in Request : ch[r] = "open" => msgID[r] # id

Next ==
    \/ \E r \in Request, id \in MsgID : FreeID(id) /\ EnqueueRequest(r, id)
    \/ \E id \in MsgID : HandleResponse(id)
    \/ LoopWakeup
    \/ LoopTick
    \/ LoopCtxDone
    \/ Stop
    \/ \E r \in Request : DeadlinePasses(r)

(* The ticker fires every 500 ms, a select case that stays ready is taken, *)
(* and time passes.  Nothing is assumed of the peer or of the callers.     *)
Fairness ==
    /\ WF_vars(LoopTick)
    /\ WF_vars(LoopCtxDone)
    /\ \A r \in Request : WF_vars(DeadlinePasses(r))

Spec == Init /\ [][Next]_vars
FairSpec == Spec /\ Fairness

-----------------------------------------------------------------------------
(* No more than WindowSize requests are in flight, whatever the order of   *)
(* enqueues, answers and simultaneous timeouts that pump the queue.        *)
WindowBound == Cardinality(InFlight(pending)) <= WindowSize

(* A caller whose channel is still open is known to the window: its        *)
(* request is in flight under its own ID or queued.  A request that        *)
(* windowLoop forgot would leave sendEncryptedWithRetry waiting for ever.  *)
NoLostWaiter ==
    \A r \in Request : ch[r] = "open" => pending[msgID[r]] = r \/ InQueue(r)

(* pumpQueue is only called when a request leaves the window, so a queue   *)
(* that outlives an empty window would never move again.                   *)
QueueNeverStranded ==
    queue # <<>> => InFlight(pending) # {}

(* No channel is closed twice, or written to after it was completed: both  *)
(* panic, or block windowLoop with tm.mu held.                             *)
NeverBroken == ~broken

(* A caller sees a hard timeout only after the request went out            *)
(* 1 + MaxRetries times, and no request is ever sent more often than that. *)
RetryBudget ==
    \A r \in Request :
        /\ sends[r] <= MaxRetries + 1
        /\ ch[r] = "closed" /\ ~ctxDone => sends[r] = MaxRetries + 1

(* A completed request is never sent again and its outcome never changes:  *)
(* the answer stays in the channel until the caller picks it up.           *)
CompletedIsFinal ==
    [][\A r \in Request : ch[r] \in {"full", "closed"} =>
            ch'[r] = ch[r] /\ sends'[r] = sends[r]]_vars

(* Every accepted request is answered, times out or is cancelled, even if  *)
(* the peer never answers and others keep being enqueued ahead of it.      *)
EveryRequestResolved ==
    \A r \in Request : ch[r] = "open" ~> (ch[r] # "open" \/ loopExited)
-----------------------------------------------------------------------------
(* Refinement: what RequestWindow calls the status of a request. *)
statusOf(r) ==
    CASE ch[r] = "nil" -> "idle"
      [] ch[r] = "full" -> "answered"
      [] ch[r] = "closed" -> "failed"
      [] OTHER -> IF pending[msgID[r]] = r THEN "flying" ELSE "queued"

Window == INSTANCE RequestWindow WITH
            Client <- Request,
            Size <- WindowSize,
            status <- [r \in Request |-> statusOf(r)],
            line <- queue,
            closed <- loopExited

(* The window with its IDs, retries, deadlines and channels does nothing   *)
(* RequestWindow does not allow: no request is resolved twice, overtaken   *)
(* in the queue, or promoted except when a slot falls free.                *)
ImplementsWindow == Window!ASafe
=============================================================================
