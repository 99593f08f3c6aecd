----------------------------- MODULE Lifecycle -----------------------------
(***************************************************************************)
(* The life of one session: Connect and its attempts, the goroutines each  *)
(* attempt starts, the socket they share, an UpdateAddresses call of the   *)
(* application, and SessionManager, which starts and cancels sessions of   *)
(* one ID.  The first session started is modelled in full, later ones only *)
(* as entries of the manager.                                              *)
(*                                                                         *)
(* What the exchanges say is left to Connect and Rekey, what the kernel    *)
(* holds to DataPlane: here a handshake has an outcome, and a message is a *)
(* token in a channel.  The second close of a channel, and a send on a     *)
(* closed one, end the process.  Goroutines that nobody depends on and     *)
(* that end with the context (the window's loop, logSessionStats, the      *)
(* timers, the monitor of network events, the keepalive) are left out, and *)
(* so is the IKE rekey of the peer that stops the dispatcher, see Rekey.   *)
(***************************************************************************)
EXTENDS Integers

CONSTANTS
    Modes,          \* the values of cfg.DataplaneMode tried
    MaxSockets,     \* bound on the sockets one session binds
    MaxSessions,    \* bound on the sessions started under the ID
    Cap             \* capacity of IKEChan

ASSUME ModesAssumption == Modes \subseteq {"tun", "xfrmi", "netstack"}
ASSUME BoundsAssumption ==
    MaxSockets \in Nat \ {0} /\ MaxSessions \in Nat \ {0} /\ Cap \in Nat \ {0}

Socket == 1..MaxSockets
Sessions == 1..MaxSessions

VARIABLES
    sessions,       \* SessionManager: the session of the ID in the maps, or 0
    started,        \* how many sessions were started
    toCancel,       \* the cancel functions that Stop calls hold
    cancelled,      \* the sessions whose context the manager cancelled
    mode,           \* cfg.DataplaneMode
    ctxDone,        \* s.ctx is cancelled
    pc,             \* where Connect is
    outcome,        \* what connectOnce is about to return
    deferred,       \* the socket whose Stop connectOnce deferred
    established,    \* how often the session came up: 0, 1, 2 for more
    done,           \* s.done is closed
    socket,         \* s.socket
    bound,          \* how many sockets were bound
    open,           \* the sockets whose Conn is open
    closed,         \* the sockets whose channels are closed
    reader,         \* the readLoop of each socket
    ikeChan,        \* how many messages IKEChan of each socket holds
    disp,           \* ikeDispatchLoop
    dispSocket,     \* the socket whose IKEChan it waits on
    mobike,         \* the UpdateAddresses call
    mobikeOld,      \* the socket it replaced
    innerClosed,    \* innerClosed and innerRx are closed
    rx,             \* the ESP receiver on each socket
    panicked        \* what ended the process, or "no"

managerVars == <<sessions, started, toCancel, cancelled>>
connectVars == <<outcome, deferred, established, done>>
socketVars == <<socket, bound, open, closed, reader, ikeChan>>
dispVars == <<disp, dispSocket>>
mobikeVars == <<mobike, mobikeOld>>
innerVars == <<innerClosed, rx>>
vars == <<managerVars, mode, ctxDone, pc, connectVars, socketVars, dispVars,  mobikeVars, innerVars, panicked>>

Init ==
    /\ sessions = 0 /\ started = 0 /\ toCancel = {} /\ cancelled = {}
    /\ mode \in Modes
    /\ ctxDone = FALSE
    /\ pc = "none" /\ outcome = "return" /\ deferred = 0
    /\ established = 0 /\ done = FALSE
    /\ socket = 0 /\ bound = 0 /\ open = {} /\ closed = {}
    /\ reader = [k \in Socket |-> "off"]
    /\ ikeChan = [k \in Socket |-> 0]
    /\ disp = "off" /\ dispSocket = 0
    /\ mobike = "idle" /\ mobikeOld = 0
    /\ innerClosed = FALSE
    /\ rx = [k \in Socket |-> "off"]
    /\ panicked = "no"

Running == panicked = "no"

-----------------------------------------------------------------------------
(* SessionManager.Start refuses an ID that is in the maps; the goroutine   *)
(* it spawns runs Connect.                                                 *)
Start ==
    /\ Running
    /\ sessions = 0 /\ started < MaxSessions
    /\ started' = started + 1
    /\ sessions' = started + 1
    /\ UNCHANGED <<toCancel, cancelled, mode, ctxDone, pc, connectVars,
                   socketVars, dispVars, mobikeVars, innerVars, panicked>>

(* SessionManager.Stop: the entry leaves the maps under mu ... *)
Stop ==
    /\ Running
    /\ sessions # 0
    /\ toCancel' = toCancel \cup {sessions}
    /\ sessions' = 0
    /\ UNCHANGED <<started, cancelled, mode, ctxDone, pc, connectVars,
                   socketVars, dispVars, mobikeVars, innerVars, panicked>>

(* Mutant: the entry is deleted after the cancellation, under mu again. *)
stopCancelsThenDeletes(n) ==
    /\ Running
    /\ n \in toCancel
    /\ toCancel' = toCancel \ {n}
    /\ cancelled' = cancelled \cup {n}
    /\ sessions' = 0
    /\ ctxDone' = (ctxDone \/ n = 1)
    /\ UNCHANGED <<started, mode, pc, connectVars, socketVars, dispVars,
                   mobikeVars, innerVars, panicked>>

(* ... and the context is cancelled after the unlock. *)
stopCancels(n) ==
    /\ Running
    /\ n \in toCancel
    /\ toCancel' = toCancel \ {n}
    /\ cancelled' = cancelled \cup {n}
    /\ ctxDone' = (ctxDone \/ n = 1)
    /\ UNCHANGED <<sessions, started, mode, pc, connectVars, socketVars,
                   dispVars, mobikeVars, innerVars, panicked>>

(* Shutdown, a Delete or REDIRECT of the peer, DPD, a timer that gave up   *)
(* or a hard expire event calls s.cancel, once Connect has set it.         *)
Shutdown ==
    /\ Running
    /\ pc # "none" /\ ~ctxDone
    /\ ctxDone' = TRUE
    /\ UNCHANGED <<managerVars, mode, pc, connectVars, socketVars, dispVars,
                   mobikeVars, innerVars, panicked>>

-----------------------------------------------------------------------------
(* The socket, as connectOnce and UpdateAddresses use it.                  *)

(* NewSocketManager and Start: s.socket is replaced, readLoop runs. *)
startSocket ==
    /\ bound < MaxSockets
    /\ bound' = bound + 1
    /\ socket' = bound + 1
    /\ reader' = [reader EXCEPT ![bound + 1] = "reading"]

(* The rest of SocketManager.Stop after Conn.Close, when readLoop has      *)
(* ended: the channels are closed, which panics if an earlier Stop has.    *)
closeChannels(k) ==
    /\ reader[k] = "gone"
    /\ closed' = closed \cup {k}
    /\ panicked' = IF k \in closed THEN "socket" ELSE "no"
    /\ UNCHANGED <<socket, bound, open, reader, ikeChan>>

(* Mutant: readLoop waits for room in IKEChan. *)
readIKEWaits(k) ==
    /\ Running
    /\ \/ reader[k] = "reading" /\ k \in open
       \/ reader[k] = "waiting" /\ ikeChan[k] < Cap
    /\ IF ikeChan[k] < Cap
       THEN /\ ikeChan' = [ikeChan EXCEPT ![k] = @ + 1]
            /\ reader' = [reader EXCEPT ![k] = "reading"]
       ELSE /\ reader' = [reader EXCEPT ![k] = "waiting"]
            /\ UNCHANGED ikeChan
    /\ UNCHANGED <<managerVars, mode, ctxDone, pc, connectVars, socket,
                   bound, open, closed, dispVars, mobikeVars, innerVars,
                   panicked>>

(* readLoop puts an IKE message into IKEChan; without room it is dropped.  *)
(* When the dispatcher is gone nobody cares what the channels hold.        *)
readIKE(k) ==
    /\ Running
    /\ reader[k] = "reading" /\ k \in open /\ disp # "gone"
    /\ ikeChan[k] < Cap
    /\ ikeChan' = [ikeChan EXCEPT ![k] = @ + 1]
    /\ UNCHANGED <<managerVars, mode, ctxDone, pc, connectVars, socket,
                   bound, open, closed, reader, dispVars, mobikeVars,
                   innerVars, panicked>>

(* Mutant: readLoop closes the channels when it ends. *)
readFailsAndCloses(k) ==
    /\ Running
    /\ reader[k] = "reading"
    /\ reader' = [reader EXCEPT ![k] = "gone"]
    /\ closed' = closed \cup {k}
    /\ UNCHANGED <<managerVars, mode, ctxDone, pc, connectVars, socket, bound,
                   open, ikeChan, dispVars, mobikeVars, innerVars, panicked>>

(* ReadFromUDP fails, because Conn is closed or because the kernel reports *)
(* an ICMP error on it: readLoop ends, the channels stay as they are.      *)
readFails(k) ==
    /\ Running
    /\ reader[k] = "reading"
    /\ reader' = [reader EXCEPT ![k] = "gone"]
    /\ UNCHANGED <<managerVars, mode, ctxDone, pc, connectVars, socket,
                   bound, open, closed, ikeChan, dispVars, mobikeVars,
                   innerVars, panicked>>

-----------------------------------------------------------------------------
(* Connect, in the goroutine Start spawned. *)
Connect ==
    /\ Running
    /\ pc = "none" /\ started > 0
    /\ pc' = "bind"
    /\ UNCHANGED <<managerVars, mode, ctxDone, connectVars, socketVars,
                   dispVars, mobikeVars, innerVars, panicked>>

(* connectOnce: the socket may not bind. *)
bindFails ==
    /\ Running
    /\ pc = "bind"
    /\ pc' = "returned" /\ outcome' = "return"
    /\ UNCHANGED <<managerVars, mode, ctxDone, deferred, established, done,
                   socketVars, dispVars, mobikeVars, innerVars, panicked>>

(* Otherwise its Stop is deferred. *)
bind ==
    /\ Running
    /\ pc = "bind"
    /\ startSocket
    /\ open' = open \cup {bound + 1}
    /\ deferred' = bound + 1
    /\ pc' = "ensure"
    /\ UNCHANGED <<managerVars, mode, ctxDone, outcome, established, done,
                   closed, ikeChan, dispVars, mobikeVars, innerVars,
                   panicked>>

(* UpdateAddresses is the only one to hold ikeMu for long. *)
ikeMuFree == mobike # "stopping"

(* ensureIKEDispatcher: only the first call starts the dispatcher. *)
ensureIKEDispatcher ==
    /\ Running
    /\ pc = "ensure" /\ ikeMuFree
    /\ pc' = "handshake"
    /\ IF disp = "off"
       THEN disp' = "recv" /\ dispSocket' = socket
       ELSE UNCHANGED dispVars
    /\ UNCHANGED <<managerVars, mode, ctxDone, connectVars, socketVars,
                   mobikeVars, innerVars, panicked>>

(* Somebody delivers what arrives on s.socket: without, every exchange     *)
(* runs into its timeout.                                                  *)
served == dispSocket = socket /\ disp \in {"recv", "lock", "busy"}

(* Mutant: the socket is only stopped at the end of a session. *)
attemptFailsWithoutStop ==
    /\ Running
    /\ pc = "handshake"
    /\ pc' = "returned" /\ outcome' = "return"
    /\ UNCHANGED <<managerVars, mode, ctxDone, deferred, established, done,
                   socketVars, dispVars, mobikeVars, innerVars, panicked>>

(* The attempt ends without a session: an error, a timeout or the context  *)
(* in the handshake, a data plane that does not come up.                   *)
attemptFails ==
    /\ Running
    /\ pc = "handshake"
    /\ pc' = "stop" /\ outcome' = "return"
    /\ UNCHANGED <<managerVars, mode, ctxDone, deferred, established, done,
                   socketVars, dispVars, mobikeVars, innerVars, panicked>>

(* Mutant: every return of connectOnce closes s.done. *)
redirectedClosesDone ==
    /\ Running
    /\ pc = "handshake" /\ served
    /\ pc' = "stop" /\ outcome' = "again"
    /\ done' = TRUE
    /\ UNCHANGED <<managerVars, mode, ctxDone, deferred, established,
                   socketVars, dispVars, mobikeVars, innerVars, panicked>>

(* A REDIRECT in the handshake. *)
redirected ==
    /\ Running
    /\ pc = "handshake" /\ served
    /\ pc' = "stop" /\ outcome' = "again"
    /\ UNCHANGED <<managerVars, mode, ctxDone, deferred, established, done,
                   socketVars, dispVars, mobikeVars, innerVars, panicked>>

(* The handshake succeeds and the data plane is set up.  Its receiver      *)
(* reads the socket of the moment, to its end.                             *)
setupDataPlane ==
    /\ Running
    /\ pc = "handshake" /\ served
    /\ pc' = "control"
    /\ rx' = IF mode = "xfrmi" THEN rx ELSE [rx EXCEPT ![socket] = "range"]
    /\ UNCHANGED <<managerVars, mode, ctxDone, connectVars, socketVars,
                   dispVars, mobikeVars, innerClosed, panicked>>

(* startIKEControlLoop and the timers, which end with the context only. *)
startIKEControlLoop ==
    /\ Running
    /\ pc = "control" /\ ikeMuFree
    /\ pc' = "up"
    /\ established' = IF established = 0 THEN 1 ELSE 2
    /\ UNCHANGED <<managerVars, mode, ctxDone, outcome, deferred, done,
                   socketVars, dispVars, mobikeVars, innerVars, panicked>>

(* Connect waits for the context or for a token of Reauthenticate, which   *)
(* its timer or the application may send at any time.                      *)
ctxEnds ==
    /\ Running
    /\ pc = "up" /\ ctxDone
    /\ pc' = "cleanup" /\ outcome' = "return"
    /\ UNCHANGED <<managerVars, mode, ctxDone, deferred, established, done,
                   socketVars, dispVars, mobikeVars, innerVars, panicked>>

Reauthenticate ==
    /\ Running
    /\ pc = "up"
    /\ pc' = "cleanup" /\ outcome' = "again"
    /\ UNCHANGED <<managerVars, mode, ctxDone, deferred, established, done,
                   socketVars, dispVars, mobikeVars, innerVars, panicked>>

(* cleanupNetworkConfig and close(s.done).  closeNetstackDataplane looks   *)
(* whether innerClosed is closed already, but not whether innerRx is.      *)
cleanup ==
    /\ Running
    /\ pc = "cleanup"
    /\ pc' = "stop"
    /\ innerClosed' = (mode = "netstack")
    /\ done' = TRUE
    /\ panicked' = IF innerClosed THEN "innerRx" ELSE IF done THEN "done" ELSE "no"
    /\ UNCHANGED <<managerVars, mode, ctxDone, outcome, deferred,
                   established, socketVars, dispVars, mobikeVars, rx>>

(* The deferred Stop, of the socket this attempt started. *)
deferredStop ==
    /\ Running
    /\ pc = "stop"
    /\ open' = open \ {deferred}
    /\ pc' = "stopping"
    /\ UNCHANGED <<managerVars, mode, ctxDone, connectVars, socket, bound,
                   closed, reader, ikeChan, dispVars, mobikeVars, innerVars,
                   panicked>>

(* connectOnce returns.  Connect starts over after a redirect or a         *)
(* reauthentication.                                                       *)
connectOnceReturns ==
    /\ Running
    /\ pc = "stopping"
    /\ closeChannels(deferred)
    /\ pc' = IF outcome = "again" THEN "bind" ELSE "returned"
    /\ UNCHANGED <<managerVars, mode, ctxDone, connectVars, dispVars,
                   mobikeVars, innerVars>>

-----------------------------------------------------------------------------
(* ikeDispatchLoop looks s.socket up whenever it waits.  A request of the  *)
(* peer, or a response nobody waits for, takes ikeMu.                      *)
dispatch ==
    /\ Running
    /\ disp = "recv" /\ ikeChan[dispSocket] > 0
    /\ ikeChan' = [ikeChan EXCEPT ![dispSocket] = @ - 1]
    /\ disp' \in {"lock", "busy"}
    /\ UNCHANGED <<managerVars, mode, ctxDone, pc, connectVars, socket,
                   bound, open, closed, reader, dispSocket, mobikeVars,
                   innerVars, panicked>>

dispatchLocks ==
    /\ Running
    /\ disp = "lock" /\ ikeMuFree
    /\ disp' = "busy"
    /\ UNCHANGED <<managerVars, mode, ctxDone, pc, connectVars, socketVars,
                   dispSocket, mobikeVars, innerVars, panicked>>

dispatched ==
    /\ Running
    /\ disp = "busy"
    /\ disp' = "recv" /\ dispSocket' = socket
    /\ UNCHANGED <<managerVars, mode, ctxDone, pc, connectVars, socketVars,
                   mobikeVars, innerVars, panicked>>

dispatcherEnds ==
    /\ Running
    /\ disp = "recv"
    /\ ctxDone \/ (dispSocket \in closed /\ ikeChan[dispSocket] = 0)
    /\ disp' = "gone" /\ dispSocket' = 0
    /\ ikeChan' = [k \in Socket |-> 0]
    /\ UNCHANGED <<managerVars, mode, ctxDone, pc, connectVars, socket,
                   bound, open, closed, reader, mobikeVars, innerVars,
                   panicked>>

-----------------------------------------------------------------------------
(* The netstack receiver takes an ESP packet, and looks at the context and *)
(* at innerClosed a first time.  ESPChan may hold packets at any time,     *)
(* also when it is closed.                                                 *)
rxTakes(k) ==
    /\ Running
    /\ mode = "netstack" /\ rx[k] = "range"
    /\ rx' = [rx EXCEPT ![k] = IF ctxDone \/ innerClosed THEN "gone" ELSE "have"]
    /\ UNCHANGED <<managerVars, mode, ctxDone, pc, connectVars, socketVars,
                   dispVars, mobikeVars, innerClosed, panicked>>

(* It decapsulates the packet and offers it to innerRx: select may choose  *)
(* the send on the closed channel over the other ready cases.              *)
rxDelivers(k) ==
    /\ Running
    /\ rx[k] = "have"
    /\ \/ /\ ctxDone \/ innerClosed
          /\ rx' = [rx EXCEPT ![k] = "gone"]
          /\ UNCHANGED panicked
       \/ /\ rx' = [rx EXCEPT ![k] = "range"]
          /\ panicked' = IF innerClosed THEN "innerRx" ELSE "no"
    /\ UNCHANGED <<managerVars, mode, ctxDone, pc, connectVars, socketVars,
                   dispVars, mobikeVars, innerClosed>>

rxEnds(k) ==
    /\ Running
    /\ rx[k] = "range" /\ k \in closed
    /\ rx' = [rx EXCEPT ![k] = "gone"]
    /\ UNCHANGED <<managerVars, mode, ctxDone, pc, connectVars, socketVars,
                   dispVars, mobikeVars, innerClosed, panicked>>

-----------------------------------------------------------------------------
(* UpdateAddresses of the application, once MOBIKE is negotiated: the      *)
(* request goes out over the old socket and is waited for.                 *)
UpdateAddresses ==
    /\ Running
    /\ mobike = "idle" /\ established > 0
    /\ mobike' = "sent"
    /\ UNCHANGED <<managerVars, mode, ctxDone, pc, connectVars, socketVars,
                   dispVars, mobikeOld, innerVars, panicked>>

updateAnswered ==
    /\ Running
    /\ mobike = "sent" /\ served
    /\ mobike' = "lock"
    /\ UNCHANGED <<managerVars, mode, ctxDone, pc, connectVars, socketVars,
                   dispVars, mobikeOld, innerVars, panicked>>

(* The request is given up, the context ends, COOKIE2 is wrong, or the new *)
(* socket does not bind.                                                   *)
updateFails ==
    /\ Running
    /\ mobike \in {"sent", "lock"}
    /\ mobike' = "idle"
    /\ UNCHANGED <<managerVars, mode, ctxDone, pc, connectVars, socketVars,
                   dispVars, mobikeOld, innerVars, panicked>>

(* Under ikeMu the new socket replaces s.socket, with no monitor or receiver *)
(* started for it, and Stop of the old one begins.                         *)
swapSocket ==
    /\ Running
    /\ mobike = "lock"
    /\ startSocket
    /\ open' = (open \ {socket}) \cup {bound + 1}
    /\ mobike' = "stopping" /\ mobikeOld' = socket
    /\ UNCHANGED <<managerVars, mode, ctxDone, pc, connectVars, closed,
                   ikeChan, dispVars, innerVars, panicked>>

(* The kernel's states and policies follow, see DataPlane, and ikeMu is    *)
(* released.                                                               *)
updateReturns ==
    /\ Running
    /\ mobike = "stopping"
    /\ closeChannels(mobikeOld)
    /\ mobike' = "idle"
    /\ UNCHANGED <<managerVars, mode, ctxDone, pc, connectVars, dispVars,
                   mobikeOld, innerVars>>

-----------------------------------------------------------------------------
connectSteps ==
    \/ Connect \/ bindFails \/ bind \/ ensureIKEDispatcher
    \/ attemptFails \/ redirected \/ setupDataPlane \/ startIKEControlLoop
    \/ ctxEnds \/ cleanup \/ deferredStop \/ connectOnceReturns
dispatcherSteps == dispatch \/ dispatchLocks \/ dispatched \/ dispatcherEnds
rxSteps(k) == rxTakes(k) \/ rxDelivers(k) \/ rxEnds(k)
mobikeSteps == updateAnswered \/ updateFails \/ swapSocket \/ updateReturns

Next ==
    \/ Start \/ Stop \/ Shutdown
    \/ \E n \in Sessions : stopCancels(n)
    \/ connectSteps \/ Reauthenticate
    \/ dispatcherSteps
    \/ UpdateAddresses \/ mobikeSteps
    \/ \E k \in Socket :
        readIKE(k) \/ readFails(k) \/ rxSteps(k)

(* Goroutines that can run do, the read on a closed Conn fails, and        *)
(* exchanges end because the window gives them up.  Nothing is assumed of  *)
(* the peer, the application or the network.                               *)
Fairness ==
    /\ \A n \in Sessions : WF_vars(stopCancels(n))
    /\ WF_vars(connectSteps) /\ WF_vars(dispatcherSteps)
    /\ WF_vars(mobikeSteps)
    /\ \A k \in Socket :
        /\ WF_vars(k \notin open /\ readFails(k))
        /\ WF_vars(rxSteps(k))

Spec == Init /\ [][Next]_vars
FairSpec == Spec /\ Fairness
-----------------------------------------------------------------------------
(* The closes and sends that are not guarded go wrong only where a comment *)
(* here says so: s.done and innerRx when a session is established again,   *)
(* innerRx also under a receiver with a packet in hand, the channels of a  *)
(* socket that UpdateAddresses replaced.  No other order of cancellation,  *)
(* redirects, errors and events closes anything twice.                     *)
PanicCauses ==
    /\ panicked = "done" => established = 2
    /\ panicked = "socket" => mobikeOld # 0
    /\ panicked = "innerRx" => mode = "netstack"

(* While a session is up for the first time and nobody moved it, whatever  *)
(* came before and even if its socket hears nothing any more, the          *)
(* dispatcher and the ESP receiver attend to the socket in use.            *)
EstablishedIsServed ==
    pc = "up" /\ established = 1 /\ mobikeOld = 0 /\ ~ctxDone =>
        /\ served
        /\ mode = "xfrmi" \/ rx[socket] \in {"range", "have"}

(* Stop and Start of one ID from several goroutines: every session started *)
(* can still be reached by a Stop or was, or is about to be, cancelled.    *)
NoSessionLost ==
    \A n \in 1..started : n = sessions \/ n \in toCancel \cup cancelled

(* Connect, MOBIKE, the dispatcher, readLoop and the ESP receiver are at    *)
(* rest.  The goroutine that reads the TUN device (session.go:1823) is not  *)
(* among them: neither the context nor the socket ends it, only the device, *)
(* which is closed after errors of the set-up and otherwise stays open.     *)
Quiet ==
    /\ pc = "returned" /\ mobike = "idle"
    /\ disp \in {"off", "gone"}
    /\ \A k \in Socket :
        reader[k] \in {"off", "gone"} /\ rx[k] \in {"off", "gone"}

(* A cancelled session comes to rest, in whatever step the cancellation    *)
(* finds it: Connect returns, and no dispatcher, reader of the socket or   *)
(* ESP receiver stays behind, unless the process ends in one of the panics *)
(* above.  (The reader of the TUN device does stay behind, see Quiet.)     *)
Quiesces == ctxDone ~> Quiet \/ ~Running

(* UpdateAddresses always returns, although it waits for readLoop while it *)
(* holds the lock the dispatcher needs.                                    *)
UpdateReturns == mobike # "idle" ~> mobike = "idle" \/ ~Running
=============================================================================
