-------------------------- MODULE LifecycleProofs --------------------------
(***************************************************************************)
(* TLAPS proofs about the life of a session, for any number of sessions of *)
(* an ID, of attempts and sockets, any capacity of IKEChan and any mode of *)
(* the data plane.                                                         *)
(*                                                                         *)
(* The inductive invariant LInv follows the socket: until UpdateAddresses  *)
(* replaces one, the socket that connectOnce will stop is the only one in  *)
(* use, its channels are open and the dispatcher waits on it.              *)
(***************************************************************************)
EXTENDS Lifecycle, TLAPS

(* Where connectOnce has deferred a Stop. *)
Attempt ==
    {"ensure", "handshake", "control", "up", "cleanup", "stop", "stopping"}

Dispatching == {"recv", "lock", "busy"}

TypeOK ==
    /\ started \in 0..MaxSessions /\ sessions \in 0..MaxSessions
    /\ toCancel \subseteq Sessions /\ cancelled \subseteq Sessions
    /\ mode \in Modes
    /\ pc \in {"none", "bind", "returned"} \cup Attempt
    /\ outcome \in {"return", "again"}
    /\ established \in 0..2
    /\ {bound, socket, deferred, dispSocket, mobikeOld} \subseteq 0..MaxSockets
    /\ open \subseteq Socket /\ closed \subseteq Socket
    /\ reader \in [Socket -> {"off", "reading", "gone"}]
    /\ ikeChan \in [Socket -> 0..Cap]
    /\ disp \in {"off", "gone"} \cup Dispatching
    /\ mobike \in {"idle", "sent", "lock", "stopping"}
    /\ rx \in [Socket -> {"off", "range", "have", "gone"}]
    /\ panicked \in {"no", "done", "innerRx", "socket"}

(* SessionManager: the maps name a session that was started, and none is   *)
(* lost.                                                                   *)
Managed == sessions \in 0..started /\ NoSessionLost

(* Every index of a socket in use is that of a socket bound. *)
SocketsBound ==
    /\ socket = bound
    /\ closed \subseteq 1..bound
    /\ mobikeOld \in 0..bound
    /\ pc \in Attempt => deferred \in 1..bound
    /\ disp \in Dispatching => dispSocket \in 1..bound
    /\ established # 0 => bound # 0
    /\ mobike # "idle" => established # 0
    /\ mobike = "stopping" => mobikeOld # 0

(* Until UpdateAddresses replaces it, the socket of the attempt is the one *)
(* in use, and nobody has stopped it.                                      *)
OneOwner ==
    mobikeOld = 0 /\ pc \in Attempt => deferred = bound /\ bound \notin closed

(* The channels that cleanup closes are open during the first session. *)
ClosedOnce ==
    /\ innerClosed => done /\ mode = "netstack"
    /\ done \/ pc \in {"up", "cleanup"} => established # 0
    /\ done /\ pc \in {"up", "cleanup"} => established = 2

(* Dispatcher and receiver keep to the socket from the handshake on. *)
Attended ==
    mobikeOld = 0 /\ ~ctxDone /\ pc \in {"control", "up"} =>
        /\ served
        /\ innerClosed \/ mode = "xfrmi" \/ rx[socket] \in {"range", "have"}

LInv ==
    /\ TypeOK /\ Managed /\ SocketsBound /\ OneOwner /\ ClosedOnce
    /\ Attended /\ PanicCauses
-----------------------------------------------------------------------------
USE ModesAssumption, BoundsAssumption
    DEF managerVars, connectVars, socketVars, dispVars, mobikeVars, innerVars,
        Running, Socket, Sessions

LEMMA InitLInv == Init => LInv
BY DEF Init, LInv, TypeOK, Managed, NoSessionLost, SocketsBound, OneOwner,
       ClosedOnce, Attended, PanicCauses, Attempt, Dispatching

(* Every step keeps the types. *)
LEMMA StepTypeOK ==
    ASSUME LInv, [Next]_vars
    PROVE  TypeOK'
<1>1. CASE Start
  BY <1>1 DEF Start, LInv, TypeOK, SocketsBound, Attempt, Dispatching
<1>2. CASE Stop
  BY <1>2 DEF Stop, LInv, TypeOK, SocketsBound, Attempt, Dispatching
<1>3. ASSUME NEW n \in Sessions, stopCancels(n) PROVE TypeOK'
  BY SMTT(30), <1>3 DEF stopCancels, LInv, TypeOK, SocketsBound, Attempt,
     Dispatching
<1>4. CASE Shutdown
  BY <1>4 DEF Shutdown, LInv, TypeOK, SocketsBound, Attempt, Dispatching
<1>5. CASE Connect
  BY <1>5 DEF Connect, LInv, TypeOK, SocketsBound, Attempt, Dispatching
<1>6. CASE bindFails
  BY <1>6 DEF bindFails, LInv, TypeOK, SocketsBound, Attempt, Dispatching
<1>7. CASE bind
  <2>1. bound + 1 \in Socket /\ bound' = bound + 1 /\ socket' = bound + 1
    BY <1>7 DEF bind, startSocket, LInv, TypeOK
  <2>2. /\ reader' \in [Socket -> {"off", "reading", "gone"}]
        /\ open' \subseteq Socket
    BY <1>7, <2>1 DEF bind, startSocket, LInv, TypeOK
  <2> QED
    BY SMTT(30), <1>7, <2>1, <2>2 DEF bind, LInv, TypeOK, Attempt
<1>8. CASE ensureIKEDispatcher
  BY <1>8 DEF ensureIKEDispatcher, LInv, TypeOK, SocketsBound, Attempt,
              Dispatching
<1>9. CASE attemptFails
  BY <1>9 DEF attemptFails, LInv, TypeOK, SocketsBound, Attempt, Dispatching
<1>10. CASE redirected
  BY <1>10 DEF redirected, LInv, TypeOK, SocketsBound, Attempt, Dispatching
<1>11. CASE setupDataPlane
  BY <1>11 DEF setupDataPlane, LInv, TypeOK, SocketsBound, Attempt,
               Dispatching
<1>12. CASE startIKEControlLoop
  BY SMTT(30), <1>12 DEF startIKEControlLoop, LInv, TypeOK, SocketsBound,
     Attempt,
               Dispatching
<1>13. CASE ctxEnds
  BY <1>13 DEF ctxEnds, LInv, TypeOK, SocketsBound, Attempt, Dispatching
<1>14. CASE Reauthenticate
  BY <1>14 DEF Reauthenticate, LInv, TypeOK, SocketsBound, Attempt,
               Dispatching
<1>15. CASE cleanup
  BY <1>15 DEF cleanup, LInv, TypeOK, SocketsBound, Attempt, Dispatching
<1>16. CASE deferredStop
  BY <1>16 DEF deferredStop, LInv, TypeOK, SocketsBound, Attempt,
               Dispatching
<1>17. CASE connectOnceReturns
  <2>1. deferred \in 1..bound /\ bound \in 0..MaxSockets
    BY <1>17 DEF connectOnceReturns, LInv, TypeOK, SocketsBound, Attempt
  <2>2. closed' \subseteq Socket
    BY <1>17, <2>1 DEF connectOnceReturns, closeChannels, LInv, TypeOK
  <2>3. pc' \in {"none", "bind", "returned"} \cup Attempt
    BY <1>17 DEF connectOnceReturns
  <2>4. panicked' \in {"no", "socket"}
    BY <1>17 DEF connectOnceReturns, closeChannels
  <2> QED
    BY <1>17, <2>2, <2>3, <2>4
       DEF connectOnceReturns, closeChannels, LInv, TypeOK
<1>18. CASE dispatch
  BY SMTT(30), <1>18 DEF dispatch, LInv, TypeOK, SocketsBound, Attempt,
     Dispatching
<1>19. CASE dispatchLocks
  BY <1>19 DEF dispatchLocks, LInv, TypeOK, SocketsBound, Attempt,
               Dispatching
<1>20. CASE dispatched
  BY <1>20 DEF dispatched, LInv, TypeOK, SocketsBound, Attempt, Dispatching
<1>21. CASE dispatcherEnds
  BY SMTT(30), <1>21 DEF dispatcherEnds, LInv, TypeOK, SocketsBound, Attempt,
               Dispatching
<1>22. CASE UpdateAddresses
  BY <1>22 DEF UpdateAddresses, LInv, TypeOK, SocketsBound, Attempt,
               Dispatching
<1>23. CASE updateAnswered
  BY <1>23 DEF updateAnswered, LInv, TypeOK, SocketsBound, Attempt,
               Dispatching
<1>24. CASE updateFails
  BY <1>24 DEF updateFails, LInv, TypeOK, SocketsBound, Attempt, Dispatching
<1>25. CASE swapSocket
  <2>1. bound + 1 \in Socket /\ bound' = bound + 1 /\ socket' = bound + 1
    BY <1>25 DEF swapSocket, startSocket, LInv, TypeOK
  <2>2. /\ reader' \in [Socket -> {"off", "reading", "gone"}]
        /\ open' \subseteq Socket
    BY <1>25, <2>1 DEF swapSocket, startSocket, LInv, TypeOK
  <2> QED
    <3>1. /\ bound' \in 0..MaxSockets /\ socket' \in 0..MaxSockets
          /\ mobikeOld' \in 0..MaxSockets
      BY <1>25, <2>1 DEF swapSocket, LInv, TypeOK
    <3> QED
      BY <1>25, <2>2, <3>1 DEF swapSocket, LInv, TypeOK
<1>26. CASE updateReturns
  BY SMTT(30), <1>26 DEF updateReturns, closeChannels, LInv, TypeOK,
     SocketsBound,
               Attempt, Dispatching
<1>27. ASSUME NEW k \in Socket, readIKE(k) PROVE TypeOK'
  <2>1. ikeChan \in [Socket -> 0..Cap] /\ ikeChan[k] + 1 \in 0..Cap
    BY SMTT(30), <1>27 DEF readIKE, LInv, TypeOK
  <2>2. ikeChan' \in [Socket -> 0..Cap]
    BY <1>27, <2>1 DEF readIKE
  <2> QED
    BY <1>27, <2>2 DEF readIKE, LInv, TypeOK
<1>28. ASSUME NEW k \in Socket, readFails(k) PROVE TypeOK'
  BY SMTT(30), <1>28 DEF readFails, LInv, TypeOK, SocketsBound, Attempt,
     Dispatching
<1>29. ASSUME NEW k \in Socket, rxTakes(k) PROVE TypeOK'
  BY SMTT(30), <1>29 DEF rxTakes, LInv, TypeOK, SocketsBound, Attempt,
     Dispatching
<1>30. ASSUME NEW k \in Socket, rxDelivers(k) PROVE TypeOK'
  BY SMTT(30), <1>30 DEF rxDelivers, LInv, TypeOK, SocketsBound, Attempt,
     Dispatching
<1>31. ASSUME NEW k \in Socket, rxEnds(k) PROVE TypeOK'
  BY SMTT(30), <1>31 DEF rxEnds, LInv, TypeOK, SocketsBound, Attempt,
     Dispatching
<1>32. CASE UNCHANGED vars
  BY <1>32 DEF vars, LInv, TypeOK, SocketsBound, Attempt, Dispatching
<1> QED
  BY <1>1, <1>2, <1>3, <1>4, <1>5, <1>6, <1>7, <1>8, <1>9, <1>10, <1>11,
     <1>12, <1>13, <1>14, <1>15, <1>16, <1>17, <1>18, <1>19, <1>20, <1>21,
     <1>22, <1>23, <1>24, <1>25, <1>26, <1>27, <1>28, <1>29, <1>30, <1>31,
     <1>32
     DEF Next, connectSteps, dispatcherSteps, rxSteps, mobikeSteps

(* Only the manager changes its maps. *)
LEMMA StepManaged ==
    ASSUME LInv, [Next]_vars
    PROVE  Managed'
<1>1. CASE Start
  BY <1>1 DEF Start, LInv, TypeOK, Managed, NoSessionLost
<1>2. CASE Stop
  BY <1>2 DEF Stop, LInv, TypeOK, Managed, NoSessionLost
<1>3. ASSUME NEW n \in Sessions, stopCancels(n) PROVE Managed'
  BY <1>3 DEF stopCancels, LInv, TypeOK, Managed, NoSessionLost
<1>4. ASSUME NEW k \in Socket,
               readIKE(k) \/ readFails(k) \/ rxTakes(k) \/
               rxDelivers(k) \/ rxEnds(k)
       PROVE  Managed'
  BY <1>4 DEF readIKE, readFails, rxTakes, rxDelivers, rxEnds, LInv, TypeOK,
              Managed, NoSessionLost
<1>5. CASE \/ Shutdown \/ Connect \/ bindFails \/ bind
           \/ ensureIKEDispatcher \/ attemptFails \/ redirected
           \/ setupDataPlane \/ startIKEControlLoop \/ ctxEnds
           \/ Reauthenticate \/ cleanup \/ deferredStop
           \/ connectOnceReturns \/ dispatch \/ dispatchLocks
           \/ dispatched \/ dispatcherEnds \/ UpdateAddresses
           \/ updateAnswered \/ updateFails \/ swapSocket
           \/ updateReturns
  BY <1>5 DEF Shutdown, Connect, bindFails, bind, ensureIKEDispatcher,
              attemptFails, redirected, setupDataPlane, startIKEControlLoop,
              ctxEnds, Reauthenticate, cleanup, deferredStop,
              connectOnceReturns, dispatch, dispatchLocks, dispatched,
              dispatcherEnds, UpdateAddresses, updateAnswered, updateFails,
              swapSocket, updateReturns, closeChannels, startSocket, LInv,
              TypeOK, Managed, NoSessionLost
<1>6. CASE UNCHANGED vars
  BY <1>6 DEF vars, LInv, TypeOK, Managed, NoSessionLost
<1> QED
  BY <1>1, <1>2, <1>3, <1>4, <1>5, <1>6
     DEF Next, connectSteps, dispatcherSteps, rxSteps, mobikeSteps

(* Sockets are bound before they are used. *)
LEMMA StepSocketsBound ==
    ASSUME LInv, [Next]_vars
    PROVE  SocketsBound'
<1>1. CASE bind
  BY SMTT(30), <1>1 DEF bind, startSocket, LInv, TypeOK, SocketsBound, Attempt,
              Dispatching
<1>2. CASE ensureIKEDispatcher
  BY <1>2 DEF ensureIKEDispatcher, LInv, TypeOK, SocketsBound, Attempt,
              Dispatching
<1>3. CASE startIKEControlLoop
  BY <1>3 DEF startIKEControlLoop, LInv, TypeOK, SocketsBound, Attempt,
              Dispatching
<1>4. CASE connectOnceReturns
  BY <1>4 DEF connectOnceReturns, closeChannels, LInv, TypeOK, SocketsBound,
              Attempt, Dispatching
<1>5. CASE dispatched
  BY <1>5 DEF dispatched, LInv, TypeOK, SocketsBound, Attempt, Dispatching
<1>6. CASE dispatcherEnds
  BY <1>6 DEF dispatcherEnds, LInv, TypeOK, SocketsBound, Attempt,
              Dispatching
<1>7. CASE swapSocket
  BY SMTT(30), <1>7 DEF swapSocket, startSocket, LInv, TypeOK, SocketsBound,
     Attempt,
              Dispatching
<1>8. CASE updateReturns
  BY <1>8 DEF updateReturns, closeChannels, LInv, TypeOK, SocketsBound,
              Attempt, Dispatching
<1>9. CASE UpdateAddresses
  BY <1>9 DEF UpdateAddresses, LInv, TypeOK, SocketsBound, Attempt,
              Dispatching
<1>10. CASE updateAnswered
  BY <1>10 DEF updateAnswered, LInv, TypeOK, SocketsBound, Attempt,
               Dispatching
<1>11. CASE updateFails
  BY <1>11 DEF updateFails, LInv, TypeOK, SocketsBound, Attempt, Dispatching
<1>12. CASE \/ Start \/ Stop \/ Shutdown \/ Connect \/ bindFails
           \/ (\E n \in Sessions : stopCancels(n))
  BY <1>12 DEF Start, Stop, stopCancels, Shutdown, Connect, bindFails, LInv,
               TypeOK, SocketsBound, Attempt, Dispatching
<1>13. CASE \/ attemptFails \/ redirected \/ setupDataPlane \/ ctxEnds
           \/ Reauthenticate \/ cleanup \/ deferredStop
  BY <1>13 DEF attemptFails, redirected, setupDataPlane, ctxEnds,
               Reauthenticate, cleanup, deferredStop, LInv, TypeOK,
               SocketsBound, Attempt, Dispatching
<1>14. ASSUME NEW k \in Socket,
               readIKE(k) \/ readFails(k) \/ rxTakes(k) \/
               rxDelivers(k) \/ rxEnds(k)
       PROVE  SocketsBound'
  BY <1>14 DEF readIKE, readFails, rxTakes, rxDelivers, rxEnds, LInv,
               TypeOK, SocketsBound, Attempt, Dispatching
<1>15. CASE dispatch \/ dispatchLocks
  BY <1>15 DEF dispatch, dispatchLocks, LInv, TypeOK, SocketsBound, Attempt,
               Dispatching
<1>16. CASE UNCHANGED vars
  BY <1>16 DEF vars, LInv, TypeOK, SocketsBound, Attempt, Dispatching
<1> QED
  BY <1>1, <1>2, <1>3, <1>4, <1>5, <1>6, <1>7, <1>8, <1>9, <1>10, <1>11,
     <1>12, <1>13, <1>14, <1>15, <1>16
     DEF Next, connectSteps, dispatcherSteps, rxSteps, mobikeSteps

(* Only connectOnce stops a socket that was not replaced. *)
LEMMA StepOneOwner ==
    ASSUME LInv, [Next]_vars
    PROVE  OneOwner'
<1>1. CASE bind
  BY <1>1 DEF bind, startSocket, LInv, TypeOK, SocketsBound, OneOwner,
              Attempt
<1>2. CASE connectOnceReturns
  BY <1>2 DEF connectOnceReturns, closeChannels, LInv, TypeOK, SocketsBound,
              OneOwner, Attempt
<1>3. CASE swapSocket
  BY <1>3 DEF swapSocket, startSocket, LInv, TypeOK, SocketsBound, OneOwner,
              Attempt
<1>4. CASE updateReturns
  BY <1>4 DEF updateReturns, closeChannels, LInv, TypeOK, SocketsBound,
              OneOwner, Attempt
<1>5. ASSUME NEW k \in Socket,
               readIKE(k) \/ readFails(k) \/ rxTakes(k) \/
               rxDelivers(k) \/ rxEnds(k)
       PROVE  OneOwner'
  BY <1>5 DEF readIKE, readFails, rxTakes, rxDelivers, rxEnds, LInv, TypeOK,
              SocketsBound, OneOwner, Attempt
<1>6. CASE \/ Start \/ Stop \/ Shutdown \/ Connect \/ bindFails
           \/ ensureIKEDispatcher \/ attemptFails \/ redirected
           \/ setupDataPlane \/ startIKEControlLoop \/ ctxEnds
           \/ Reauthenticate \/ cleanup \/ deferredStop \/ dispatch
           \/ dispatchLocks \/ dispatched \/ dispatcherEnds
           \/ UpdateAddresses \/ updateAnswered \/ updateFails
           \/ (\E n \in Sessions : stopCancels(n))
  BY <1>6 DEF Start, Stop, stopCancels, Shutdown, Connect, bindFails,
              ensureIKEDispatcher, attemptFails, redirected, setupDataPlane,
              startIKEControlLoop, ctxEnds, Reauthenticate, cleanup,
              deferredStop, dispatch, dispatchLocks, dispatched,
              dispatcherEnds, UpdateAddresses, updateAnswered, updateFails,
              LInv, TypeOK, SocketsBound, OneOwner, Attempt
<1>7. CASE UNCHANGED vars
  BY <1>7 DEF vars, LInv, TypeOK, SocketsBound, OneOwner, Attempt
<1> QED
  BY <1>1, <1>2, <1>3, <1>4, <1>5, <1>6, <1>7
     DEF Next, connectSteps, dispatcherSteps, rxSteps, mobikeSteps

(* Only cleanup closes s.done and the inner channels. *)
LEMMA StepClosedOnce ==
    ASSUME LInv, [Next]_vars
    PROVE  ClosedOnce'
<1>1. CASE startIKEControlLoop
  BY <1>1 DEF startIKEControlLoop, LInv, TypeOK, ClosedOnce, Attempt
<1>2. CASE cleanup
  BY <1>2 DEF cleanup, LInv, TypeOK, ClosedOnce, Attempt
<1>3. CASE \/ Start \/ Stop \/ Shutdown \/ Connect \/ bindFails \/ bind
           \/ ensureIKEDispatcher \/ attemptFails
           \/ (\E n \in Sessions : stopCancels(n))
  BY SMTT(30), <1>3 DEF Start, Stop, stopCancels, Shutdown, Connect,
     bindFails, bind,
              ensureIKEDispatcher, attemptFails, startSocket, LInv, TypeOK,
              ClosedOnce, Attempt
<1>4. CASE \/ redirected \/ setupDataPlane \/ ctxEnds \/ Reauthenticate
           \/ deferredStop \/ connectOnceReturns \/ dispatch
           \/ dispatchLocks \/ dispatched \/ dispatcherEnds
  BY SMTT(30), <1>4 DEF redirected, setupDataPlane, ctxEnds, Reauthenticate,
              deferredStop, connectOnceReturns, dispatch, dispatchLocks,
              dispatched, dispatcherEnds, closeChannels, LInv, TypeOK,
              ClosedOnce, Attempt
<1>5. ASSUME NEW k \in Socket,
               readIKE(k) \/ readFails(k) \/ rxTakes(k) \/
               rxDelivers(k) \/ rxEnds(k)
       PROVE  ClosedOnce'
  BY SMTT(30), <1>5 DEF readIKE, readFails, rxTakes, rxDelivers, rxEnds, LInv,
     TypeOK,
              ClosedOnce, Attempt
<1>6. CASE \/ UpdateAddresses \/ updateAnswered \/ updateFails
           \/ swapSocket \/ updateReturns
  BY SMTT(30), <1>6 DEF UpdateAddresses, updateAnswered, updateFails,
     swapSocket,
              updateReturns, closeChannels, startSocket, LInv, TypeOK,
              ClosedOnce, Attempt
<1>7. CASE UNCHANGED vars
  BY <1>7 DEF vars, LInv, TypeOK, ClosedOnce, Attempt
<1> QED
  BY <1>1, <1>2, <1>3, <1>4, <1>5, <1>6, <1>7
     DEF Next, connectSteps, dispatcherSteps, rxSteps, mobikeSteps

(* While the session is up, nothing takes the dispatcher from its socket. *)
LEMMA StepAttended ==
    ASSUME LInv, [Next]_vars
    PROVE  Attended'
<1>1. CASE setupDataPlane
  BY <1>1 DEF setupDataPlane, LInv, TypeOK, SocketsBound, OneOwner,
              Attended, served, Attempt, Dispatching
<1>2. CASE startIKEControlLoop
  BY <1>2 DEF startIKEControlLoop, LInv, TypeOK, SocketsBound, OneOwner,
              Attended, served, Attempt, Dispatching
<1>3. CASE bind
  BY <1>3 DEF bind, startSocket, LInv, TypeOK, SocketsBound, OneOwner,
              Attended, served, Attempt, Dispatching
<1>4. CASE swapSocket
  BY <1>4 DEF swapSocket, startSocket, LInv, TypeOK, SocketsBound, OneOwner,
              Attended, served, Attempt, Dispatching
<1>5. CASE updateReturns
  BY <1>5 DEF updateReturns, closeChannels, LInv, TypeOK, SocketsBound,
              OneOwner, Attended, served, Attempt, Dispatching
<1>6. CASE dispatch
  BY <1>6 DEF dispatch, LInv, TypeOK, SocketsBound, OneOwner, Attended,
              served, Attempt, Dispatching
<1>7. CASE dispatchLocks
  BY <1>7 DEF dispatchLocks, LInv, TypeOK, SocketsBound, OneOwner, Attended,
              served, Attempt, Dispatching
<1>8. CASE dispatched
  BY <1>8 DEF dispatched, LInv, TypeOK, SocketsBound, OneOwner, Attended,
              served, Attempt, Dispatching
<1>9. CASE dispatcherEnds
  BY <1>9 DEF dispatcherEnds, LInv, TypeOK, SocketsBound, OneOwner,
              Attended, served, Attempt, Dispatching
<1>10. ASSUME NEW k \in Socket, rxTakes(k) PROVE Attended'
  BY <1>10 DEF rxTakes, LInv, TypeOK, SocketsBound, OneOwner, Attended,
               served, Attempt, Dispatching
<1>11. ASSUME NEW k \in Socket, rxDelivers(k) PROVE Attended'
  BY <1>11 DEF rxDelivers, LInv, TypeOK, SocketsBound, OneOwner, Attended,
               served, Attempt, Dispatching
<1>12. ASSUME NEW k \in Socket, rxEnds(k) PROVE Attended'
  BY <1>12 DEF rxEnds, LInv, TypeOK, SocketsBound, OneOwner, Attended,
               served, Attempt, Dispatching
<1>13. ASSUME NEW k \in Socket,
               readIKE(k) \/ readFails(k)
       PROVE  Attended'
  BY <1>13 DEF readIKE, readFails, LInv, TypeOK, SocketsBound, OneOwner,
               Attended, served, Attempt, Dispatching
<1>14. CASE \/ Start \/ Stop \/ Shutdown \/ Connect \/ bindFails
           \/ ensureIKEDispatcher \/ attemptFails \/ redirected
           \/ ctxEnds \/ Reauthenticate \/ cleanup \/ deferredStop
           \/ connectOnceReturns \/ UpdateAddresses \/ updateAnswered
           \/ updateFails \/ (\E n \in Sessions : stopCancels(n))
  <2> USE DEF LInv, TypeOK, SocketsBound, OneOwner, Attended, served, Attempt,
              Dispatching
  <2>1. CASE \/ Start \/ Stop \/ Shutdown \/ (\E n \in Sessions : stopCancels(n))
             \/ UpdateAddresses \/ updateAnswered \/ updateFails
    BY <2>1 DEF Start, Stop, Shutdown, stopCancels, UpdateAddresses,
                updateAnswered, updateFails
  <2>2. CASE Connect \/ bindFails \/ attemptFails \/ redirected
    BY <2>2 DEF Connect, bindFails, attemptFails, redirected
  <2>3. CASE ensureIKEDispatcher
    BY <2>3 DEF ensureIKEDispatcher
  <2>4. CASE ctxEnds \/ Reauthenticate \/ cleanup
    BY <2>4 DEF ctxEnds, Reauthenticate, cleanup
  <2>5. CASE deferredStop
    BY <2>5 DEF deferredStop, closeChannels
  <2>6. CASE connectOnceReturns
    BY <2>6 DEF connectOnceReturns, closeChannels
  <2> QED
    BY <1>14, <2>1, <2>2, <2>3, <2>4, <2>5, <2>6
<1>15. CASE UNCHANGED vars
  BY <1>15 DEF vars, LInv, TypeOK, SocketsBound, OneOwner, Attended, served,
               Attempt, Dispatching
<1> QED
  BY <1>1, <1>2, <1>3, <1>4, <1>5, <1>6, <1>7, <1>8, <1>9, <1>10, <1>11,
     <1>12, <1>13, <1>14, <1>15
     DEF Next, connectSteps, dispatcherSteps, rxSteps, mobikeSteps

(* Only closes and sends panic. *)
LEMMA StepPanicCauses ==
    ASSUME LInv, [Next]_vars
    PROVE  PanicCauses'
<1>1. CASE cleanup
  BY <1>1 DEF cleanup, LInv, TypeOK, SocketsBound, OneOwner, ClosedOnce,
              PanicCauses, Attempt
<1>2. CASE connectOnceReturns
  BY <1>2 DEF connectOnceReturns, closeChannels, LInv, TypeOK, SocketsBound,
              OneOwner, ClosedOnce, PanicCauses, Attempt
<1>3. ASSUME NEW k \in Socket, rxDelivers(k) PROVE PanicCauses'
  BY <1>3 DEF rxDelivers, LInv, TypeOK, SocketsBound, OneOwner, ClosedOnce,
              PanicCauses, Attempt
<1>4. CASE updateReturns
  BY <1>4 DEF updateReturns, closeChannels, LInv, TypeOK, SocketsBound,
              OneOwner, ClosedOnce, PanicCauses, Attempt
<1>5. CASE startIKEControlLoop
  BY <1>5 DEF startIKEControlLoop, LInv, TypeOK, SocketsBound, OneOwner,
              ClosedOnce, PanicCauses, Attempt
<1>6. CASE swapSocket
  BY <1>6 DEF swapSocket, startSocket, LInv, TypeOK, SocketsBound, OneOwner,
              ClosedOnce, PanicCauses, Attempt
<1>7. ASSUME NEW k \in Socket,
               readIKE(k) \/ readFails(k) \/ rxTakes(k) \/
               rxEnds(k)
       PROVE  PanicCauses'
  BY <1>7 DEF readIKE, readFails, rxTakes, rxEnds, LInv, TypeOK,
              SocketsBound, OneOwner, ClosedOnce, PanicCauses, Attempt
<1>8. CASE \/ Start \/ Stop \/ Shutdown \/ Connect \/ bindFails \/ bind
           \/ ensureIKEDispatcher \/ attemptFails \/ redirected
           \/ setupDataPlane \/ ctxEnds \/ Reauthenticate \/ deferredStop
           \/ dispatch \/ dispatchLocks \/ dispatched \/ dispatcherEnds
           \/ UpdateAddresses \/ updateAnswered \/ updateFails
           \/ (\E n \in Sessions : stopCancels(n))
  BY <1>8 DEF Start, Stop, stopCancels, Shutdown, Connect, bindFails, bind,
              ensureIKEDispatcher, attemptFails, redirected, setupDataPlane,
              ctxEnds, Reauthenticate, deferredStop, dispatch,
              dispatchLocks, dispatched, dispatcherEnds, UpdateAddresses,
              updateAnswered, updateFails, startSocket, LInv, TypeOK,
              SocketsBound, OneOwner, ClosedOnce, PanicCauses, Attempt
<1>9. CASE UNCHANGED vars
  BY <1>9 DEF vars, LInv, TypeOK, SocketsBound, OneOwner, ClosedOnce,
              PanicCauses, Attempt
<1> QED
  BY <1>1, <1>2, <1>3, <1>4, <1>5, <1>6, <1>7, <1>8, <1>9
     DEF Next, connectSteps, dispatcherSteps, rxSteps, mobikeSteps

LEMMA StepLInv == LInv /\ [Next]_vars => LInv'
BY StepTypeOK, StepManaged, StepSocketsBound, StepOneOwner, StepClosedOnce,
   StepAttended, StepPanicCauses
   DEF LInv

LEMMA SpecLInv == Spec => []LInv
BY InitLInv, StepLInv, PTL DEF Spec

(* Every step of every goroutine keeps the types: in particular no index   *)
(* names a socket that was never bound, and IKEChan holds at most its      *)
(* capacity.                                                               *)
THEOREM LifecycleTypeCorrect == Spec => []TypeOK
<1>1. LInv => TypeOK
  BY DEF LInv
<1> QED
  BY <1>1, SpecLInv, PTL

(* SessionManager: whatever Start and Stop calls run at once, no session   *)
(* escapes them, although Stop cancels after it has released mu.           *)
THEOREM NoSessionEscapes == Spec => []NoSessionLost
<1>1. LInv => NoSessionLost
  BY DEF LInv, Managed
<1> QED
  BY <1>1, SpecLInv, PTL

(* The process ends only where a session is established a second time, in  *)
(* a netstack receiver, or after UpdateAddresses replaced a socket: any    *)
(* number of redirects, failures and cancellations before that close each  *)
(* channel once.                                                           *)
THEOREM PanicsHaveCauses == Spec => []PanicCauses
<1>1. LInv => PanicCauses
  BY DEF LInv
<1> QED
  BY <1>1, SpecLInv, PTL

(* The dispatcher that ensureIKEDispatcher started in the first attempt,   *)
(* whatever redirects came after it, and the receiver of the data plane    *)
(* serve the socket of the first session that comes up.                    *)
THEOREM FirstSessionIsServed == Spec => []EstablishedIsServed
<1>1. LInv => EstablishedIsServed
  BY DEF LInv, ClosedOnce, Attended, EstablishedIsServed
<1> QED
  BY <1>1, SpecLInv, PTL
=============================================================================
