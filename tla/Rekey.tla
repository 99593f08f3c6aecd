------------------------------- MODULE Rekey -------------------------------
(***************************************************************************)
(* Key rotation of an established session.  Active rekeys of the child SA  *)
(* and of the IKE SA (state_rekey.go, state_rekey_ike.go) are started by   *)
(* two timers and by kernel expire events (session.go), serialised by      *)
(* rekeyMu and damped by a 30 s cooldown.  The dispatcher goroutine        *)
(* (ike_control.go) serves the peer's rekeys and Deletes, and DPD          *)
(* (informational.go) probes the peer, all on the same state.              *)
(*                                                                         *)
(* What happens without waiting is one action; a request that waits for    *)
(* the window (sendEncryptedWithRetry) splits the handler in two.          *)
(* IKERequests looks inside that call; here it ends with an answer or      *)
(* with an error.  Time is abstracted: timers may fire whenever armed and  *)
(* the cooldown ends some time after it began; RekeyTimers has the clock.  *)
(* The table s.ChildSAsIn, which no step of a rekey reads, is left out.    *)
(***************************************************************************)
EXTENDS Naturals, FiniteSets

CONSTANTS
    Caller,       \* goroutines started by soft expire events
    MaxFail,      \* rekeyMaxFail
    MaxSA,        \* bound on child SAs negotiated
    MaxIKE,       \* bound on IKE SAs negotiated
    DPDEnabled,   \* cfg.DPDInterval > 0
    None

ASSUME CountAssumption ==
    /\ MaxFail \in Nat \ {0}
    /\ MaxSA \in Nat \ {0} /\ MaxIKE \in Nat
ASSUME DPDAssumption == DPDEnabled \in BOOLEAN

Timer == {"childTimer", "ikeTimer"}
Worker == Timer \cup Caller
ASSUME ActorAssumption ==
    /\ Caller \cap (Timer \cup {"dispatcher"}) = {}
    /\ None \notin Worker \cup {"dispatcher"}

(* SPIs are told apart by who allocated them and for which negotiation. *)
SPI == [by : {"ue", "epdg"}, n : 0..MaxSA]
spiOf(who, k) == [by |-> who, n |-> k]
ASSUME SPIAssumption == None \notin SPI

VARIABLES
    rekeyMu,      \* who holds s.rekeyMu, or None
    pc,           \* where each worker is
    saOut, saIn,  \* s.ChildSAOut.SPI and s.ChildSAIn.SPI, or None
    spis,         \* child SAs negotiated so far
    kernel,       \* SPIs installed as XFRM states
    unsynced,     \* history: rekeyXFRMSA has returned an error or was not
                  \* called for a new pair
    cooldown,     \* time.Since(s.lastRekeyTime) < 30 s
    ikeSA,        \* generation of s.SPIi and s.Keys
    spir,         \* generation of s.SPIr
    strayed,      \* history: since the session moved to its IKE SA, a packet
                  \* of another one has been parsed
    peerIKE,      \* generations the peer still answers to
    failCount,    \* failCount of the two timer goroutines
    rekeyResetCh, childRekeyResetCh,   \* tokens for the timers
    disp,         \* "run", or "locking" inside HandleRekeyIKESARequest
    dpd,          \* an unanswered DPD request, or None
    peerUp,       \* the peer exists
    down,         \* s.cancel was called
    panicked      \* a nil *SecurityAssociation was dereferenced

childVars == <<saOut, saIn, spis, kernel, unsynced>>
ikeVars == <<ikeSA, spir, strayed, peerIKE>>
timerVars == <<failCount, rekeyResetCh, childRekeyResetCh>>
envVars == <<disp, dpd, peerUp>>
vars == <<rekeyMu, pc, childVars, cooldown, ikeVars, timerVars, envVars, down,
          panicked>>

PC == {"idle", "lock", "locked", "sent", "astray", "deleting", "exit"}
Holding == {"locked", "sent", "astray", "deleting"}

(* The keys a probe is encrypted with and the SPIr in its header, both     *)
(* kept over its retransmissions.  Only the IKE SA both belong to can      *)
(* answer it.                                                              *)
Probe == [keys : 0..MaxIKE, spir : 0..MaxIKE]
answerable(probe) == probe.spir = probe.keys /\ probe.keys \in peerIKE

TypeOK ==
    /\ rekeyMu \in Worker \cup {"dispatcher", None}
    /\ pc \in [Worker -> PC]
    /\ saOut \in SPI \cup {None} /\ saIn \in SPI
    /\ kernel \subseteq SPI
    /\ spis \in 0..MaxSA
    /\ unsynced \in BOOLEAN /\ cooldown \in BOOLEAN
    /\ ikeSA \in 0..MaxIKE /\ spir \in 0..MaxIKE /\ strayed \in BOOLEAN
    /\ peerIKE \subseteq 0..MaxIKE
    /\ failCount \in [Timer -> 0..MaxFail]
    /\ rekeyResetCh \in BOOLEAN /\ childRekeyResetCh \in BOOLEAN
    /\ disp \in {"run", "locking"}
    /\ dpd \in Probe \cup {None}
    /\ peerUp \in BOOLEAN /\ down \in BOOLEAN /\ panicked \in BOOLEAN

(* connectOnce has installed the SAs of IKE_AUTH and starts the timers; no *)
(* rekey has happened yet, so lastRekeyTime is zero.                       *)
Init ==
    /\ rekeyMu = None
    /\ pc = [w \in Worker |-> "idle"]
    /\ saOut = spiOf("epdg", 0) /\ saIn = spiOf("ue", 0)
    /\ kernel = {saOut, saIn}
    /\ spis = 0 /\ unsynced = FALSE /\ cooldown = FALSE
    /\ ikeSA = 0 /\ spir = 0 /\ strayed = FALSE /\ peerIKE = {0}
    /\ failCount = [t \in Timer |-> 0]
    /\ rekeyResetCh = FALSE /\ childRekeyResetCh = FALSE
    /\ disp = "run" /\ dpd = None
    /\ peerUp = TRUE /\ down = FALSE /\ panicked = FALSE

Running == ~panicked
Rekeys(w) == IF w = "ikeTimer" THEN "ike" ELSE "child"

(* Mutant: failures are logged and not counted. *)
returnsUncounted(w, ok) ==
    /\ pc' = [pc EXCEPT ![w] = "idle"]
    /\ UNCHANGED <<failCount, down>>

(* A worker's call returns.  A timer goroutine counts consecutive errors,  *)
(* ends the session at MaxFail, and otherwise arms its timer again; the    *)
(* goroutine of an expire event only logs.                                 *)
returns(w, ok) ==
    IF w \in Timer
    THEN LET n == IF ok THEN 0 ELSE failCount[w] + 1
         IN  /\ failCount' = [failCount EXCEPT ![w] = n]
             /\ pc' = [pc EXCEPT ![w] = IF n >= MaxFail THEN "exit" ELSE "idle"]
             /\ down' = (down \/ n >= MaxFail)
    ELSE /\ pc' = [pc EXCEPT ![w] = "idle"]
         /\ UNCHANGED <<failCount, down>>

-----------------------------------------------------------------------------
(* A timer expires, or a soft expire event names an SPI of this session. *)
timerFires(w) ==
    /\ Running /\ ~down
    /\ pc[w] = "idle"
    /\ w \in Caller => (kernel \cap {saOut, saIn}) # {}
    /\ pc' = [pc EXCEPT ![w] = "lock"]
    /\ UNCHANGED <<rekeyMu, childVars, cooldown, ikeVars, timerVars, envVars,
                   down, panicked>>

(* RekeyChildSA and RekeyIKESA up to the cooldown check, under rekeyMu. *)
lock(w) ==
    /\ Running
    /\ pc[w] = "lock"
    /\ rekeyMu = None
    /\ \/ /\ Rekeys(w) = "child" /\ saOut = None
          /\ returns(w, FALSE)
          /\ UNCHANGED rekeyMu
       \/ /\ Rekeys(w) = "child" => saOut # None
          /\ cooldown
          /\ returns(w, TRUE)
          /\ UNCHANGED rekeyMu
       \/ /\ Rekeys(w) = "child" => saOut # None
          /\ ~cooldown
          /\ rekeyMu' = w
          /\ pc' = [pc EXCEPT ![w] = "locked"]
          /\ UNCHANGED <<failCount, down>>
    /\ UNCHANGED <<childVars, cooldown, ikeVars, rekeyResetCh,
                   childRekeyResetCh, envVars, panicked>>

(* The payloads are built and handed to the window; REKEY_SA names         *)
(* s.ChildSAOut.SPI, read again.  The header takes s.SPIr as it stands: if *)
(* it is not that of the keys, the peer drops the request and all its      *)
(* retransmissions.                                                        *)
send(w) ==
    /\ Running
    /\ pc[w] = "locked"
    /\ pc' = [pc EXCEPT ![w] = IF spir = ikeSA THEN "sent" ELSE "astray"]
    /\ panicked' = (Rekeys(w) = "child" /\ saOut = None)
    /\ UNCHANGED <<rekeyMu, childVars, cooldown, ikeVars, timerVars, envVars,
                   down>>

(* Mutant: an error path that does not release rekeyMu. *)
failedKeepsLock(w) ==
    /\ Running
    /\ pc[w] \in {"sent", "astray"}
    /\ returns(w, FALSE)
    /\ UNCHANGED <<rekeyMu, childVars, cooldown, ikeVars, rekeyResetCh,
                   childRekeyResetCh, envVars, panicked>>

(* The exchange fails: retransmissions exhausted, session cancelled, an    *)
(* error notify, a payload missing, an algorithm not supported.            *)
failed(w) ==
    /\ Running
    /\ pc[w] \in {"sent", "astray"}
    /\ returns(w, FALSE)
    /\ rekeyMu' = None
    /\ UNCHANGED <<childVars, cooldown, ikeVars, rekeyResetCh,
                   childRekeyResetCh, envVars, panicked>>

(* Mutant: the old inbound state is not deleted. *)
rekeyXFRMSALeaks(oldOut, oldIn, newOut, newIn) ==
    /\ kernel' = (kernel \ {oldOut}) \cup {newOut, newIn}
    /\ UNCHANGED unsynced

(* rekeyXFRMSA: the old states are deleted first, then the new outbound    *)
(* and the new inbound state are added, stopping at the first error.       *)
rekeyXFRMSA(oldOut, oldIn, newOut, newIn) ==
    LET rest == kernel \ {oldOut, oldIn}
    IN  \/ kernel' = rest \cup {newOut, newIn} /\ UNCHANGED unsynced
        \/ kernel' = rest \cup {newOut} /\ unsynced' = TRUE
        \/ kernel' = rest /\ unsynced' = TRUE

(* decryptAndParse copies SPIr from the header of whatever it is given,    *)
(* before it knows whether the packet decrypts.                            *)
decryptAndParse(g) ==
    /\ spir' = g
    /\ strayed' = (strayed \/ g # ikeSA)

(* The pair in memory is replaced. *)
replaceSA(newOut, newIn) ==
    /\ saOut' = newOut /\ saIn' = newIn

(* handleCreateChildSAResp: the new pair replaces whatever pair the        *)
(* session has NOW, in memory and in the kernel; then the cooldown starts, *)
(* rekeyResetCh is notified, a Delete for the old SPI is sent and rekeyMu  *)
(* is released.                                                            *)
handleCreateChildSAResp(w) ==
    /\ Running
    /\ Rekeys(w) = "child"
    /\ pc[w] = "sent"
    /\ peerUp /\ disp = "run"
    /\ spis < MaxSA
    /\ \/ /\ saOut = None
          /\ panicked' = TRUE
          /\ UNCHANGED <<rekeyMu, pc, childVars, cooldown, failCount,
                         rekeyResetCh, down>>
       \/ /\ saOut # None
          /\ LET newOut == spiOf("epdg", spis + 1)
                 newIn == spiOf("ue", spis + 1)
             IN  /\ replaceSA(newOut, newIn)
                 /\ rekeyXFRMSA(saOut, saIn, newOut, newIn)
          /\ spis' = spis + 1
          /\ cooldown' = TRUE
          /\ rekeyResetCh' = TRUE
          /\ rekeyMu' = None
          /\ returns(w, TRUE)
          /\ UNCHANGED panicked
    /\ decryptAndParse(ikeSA)
    /\ UNCHANGED <<ikeSA, peerIKE, childRekeyResetCh, disp, dpd, peerUp>>

(* handleRekeyIKESAResp, up to the DELETE of the old IKE SA, which is sent *)
(* under the old keys, and the SPIr the response has just set, and waited  *)
(* for.                                                                    *)
handleRekeyIKESAResp(w) ==
    /\ Running
    /\ Rekeys(w) = "ike"
    /\ pc[w] = "sent"
    /\ peerUp /\ disp = "run"
    /\ ikeSA < MaxIKE
    /\ peerIKE' = peerIKE \cup {ikeSA + 1}
    /\ pc' = [pc EXCEPT ![w] = "deleting"]
    /\ decryptAndParse(ikeSA)
    /\ UNCHANGED <<rekeyMu, childVars, cooldown, ikeSA, timerVars, disp, dpd,
                   peerUp, down, panicked>>

(* The peer forgets the old IKE SA when the DELETE reaches it, or when it  *)
(* started the rekey itself and the session has answered ...               *)
peerDeletesIKE ==
    /\ Running
    /\ pc["ikeTimer"] = "deleting" \/ disp = "locking"
    /\ peerUp
    /\ peerIKE' = peerIKE \ {ikeSA}
    /\ UNCHANGED <<rekeyMu, pc, childVars, cooldown, ikeSA, spir, strayed,
                   timerVars, envVars, down, panicked>>

(* Mutant: the switch leaves out SPIr. *)
switchIKESAWithoutSPIr(w) ==
    /\ Running
    /\ pc[w] = "deleting"
    /\ ikeSA' = ikeSA + 1 /\ strayed' = FALSE
    /\ cooldown' = TRUE
    /\ rekeyResetCh' = TRUE
    /\ rekeyMu' = None
    /\ returns(w, TRUE)
    /\ UNCHANGED <<childVars, spir, peerIKE, childRekeyResetCh, envVars,
                   panicked>>

(* Mutant: the session stays on the IKE SA it has just deleted. *)
switchIKESAForgotten(w) ==
    /\ Running
    /\ pc[w] = "deleting"
    /\ cooldown' = TRUE
    /\ rekeyMu' = None
    /\ returns(w, TRUE)
    /\ UNCHANGED <<childVars, ikeVars, rekeyResetCh, childRekeyResetCh, envVars,
                   panicked>>

(* ... and answered or not, the session then moves to the new IKE SA. *)
switchIKESA(w) ==
    /\ Running
    /\ pc[w] = "deleting"
    /\ ikeSA' = ikeSA + 1 /\ spir' = ikeSA + 1 /\ strayed' = FALSE
    /\ cooldown' = TRUE
    /\ rekeyResetCh' = TRUE
    /\ rekeyMu' = None
    /\ returns(w, TRUE)
    /\ UNCHANGED <<childVars, peerIKE, childRekeyResetCh, envVars, panicked>>

(* A timer goroutine takes the token: its failures are forgotten. *)
ikeTimerReset ==
    /\ Running /\ ~down
    /\ rekeyResetCh /\ pc["ikeTimer"] = "idle"
    /\ rekeyResetCh' = FALSE
    /\ failCount' = [failCount EXCEPT !["ikeTimer"] = 0]
    /\ UNCHANGED <<rekeyMu, pc, childVars, cooldown, ikeVars, childRekeyResetCh, envVars, down, panicked>>

childTimerReset ==
    /\ Running /\ ~down
    /\ childRekeyResetCh /\ pc["childTimer"] = "idle"
    /\ childRekeyResetCh' = FALSE
    /\ failCount' = [failCount EXCEPT !["childTimer"] = 0]
    /\ UNCHANGED <<rekeyMu, pc, childVars, cooldown, ikeVars, rekeyResetCh, envVars, down, panicked>>

cooldownEnds ==
    /\ Running
    /\ cooldown
    /\ cooldown' = FALSE
    /\ UNCHANGED <<rekeyMu, pc, childVars, ikeVars, timerVars, envVars, down,
                   panicked>>

-----------------------------------------------------------------------------
(* The dispatcher. *)
Dispatching == Running /\ ~down /\ peerUp /\ disp = "run"

(* Mutant: no collision detection. *)
handleIncomingUnlocked ==
    /\ Dispatching
    /\ spis < MaxSA
    /\ LET newOut == spiOf("ue", spis + 1)
           newIn == spiOf("epdg", spis + 1)
       IN  /\ replaceSA(newOut, newIn)
           /\ rekeyXFRMSA(saOut, saIn, newOut, newIn)
    /\ spis' = spis + 1
    /\ cooldown' = TRUE
    /\ childRekeyResetCh' = TRUE
    /\ UNCHANGED <<rekeyMu, pc, ikeVars, failCount, rekeyResetCh,
                   envVars, down, panicked>>

(* A CREATE_CHILD_SA request of the peer for a child SA.  If TryLock fails *)
(* it is answered with TEMPORARY_FAILURE and nothing changes; otherwise    *)
(* the whole handler runs under rekeyMu.  The kernel is only touched if    *)
(* there is an outbound SA to replace.                                     *)
handleIncomingCreateChildSA ==
    /\ Dispatching
    /\ rekeyMu = None
    /\ spis < MaxSA
    /\ LET newOut == spiOf("ue", spis + 1)
           newIn == spiOf("epdg", spis + 1)
       IN  /\ replaceSA(newOut, newIn)
           /\ IF saOut # None
              THEN rekeyXFRMSA(saOut, saIn, newOut, newIn)
              ELSE unsynced' = TRUE /\ UNCHANGED kernel
    /\ spis' = spis + 1
    /\ cooldown' = TRUE
    /\ childRekeyResetCh' = TRUE
    /\ decryptAndParse(ikeSA)
    /\ UNCHANGED <<rekeyMu, pc, ikeSA, peerIKE, failCount, rekeyResetCh,
                   disp, dpd, peerUp, down, panicked>>

(* An ESP Delete of the peer, naming one of the SPIs it allocated. *)
handleDelete(spi) ==
    /\ Dispatching
    /\ spi.by = "epdg" /\ spi.n <= spis
    /\ saOut' = IF saOut = spi THEN None ELSE saOut
    /\ decryptAndParse(ikeSA)
    /\ UNCHANGED <<rekeyMu, pc, saIn, spis, kernel, unsynced, cooldown, ikeSA,
                   peerIKE, timerVars, disp, dpd, peerUp, down, panicked>>

(* Any other request, among them the peer's own probes, of an IKE SA the   *)
(* peer has, or a packet of one there was, delayed or repeated.  If it is  *)
(* not of the present IKE SA it does not decrypt, but its SPIr is taken.   *)
handleIncomingInformational(g) ==
    /\ Running /\ ~down /\ disp = "run"
    /\ g \in 0..ikeSA \cup peerIKE
    /\ decryptAndParse(g)
    /\ UNCHANGED <<rekeyMu, pc, childVars, cooldown, ikeSA, peerIKE, timerVars,
                   disp, dpd, peerUp, down, panicked>>

(* A CREATE_CHILD_SA request of the peer for the IKE SA: the dispatcher    *)
(* takes rekeyMu with TryLock, answers under the old keys (the peer now    *)
(* has the new IKE SA) ...                                                 *)
HandleRekeyIKESARequest ==
    /\ Dispatching
    /\ rekeyMu = None
    /\ ikeSA < MaxIKE
    /\ rekeyMu' = "dispatcher"
    /\ peerIKE' = peerIKE \cup {ikeSA + 1}
    /\ disp' = "locking"
    /\ decryptAndParse(ikeSA)
    /\ UNCHANGED <<pc, childVars, cooldown, ikeSA, timerVars, dpd, peerUp, down, panicked>>

(* ... and locks rekeyMu, which is not reentrant, to switch the keys. *)
passiveSwitchIKESA ==
    /\ Running
    /\ disp = "locking"
    /\ rekeyMu = None
    /\ ikeSA' = ikeSA + 1 /\ spir' = ikeSA + 1 /\ strayed' = FALSE
    /\ cooldown' = TRUE
    /\ rekeyResetCh' = TRUE
    /\ disp' = "run"
    /\ UNCHANGED <<rekeyMu, pc, childVars, peerIKE, failCount, childRekeyResetCh, dpd, peerUp, down,
                   panicked>>

-----------------------------------------------------------------------------
(* StartDPD.  An interval without a packet may end at any time; the        *)
(* request has the keys and the SPIr of that moment and is retransmitted   *)
(* unchanged.  Its answer is not parsed.                                   *)
sendDPD ==
    /\ Running /\ ~down /\ DPDEnabled
    /\ dpd = None
    /\ dpd' = [keys |-> ikeSA, spir |-> spir]
    /\ UNCHANGED <<rekeyMu, pc, childVars, cooldown, ikeVars, timerVars, disp,
                   peerUp, down, panicked>>

dpdAnswered ==
    /\ Running /\ disp = "run"
    /\ dpd # None
    /\ peerUp /\ answerable(dpd)
    /\ dpd' = None
    /\ UNCHANGED <<rekeyMu, pc, childVars, cooldown, ikeVars, timerVars, disp,
                   peerUp, down, panicked>>

(* One of its six transmissions gets through to a peer that can answer, so *)
(* the request only times out if no answer can reach the session.          *)
dpdTimeout ==
    /\ Running /\ ~down
    /\ dpd # None
    /\ ~(peerUp /\ answerable(dpd) /\ disp = "run")
    /\ down' = TRUE
    /\ UNCHANGED <<rekeyMu, pc, childVars, cooldown, ikeVars, timerVars,
                   envVars, panicked>>

peerDies ==
    /\ Running
    /\ peerUp
    /\ peerUp' = FALSE
    /\ UNCHANGED <<rekeyMu, pc, childVars, cooldown, ikeVars, timerVars, disp,
                   dpd, down, panicked>>

-----------------------------------------------------------------------------
Next ==
    \/ \E w \in Worker :
        \/ timerFires(w) \/ lock(w) \/ send(w) \/ failed(w)
        \/ handleCreateChildSAResp(w)
        \/ handleRekeyIKESAResp(w) \/ switchIKESA(w)
    \/ peerDeletesIKE
    \/ ikeTimerReset \/ childTimerReset \/ cooldownEnds
    \/ handleIncomingCreateChildSA
    \/ \E spi \in SPI : handleDelete(spi)
    \/ \E g \in 0..MaxIKE : handleIncomingInformational(g)
    \/ HandleRekeyIKESARequest
    \/ sendDPD \/ dpdAnswered \/ dpdTimeout
    \/ peerDies

(* With the rest of HandleRekeyIKESARequest, which waits for a lock that   *)
(* the dispatcher itself holds and so never runs.                          *)
NextPassiveIKE == Next \/ passiveSwitchIKESA

(* Goroutines that can run do, timers and the cooldown expire, requests    *)
(* end, and sync.Mutex does not starve a goroutine that waits for it.      *)
Fairness ==
    /\ \A w \in Worker :
        /\ SF_vars(lock(w))
        /\ WF_vars(send(w)) /\ WF_vars(switchIKESA(w))
        /\ WF_vars(failed(w))
    /\ \A t \in Timer : WF_vars(timerFires(t))
    /\ WF_vars(ikeTimerReset) /\ WF_vars(childTimerReset)
    /\ WF_vars(cooldownEnds)

Spec == Init /\ [][Next]_vars
FairSpec == Spec /\ Fairness
SpecPassiveIKE ==
    Init /\ [][NextPassiveIKE]_vars /\ Fairness /\ WF_vars(passiveSwitchIKESA)
-----------------------------------------------------------------------------
(* rekeyMu is held exactly by the worker whose exchange is under way, so   *)
(* two SPIs expiring together never negotiate at the same time.            *)
OneExchangeAtATime ==
    \A w \in Worker : pc[w] \in Holding <=> rekeyMu = w

(* Nobody starts an exchange during the cooldown, although the check and   *)
(* the request are separate steps and the dispatcher starts the cooldown   *)
(* too: the second of two expire events finds the first one's rekey.       *)
NoRekeyWhileCooling ==
    \A w \in Worker : pc[w] = "locked" => ~cooldown

(* A rekey of the peer is only accepted while none of ours is under way:   *)
(* otherwise our answer would replace the SA the peer just negotiated.     *)
CollisionRefused ==
    [][spis' # spis /\ rekeyMu' = rekeyMu =>
            \A w \in Worker : pc[w] \notin Holding]_vars

(* The keys in use are those of an IKE SA the peer answers to, except      *)
(* while the old one is being deleted or the answer to the peer's rekey is *)
(* not followed up; and SPIr is that of the same IKE SA, unless a packet   *)
(* of another one has been parsed since the switch: decryptAndParse then   *)
(* puts back a SPIr the peer may have forgotten.                           *)
IKESAKnownToPeer ==
    /\ ikeSA \in peerIKE \/ pc["ikeTimer"] = "deleting" \/ disp = "locking"
    /\ spir = ikeSA \/ strayed

(* While there is an outbound SA, the kernel holds exactly the pair the    *)
(* session would use, no old one and nothing less, whatever replaced SAs   *)
(* the peer deletes and whenever, until an installation fails or a pair    *)
(* negotiated after the Delete of the current SA is not handed to the      *)
(* kernel.                                                                 *)
KernelHoldsCurrentPair ==
    saOut # None => kernel = {saOut, saIn} \/ unsynced

(* A peer that is gone is noticed by the timers alone, whatever was under  *)
(* way when it died and although every exchange holds rekeyMu until it is  *)
(* given up; nothing is assumed of DPD.  Unless the dispatcher is stuck    *)
(* with rekeyMu in a rekey of the peer, or a Delete made send panic.       *)
DeadPeerNoticed == ~peerUp ~> down \/ disp = "locking" \/ panicked

(* A DPD probe sent under the keys still in use is only given up, and the  *)
(* session ended, if the peer is gone, except while that SA is being       *)
(* deleted, the dispatcher is stuck in a rekey of the peer, or a packet of *)
(* another IKE SA has changed the SPIr of what the session sends.          *)
DPDTimeoutMeansDead ==
    [][down' /\ ~down /\ failCount' = failCount =>
            \/ ~peerUp \/ dpd.keys # ikeSA
            \/ pc["ikeTimer"] = "deleting" \/ disp = "locking"
            \/ strayed]_vars

(* README: the session takes part in an IKE rekey of the peer.             *)
PassiveIKERekeyCompletes == disp = "locking" ~> disp = "run"
=============================================================================
