---------------------------- MODULE RekeyProofs ----------------------------
(***************************************************************************)
(* TLAPS proofs about key rotation, for any number of expire goroutines,   *)
(* any failure limit and any number of rekeys and Deletes.                 *)
(*                                                                         *)
(* The invariants of Rekey are not inductive alone.  That one exchange     *)
(* runs at a time needs to know what the dispatcher holds; that the        *)
(* session's IKE SA is known to the peer needs to know that the next one   *)
(* was agreed before the old one is deleted; that the failure count stays  *)
(* in its range needs to know which timers are still running.              *)
(***************************************************************************)
EXTENDS Rekey, TLAPS

(* TypeOK in two halves, for the two provers. *)
FlagsOK ==
    /\ unsynced \in BOOLEAN /\ cooldown \in BOOLEAN /\ strayed \in BOOLEAN
    /\ rekeyResetCh \in BOOLEAN /\ childRekeyResetCh \in BOOLEAN
    /\ peerUp \in BOOLEAN
    /\ down \in BOOLEAN /\ panicked \in BOOLEAN

DataOK ==
    /\ rekeyMu \in Worker \cup {"dispatcher", None}
    /\ pc \in [Worker -> PC]
    /\ saOut \in SPI \cup {None} /\ saIn \in SPI
    /\ kernel \subseteq SPI
    /\ spis \in 0..MaxSA
    /\ ikeSA \in 0..MaxIKE /\ spir \in 0..MaxIKE /\ peerIKE \subseteq 0..MaxIKE
    /\ failCount \in [Timer -> 0..MaxFail]
    /\ disp \in {"run", "locking"}
    /\ dpd \in Probe \cup {None}

(* The dispatcher holds rekeyMu exactly while it is stuck with it. *)
DispatcherLock == disp = "locking" <=> rekeyMu = "dispatcher"

(* Only the IKE timer deletes an IKE SA, and the next one exists already. *)
NextIKEAgreed ==
    \A w \in Worker : pc[w] = "deleting" =>
        w = "ikeTimer" /\ ikeSA < MaxIKE /\ ikeSA + 1 \in peerIKE

(* A timer goroutine that still runs has failures left. *)
FailuresLeft ==
    \A t \in Timer : pc[t] # "exit" => failCount[t] < MaxFail

(* The first part of IKESAKnownToPeer.                                     *)
KeysKnown ==
    ikeSA \in peerIKE \/ pc["ikeTimer"] = "deleting" \/ disp = "locking"

(* The second part, of the session and of the probe under way: only a      *)
(* packet of another IKE SA leads SPIr away from the keys.  A probe is     *)
(* under the present keys or older ones.                                   *)
Headers ==
    /\ spir = ikeSA \/ strayed
    /\ dpd # None =>
        /\ dpd.keys <= ikeSA
        /\ dpd.keys = ikeSA => dpd.spir = ikeSA \/ strayed

Locking == OneExchangeAtATime /\ DispatcherLock
Cooling == NoRekeyWhileCooling
PeerSA == NextIKEAgreed /\ KeysKnown
ChildPair == KernelHoldsCurrentPair

IInv ==
    /\ FlagsOK /\ DataOK /\ Locking /\ Cooling /\ PeerSA /\ Headers
    /\ FailuresLeft /\ ChildPair
-----------------------------------------------------------------------------
USE CountAssumption, DPDAssumption, ActorAssumption, SPIAssumption

(* The two halves make up the type invariant of Rekey. *)
LEMMA TypeHalves == FlagsOK /\ DataOK <=> TypeOK
BY DEF FlagsOK, DataOK, TypeOK

(* The SPIs of a new pair are SPIs, one of each side. *)
LEMMA NewSPI ==
    ASSUME NEW k \in 0..MaxSA
    PROVE  spiOf("epdg", k) \in SPI /\ spiOf("ue", k) \in SPI
BY DEF SPI, spiOf

(* What returns does to the bookkeeping of the workers: w is idle or, if   *)
(* its failures are used up, gone; the others stay where they are.         *)
LEMMA ReturnsFacts ==
    ASSUME FlagsOK, DataOK, FailuresLeft,
           NEW w \in Worker, NEW ok \in BOOLEAN, returns(w, ok), pc[w] # "exit"
    PROVE  /\ pc' \in [Worker -> PC]
           /\ pc'[w] \in {"idle", "exit"}
           /\ \A v \in Worker : v # w => pc'[v] = pc[v]
           /\ failCount' \in [Timer -> 0..MaxFail]
           /\ FailuresLeft'
           /\ down' \in BOOLEAN
<1>1. CASE w \in Timer
  <2> DEFINE n == IF ok THEN 0 ELSE failCount[w] + 1
  <2>1. /\ failCount' = [failCount EXCEPT ![w] = n]
        /\ pc' = [pc EXCEPT ![w] = IF n >= MaxFail THEN "exit" ELSE "idle"]
        /\ down' = (down \/ n >= MaxFail)
    BY <1>1 DEF returns
  <2>2. n \in 0..MaxFail
    BY <1>1 DEF DataOK, FailuresLeft
  <2>3. down' \in BOOLEAN
    BY <2>1, Zenon DEF FlagsOK
  <2> HIDE DEF n
  <2>4. failCount' \in [Timer -> 0..MaxFail] /\ failCount'[w] = n
    BY <1>1, <2>1, <2>2 DEF DataOK
  <2>5. /\ pc' \in [Worker -> PC]
        /\ pc'[w] = IF n >= MaxFail THEN "exit" ELSE "idle"
        /\ \A v \in Worker : v # w => pc'[v] = pc[v]
    BY <2>1 DEF DataOK, PC
  <2>6. FailuresLeft'
    <3> SUFFICES ASSUME NEW t \in Timer, pc'[t] # "exit" PROVE failCount'[t] < MaxFail
      BY DEF FailuresLeft
    <3>1. CASE t = w
      BY <3>1, <2>2, <2>4, <2>5
    <3>2. CASE t # w
      BY <3>2, <1>1, <2>1, <2>5 DEF FailuresLeft, DataOK, Worker
    <3> QED
      BY <3>1, <3>2
  <2> QED
    BY <2>3, <2>4, <2>5, <2>6
<1>2. CASE w \notin Timer
  <2>1. pc' = [pc EXCEPT ![w] = "idle"] /\ failCount' = failCount /\ down' = down
    BY <1>2 DEF returns
  <2>2. /\ pc' \in [Worker -> PC] /\ pc'[w] = "idle"
        /\ \A v \in Worker : v # w => pc'[v] = pc[v]
    BY <2>1 DEF DataOK, PC
  <2>3. FailuresLeft'
    BY <1>2, <2>1, <2>2 DEF FailuresLeft, Worker
  <2>4. down' \in BOOLEAN
    BY <2>1 DEF FlagsOK
  <2> QED
    BY <2>1, <2>2, <2>3, <2>4 DEF DataOK
<1> QED
  BY <1>1, <1>2

(* The state connectOnce leaves satisfies the inductive invariant. *)
LEMMA InitIInv == Init => IInv
<1> SUFFICES ASSUME Init PROVE IInv
  OBVIOUS
<1>1. FlagsOK
  BY Zenon DEF Init, FlagsOK
<1>2. DataOK
  BY NewSPI DEF Init, DataOK, PC
<1>3. Locking /\ Cooling /\ PeerSA /\ FailuresLeft
  BY DEF Init, Locking, OneExchangeAtATime, DispatcherLock, Cooling,
         NoRekeyWhileCooling, PeerSA, NextIKEAgreed, KeysKnown,
         FailuresLeft, Holding, Worker
<1>4. ChildPair
  BY NewSPI DEF Init, ChildPair, KernelHoldsCurrentPair
<1>5. Headers
  BY DEF Init, Headers
<1> QED
  BY <1>1, <1>2, <1>3, <1>4, <1>5 DEF IInv

(* The dispatcher is no worker, and nobody is None. *)
LEMMA ActorsApart ==
    "dispatcher" \notin Worker /\ None \notin Worker /\ None # "dispatcher"
BY DEF Worker, Timer

(* What parsing a packet of the present IKE SA does to the headers.        *)
LEMMA PresentPacket ==
    ASSUME IInv, decryptAndParse(ikeSA), UNCHANGED <<ikeSA, dpd>>
    PROVE  /\ spir' \in 0..MaxIKE /\ strayed' \in BOOLEAN
           /\ Headers'
<1>1. spir' = ikeSA /\ strayed' = (strayed \/ ikeSA # ikeSA)
  BY DEF decryptAndParse
<1>2. strayed' \in BOOLEAN /\ (strayed => strayed')
  BY <1>1, Zenon DEF IInv, FlagsOK
<1>3. spir' \in 0..MaxIKE
  BY <1>1 DEF IInv, DataOK
<1>4. Headers'
  BY <1>1, <1>2 DEF IInv, Headers
<1> QED
  BY <1>2, <1>3, <1>4

(* A timer or an expire event puts a worker in line for rekeyMu. *)
LEMMA TimerFiresIInv ==
    ASSUME IInv, NEW w \in Worker, timerFires(w)
    PROVE  IInv'
<1>pc. /\ pc' \in [Worker -> PC] /\ pc'[w] = "lock"
       /\ \A v \in Worker : v # w => pc'[v] = pc[v]
  BY DEF IInv, DataOK, timerFires, PC
<1>FlagsOK. FlagsOK'
  BY Zenon
     DEF IInv, FlagsOK, timerFires, ikeVars, childVars, timerVars, envVars
<1>DataOK. DataOK'
  BY <1>pc
     DEF IInv, DataOK, timerFires, childVars, ikeVars, timerVars, envVars
<1>Locking. Locking'
  BY <1>pc
     DEF IInv, DataOK, Locking, OneExchangeAtATime, DispatcherLock, Holding,
         timerFires, envVars
<1>Cooling. Cooling'
  BY <1>pc
     DEF IInv, Cooling, NoRekeyWhileCooling, timerFires
<1>PeerSA. PeerSA'
  BY <1>pc
     DEF IInv, PeerSA, NextIKEAgreed, KeysKnown, timerFires, ikeVars,
         envVars
<1>Headers. Headers'
  BY DEF IInv, Headers, DataOK, timerFires, ikeVars, envVars
<1>FailuresLeft. FailuresLeft'
  BY <1>pc
     DEF IInv, FailuresLeft, timerFires, timerVars
<1>ChildPair. ChildPair'
  BY DEF IInv, ChildPair, KernelHoldsCurrentPair, timerFires, childVars, envVars
<1> QED
  BY <1>FlagsOK, <1>DataOK, <1>Locking, <1>Cooling, <1>PeerSA,
     <1>Headers, <1>FailuresLeft, <1>ChildPair DEF IInv

(* Sending the request changes nothing but the worker. *)
LEMMA SendIInv ==
    ASSUME IInv, NEW w \in Worker, send(w)
    PROVE  IInv'
<1>pc. /\ pc' \in [Worker -> PC] /\ pc'[w] \in {"sent", "astray"}
       /\ \A v \in Worker : v # w => pc'[v] = pc[v]
  BY DEF IInv, DataOK, send, PC
<1>FlagsOK. FlagsOK'
  BY Zenon
     DEF IInv, FlagsOK, send, ikeVars, childVars, timerVars, envVars
<1>DataOK. DataOK'
  BY <1>pc
     DEF IInv, DataOK, send, childVars, ikeVars, timerVars, envVars
<1>Locking. Locking'
  BY <1>pc
     DEF IInv, DataOK, Locking, OneExchangeAtATime, DispatcherLock, Holding,
         send, envVars
<1>Cooling. Cooling'
  BY <1>pc
     DEF IInv, Cooling, NoRekeyWhileCooling, send
<1>PeerSA. PeerSA'
  BY <1>pc
     DEF IInv, PeerSA, NextIKEAgreed, KeysKnown, send, ikeVars,
         envVars
<1>Headers. Headers'
  BY DEF IInv, Headers, DataOK, send, ikeVars, envVars
<1>FailuresLeft. FailuresLeft'
  BY <1>pc
     DEF IInv, FailuresLeft, send, timerVars
<1>ChildPair. ChildPair'
  BY DEF IInv, ChildPair, KernelHoldsCurrentPair, send, childVars, envVars
<1> QED
  BY <1>FlagsOK, <1>DataOK, <1>Locking, <1>Cooling, <1>PeerSA,
     <1>Headers, <1>FailuresLeft, <1>ChildPair DEF IInv

(* The next IKE SA is agreed before the old one is deleted. *)
LEMMA HandleRekeyIKESARespIInv ==
    ASSUME IInv, NEW w \in Worker, handleRekeyIKESAResp(w)
    PROVE  IInv'
<1>pc. /\ pc' \in [Worker -> PC] /\ pc'[w] = "deleting"
       /\ \A v \in Worker : v # w => pc'[v] = pc[v]
  BY DEF IInv, DataOK, handleRekeyIKESAResp, PC
<1>head. spir' \in 0..MaxIKE /\ strayed' \in BOOLEAN /\ Headers'
  BY PresentPacket DEF handleRekeyIKESAResp
<1>FlagsOK. FlagsOK'
  BY <1>head, Zenon
     DEF IInv, FlagsOK, handleRekeyIKESAResp, childVars, timerVars
<1>DataOK. DataOK'
  BY <1>pc, <1>head
     DEF IInv, DataOK, handleRekeyIKESAResp, childVars, timerVars
<1>Locking. Locking'
  BY <1>pc
     DEF IInv, DataOK, Locking, OneExchangeAtATime, DispatcherLock, Holding,
         handleRekeyIKESAResp
<1>Cooling. Cooling'
  BY <1>pc
     DEF IInv, Cooling, NoRekeyWhileCooling, handleRekeyIKESAResp
<1>PeerSA. PeerSA'
  BY <1>pc
     DEF IInv, PeerSA, NextIKEAgreed, KeysKnown, handleRekeyIKESAResp,
         Rekeys, envVars
<1>FailuresLeft. FailuresLeft'
  BY <1>pc
     DEF IInv, FailuresLeft, handleRekeyIKESAResp, timerVars
<1>ChildPair. ChildPair'
  BY DEF IInv, ChildPair, KernelHoldsCurrentPair, handleRekeyIKESAResp, childVars
<1> QED
  BY <1>FlagsOK, <1>DataOK, <1>Locking, <1>Cooling, <1>PeerSA,
     <1>head, <1>FailuresLeft, <1>ChildPair DEF IInv

(* The peer forgets only the old IKE SA. *)
LEMMA PeerDeletesIKEIInv ==
    ASSUME IInv, peerDeletesIKE
    PROVE  IInv'
<1>FlagsOK. FlagsOK'
  BY Zenon
     DEF IInv, FlagsOK, peerDeletesIKE, ikeVars, childVars, timerVars, envVars
<1>DataOK. DataOK'
  BY DEF IInv, DataOK, peerDeletesIKE, childVars, timerVars, envVars
<1>Locking. Locking'
  BY DEF IInv, DataOK, Locking, OneExchangeAtATime, DispatcherLock, Holding,
         peerDeletesIKE, envVars
<1>Cooling. Cooling'
  BY DEF IInv, Cooling, NoRekeyWhileCooling, peerDeletesIKE
<1>PeerSA. PeerSA'
  BY DEF IInv, PeerSA, NextIKEAgreed, KeysKnown, peerDeletesIKE,
         envVars, DataOK
<1>Headers. Headers'
  BY DEF IInv, Headers, DataOK, peerDeletesIKE, ikeVars, envVars
<1>FailuresLeft. FailuresLeft'
  BY DEF IInv, FailuresLeft, peerDeletesIKE, timerVars
<1>ChildPair. ChildPair'
  BY DEF IInv, ChildPair, KernelHoldsCurrentPair, peerDeletesIKE, childVars, envVars
<1> QED
  BY <1>FlagsOK, <1>DataOK, <1>Locking, <1>Cooling, <1>PeerSA,
     <1>Headers, <1>FailuresLeft, <1>ChildPair DEF IInv

(* The end of the cooldown disturbs nobody. *)
LEMMA CooldownEndsIInv ==
    ASSUME IInv, cooldownEnds
    PROVE  IInv'
<1>FlagsOK. FlagsOK'
  BY Zenon
     DEF IInv, FlagsOK, cooldownEnds, ikeVars, childVars, timerVars, envVars
<1>DataOK. DataOK'
  BY DEF IInv, DataOK, cooldownEnds, childVars, ikeVars, timerVars, envVars
<1>Locking. Locking'
  BY DEF IInv, DataOK, Locking, OneExchangeAtATime, DispatcherLock, Holding,
         cooldownEnds, envVars
<1>Cooling. Cooling'
  BY DEF IInv, Cooling, NoRekeyWhileCooling, cooldownEnds
<1>PeerSA. PeerSA'
  BY DEF IInv, PeerSA, NextIKEAgreed, KeysKnown, cooldownEnds,
         ikeVars, envVars
<1>Headers. Headers'
  BY DEF IInv, Headers, DataOK, cooldownEnds, ikeVars, envVars
<1>FailuresLeft. FailuresLeft'
  BY DEF IInv, FailuresLeft, cooldownEnds, timerVars
<1>ChildPair. ChildPair'
  BY DEF IInv, ChildPair, KernelHoldsCurrentPair, cooldownEnds, childVars, envVars
<1> QED
  BY <1>FlagsOK, <1>DataOK, <1>Locking, <1>Cooling, <1>PeerSA,
     <1>Headers, <1>FailuresLeft, <1>ChildPair DEF IInv

(* A timer that takes its token starts counting again. *)
LEMMA IKETimerResetIInv ==
    ASSUME IInv, ikeTimerReset
    PROVE  IInv'
<1>FlagsOK. FlagsOK'
  BY Zenon
     DEF IInv, FlagsOK, ikeTimerReset, ikeVars, childVars, envVars
<1>DataOK. DataOK'
  BY DEF IInv, DataOK, ikeTimerReset, childVars, ikeVars, envVars, Timer
<1>Locking. Locking'
  BY DEF IInv, DataOK, Locking, OneExchangeAtATime, DispatcherLock, Holding,
         ikeTimerReset, envVars
<1>Cooling. Cooling'
  BY DEF IInv, Cooling, NoRekeyWhileCooling, ikeTimerReset
<1>PeerSA. PeerSA'
  BY DEF IInv, PeerSA, NextIKEAgreed, KeysKnown, ikeTimerReset,
         ikeVars, envVars
<1>Headers. Headers'
  BY DEF IInv, Headers, DataOK, ikeTimerReset, ikeVars, envVars
<1>FailuresLeft. FailuresLeft'
  BY DEF IInv, FailuresLeft, ikeTimerReset
<1>ChildPair. ChildPair'
  BY DEF IInv, ChildPair, KernelHoldsCurrentPair, ikeTimerReset, childVars, envVars
<1> QED
  BY <1>FlagsOK, <1>DataOK, <1>Locking, <1>Cooling, <1>PeerSA,
     <1>Headers, <1>FailuresLeft, <1>ChildPair DEF IInv

(* The same for the child timer. *)
LEMMA ChildTimerResetIInv ==
    ASSUME IInv, childTimerReset
    PROVE  IInv'
<1>FlagsOK. FlagsOK'
  BY Zenon
     DEF IInv, FlagsOK, childTimerReset, ikeVars, childVars, envVars
<1>DataOK. DataOK'
  BY DEF IInv, DataOK, childTimerReset, childVars, ikeVars, envVars, Timer
<1>Locking. Locking'
  BY DEF IInv, DataOK, Locking, OneExchangeAtATime, DispatcherLock, Holding,
         childTimerReset, envVars
<1>Cooling. Cooling'
  BY DEF IInv, Cooling, NoRekeyWhileCooling, childTimerReset
<1>PeerSA. PeerSA'
  BY DEF IInv, PeerSA, NextIKEAgreed, KeysKnown, childTimerReset,
         ikeVars, envVars
<1>Headers. Headers'
  BY DEF IInv, Headers, DataOK, childTimerReset, ikeVars, envVars
<1>FailuresLeft. FailuresLeft'
  BY DEF IInv, FailuresLeft, childTimerReset
<1>ChildPair. ChildPair'
  BY DEF IInv, ChildPair, KernelHoldsCurrentPair, childTimerReset, childVars, envVars
<1> QED
  BY <1>FlagsOK, <1>DataOK, <1>Locking, <1>Cooling, <1>PeerSA,
     <1>Headers, <1>FailuresLeft, <1>ChildPair DEF IInv

(* The dispatcher takes rekeyMu and is stuck with it. *)
LEMMA HandleRekeyIKESARequestIInv ==
    ASSUME IInv, HandleRekeyIKESARequest
    PROVE  IInv'
<1>head. spir' \in 0..MaxIKE /\ strayed' \in BOOLEAN /\ Headers'
  BY PresentPacket DEF HandleRekeyIKESARequest
<1>FlagsOK. FlagsOK'
  BY <1>head, Zenon
     DEF IInv, FlagsOK, HandleRekeyIKESARequest, childVars, timerVars
<1>DataOK. DataOK'
  BY <1>head DEF IInv, DataOK, HandleRekeyIKESARequest, childVars, timerVars
<1>Locking. Locking'
  BY ActorsApart
     DEF IInv, DataOK, Locking, OneExchangeAtATime, DispatcherLock, Holding,
         HandleRekeyIKESARequest
<1>Cooling. Cooling'
  BY DEF IInv, Cooling, NoRekeyWhileCooling, HandleRekeyIKESARequest
<1>PeerSA. PeerSA'
  BY DEF IInv, PeerSA, NextIKEAgreed, KeysKnown,
         HandleRekeyIKESARequest
<1>FailuresLeft. FailuresLeft'
  BY DEF IInv, FailuresLeft, HandleRekeyIKESARequest, timerVars
<1>ChildPair. ChildPair'
  BY DEF IInv, ChildPair, KernelHoldsCurrentPair, HandleRekeyIKESARequest, childVars
<1> QED
  BY <1>FlagsOK, <1>DataOK, <1>Locking, <1>Cooling, <1>PeerSA,
     <1>head, <1>FailuresLeft, <1>ChildPair DEF IInv

(* A probe is sent under the IKE SA in use. *)
LEMMA SendDPDIInv ==
    ASSUME IInv, sendDPD
    PROVE  IInv'
<1>FlagsOK. FlagsOK'
  BY Zenon
     DEF IInv, FlagsOK, sendDPD, ikeVars, childVars, timerVars
<1>DataOK. DataOK'
  BY DEF IInv, DataOK, Probe, sendDPD, childVars, ikeVars, timerVars
<1>Locking. Locking'
  BY DEF IInv, DataOK, Locking, OneExchangeAtATime, DispatcherLock, Holding,
         sendDPD
<1>Cooling. Cooling'
  BY DEF IInv, Cooling, NoRekeyWhileCooling, sendDPD
<1>PeerSA. PeerSA'
  BY DEF IInv, PeerSA, NextIKEAgreed, KeysKnown, sendDPD, ikeVars
<1>Headers. Headers'
  BY DEF IInv, Headers, DataOK, sendDPD, ikeVars, envVars
<1>FailuresLeft. FailuresLeft'
  BY DEF IInv, FailuresLeft, sendDPD, timerVars
<1>ChildPair. ChildPair'
  BY DEF IInv, ChildPair, KernelHoldsCurrentPair, sendDPD, childVars
<1> QED
  BY <1>FlagsOK, <1>DataOK, <1>Locking, <1>Cooling, <1>PeerSA,
     <1>Headers, <1>FailuresLeft, <1>ChildPair DEF IInv

(* An answered probe leaves the rest alone. *)
LEMMA DPDAnsweredIInv ==
    ASSUME IInv, dpdAnswered
    PROVE  IInv'
<1>FlagsOK. FlagsOK'
  BY Zenon
     DEF IInv, FlagsOK, dpdAnswered, ikeVars, childVars, timerVars
<1>DataOK. DataOK'
  BY DEF IInv, DataOK, dpdAnswered, childVars, ikeVars, timerVars
<1>Locking. Locking'
  BY DEF IInv, DataOK, Locking, OneExchangeAtATime, DispatcherLock, Holding,
         dpdAnswered
<1>Cooling. Cooling'
  BY DEF IInv, Cooling, NoRekeyWhileCooling, dpdAnswered
<1>PeerSA. PeerSA'
  BY DEF IInv, PeerSA, NextIKEAgreed, KeysKnown, dpdAnswered, ikeVars
<1>Headers. Headers'
  BY DEF IInv, Headers, DataOK, dpdAnswered, ikeVars, envVars
<1>FailuresLeft. FailuresLeft'
  BY DEF IInv, FailuresLeft, dpdAnswered, timerVars
<1>ChildPair. ChildPair'
  BY DEF IInv, ChildPair, KernelHoldsCurrentPair, dpdAnswered, childVars
<1> QED
  BY <1>FlagsOK, <1>DataOK, <1>Locking, <1>Cooling, <1>PeerSA,
     <1>Headers, <1>FailuresLeft, <1>ChildPair DEF IInv

(* A probe given up ends the session. *)
LEMMA DPDTimeoutIInv ==
    ASSUME IInv, dpdTimeout
    PROVE  IInv'
<1>FlagsOK. FlagsOK'
  BY Zenon
     DEF IInv, FlagsOK, dpdTimeout, ikeVars, childVars, timerVars, envVars
<1>DataOK. DataOK'
  BY DEF IInv, DataOK, dpdTimeout, childVars, ikeVars, timerVars, envVars
<1>Locking. Locking'
  BY DEF IInv, DataOK, Locking, OneExchangeAtATime, DispatcherLock, Holding,
         dpdTimeout, envVars
<1>Cooling. Cooling'
  BY DEF IInv, Cooling, NoRekeyWhileCooling, dpdTimeout
<1>PeerSA. PeerSA'
  BY DEF IInv, PeerSA, NextIKEAgreed, KeysKnown, dpdTimeout, ikeVars,
         envVars
<1>Headers. Headers'
  BY DEF IInv, Headers, DataOK, dpdTimeout, ikeVars, envVars
<1>FailuresLeft. FailuresLeft'
  BY DEF IInv, FailuresLeft, dpdTimeout, timerVars
<1>ChildPair. ChildPair'
  BY DEF IInv, ChildPair, KernelHoldsCurrentPair, dpdTimeout, childVars, envVars
<1> QED
  BY <1>FlagsOK, <1>DataOK, <1>Locking, <1>Cooling, <1>PeerSA,
     <1>Headers, <1>FailuresLeft, <1>ChildPair DEF IInv

(* The peer may go at any time. *)
LEMMA PeerDiesIInv ==
    ASSUME IInv, peerDies
    PROVE  IInv'
<1>FlagsOK. FlagsOK'
  BY Zenon
     DEF IInv, FlagsOK, peerDies, ikeVars, childVars, timerVars
<1>DataOK. DataOK'
  BY DEF IInv, DataOK, peerDies, childVars, ikeVars, timerVars
<1>Locking. Locking'
  BY DEF IInv, DataOK, Locking, OneExchangeAtATime, DispatcherLock, Holding,
         peerDies
<1>Cooling. Cooling'
  BY DEF IInv, Cooling, NoRekeyWhileCooling, peerDies
<1>PeerSA. PeerSA'
  BY DEF IInv, PeerSA, NextIKEAgreed, KeysKnown, peerDies, ikeVars
<1>Headers. Headers'
  BY DEF IInv, Headers, DataOK, peerDies, ikeVars, envVars
<1>FailuresLeft. FailuresLeft'
  BY DEF IInv, FailuresLeft, peerDies, timerVars
<1>ChildPair. ChildPair'
  BY DEF IInv, ChildPair, KernelHoldsCurrentPair, peerDies, childVars
<1> QED
  BY <1>FlagsOK, <1>DataOK, <1>Locking, <1>Cooling, <1>PeerSA,
     <1>Headers, <1>FailuresLeft, <1>ChildPair DEF IInv

(* A failed exchange releases the lock and counts. *)
LEMMA FailedIInv ==
    ASSUME IInv, NEW w \in Worker, failed(w)
    PROVE  IInv'
<1>a. pc[w] \in {"sent", "astray"} /\ returns(w, FALSE)
  BY DEF failed
<1>pc. /\ pc' \in [Worker -> PC] /\ pc'[w] \in {"idle", "exit"}
       /\ \A v \in Worker : v # w => pc'[v] = pc[v]
       /\ failCount' \in [Timer -> 0..MaxFail]
  BY <1>a, ReturnsFacts DEF IInv
<1>left. FailuresLeft'
  BY <1>a, ReturnsFacts DEF IInv
<1>down. down' \in BOOLEAN
  BY <1>a, ReturnsFacts DEF IInv
<1>mu. \A v \in Worker : pc[v] \in Holding => v = w
  BY <1>a DEF IInv, Locking, OneExchangeAtATime, Holding
<1>u. /\ rekeyMu' = None
     /\ UNCHANGED <<saOut, saIn, kernel, spis, ikeSA, spir, peerIKE,
                    disp, dpd>>
  BY DEF failed, childVars, ikeVars, envVars
<1>FlagsOK. FlagsOK'
  BY <1>down, Zenon
     DEF IInv, FlagsOK, failed, ikeVars, childVars, envVars
<1>DataOK. DataOK'
  BY <1>pc, <1>u DEF IInv, DataOK
<1>Locking. Locking'
  BY <1>pc, <1>mu, ActorsApart
     DEF IInv, Locking, OneExchangeAtATime, DispatcherLock, Holding, failed,
         envVars
<1>Cooling. Cooling'
  BY <1>pc
     DEF IInv, Cooling, NoRekeyWhileCooling, failed
<1>PeerSA. PeerSA'
  BY <1>a, <1>pc, <1>u
     DEF IInv, PeerSA, NextIKEAgreed, KeysKnown, Worker, Timer
<1>Headers. Headers'
  BY DEF IInv, Headers, DataOK, failed, ikeVars, envVars
<1>FailuresLeft. FailuresLeft'
  BY <1>left
<1>ChildPair. ChildPair'
  BY DEF IInv, ChildPair, KernelHoldsCurrentPair, failed, childVars, envVars
<1> QED
  BY <1>FlagsOK, <1>DataOK, <1>Locking, <1>Cooling, <1>PeerSA,
     <1>Headers, <1>FailuresLeft, <1>ChildPair DEF IInv

(* The session moves to an IKE SA the peer has. *)
LEMMA SwitchIKESAIInv ==
    ASSUME IInv, NEW w \in Worker, switchIKESA(w)
    PROVE  IInv'
<1>a. pc[w] = "deleting" /\ returns(w, TRUE)
  BY DEF switchIKESA
<1>pc. /\ pc' \in [Worker -> PC] /\ pc'[w] \in {"idle", "exit"}
       /\ \A v \in Worker : v # w => pc'[v] = pc[v]
       /\ failCount' \in [Timer -> 0..MaxFail]
  BY <1>a, ReturnsFacts DEF IInv
<1>left. FailuresLeft'
  BY <1>a, ReturnsFacts DEF IInv
<1>down. down' \in BOOLEAN
  BY <1>a, ReturnsFacts DEF IInv
<1>mu. \A v \in Worker : pc[v] \in Holding => v = w
  BY <1>a DEF IInv, Locking, OneExchangeAtATime, Holding
<1>u. /\ rekeyMu' = None /\ ikeSA' = ikeSA + 1 /\ spir' = ikeSA + 1
     /\ strayed' = FALSE
     /\ UNCHANGED <<saOut, saIn, kernel, spis, peerIKE, disp, dpd>>
  BY DEF switchIKESA, childVars, envVars
<1>FlagsOK. FlagsOK'
  BY <1>down, Zenon
     DEF IInv, FlagsOK, switchIKESA, childVars, envVars
<1>DataOK. DataOK'
  BY <1>a, <1>pc, <1>u DEF IInv, DataOK, PeerSA, NextIKEAgreed
<1>Locking. Locking'
  BY <1>a, <1>pc, <1>mu, ActorsApart
     DEF IInv, Locking, OneExchangeAtATime, DispatcherLock, Holding,
         switchIKESA, envVars
<1>Cooling. Cooling'
  BY <1>pc, <1>mu
     DEF Cooling, NoRekeyWhileCooling, Holding
<1>PeerSA. PeerSA'
  BY <1>a, <1>pc, <1>mu
     DEF IInv, PeerSA, NextIKEAgreed, KeysKnown, Holding, switchIKESA
<1>Headers. Headers'
  BY <1>u DEF IInv, Headers, DataOK, Probe
<1>FailuresLeft. FailuresLeft'
  BY <1>left
<1>ChildPair. ChildPair'
  BY DEF IInv, ChildPair, KernelHoldsCurrentPair, switchIKESA, childVars, envVars
<1> QED
  BY <1>FlagsOK, <1>DataOK, <1>Locking, <1>Cooling, <1>PeerSA,
     <1>Headers, <1>FailuresLeft, <1>ChildPair DEF IInv

(* A Delete only takes away. *)
LEMMA HandleDeleteIInv ==
    ASSUME IInv, NEW spi \in SPI, handleDelete(spi)
    PROVE  IInv'
<1>head. spir' \in 0..MaxIKE /\ strayed' \in BOOLEAN /\ Headers'
  BY PresentPacket DEF handleDelete
<1>FlagsOK. FlagsOK'
  BY <1>head, Zenon
     DEF IInv, FlagsOK, handleDelete, timerVars
<1>DataOK. DataOK'
  BY <1>head DEF IInv, DataOK, handleDelete, ikeVars, timerVars
<1>Locking. Locking'
  BY DEF IInv, DataOK, Locking, OneExchangeAtATime, DispatcherLock, Holding,
         handleDelete
<1>Cooling. Cooling'
  BY DEF IInv, Cooling, NoRekeyWhileCooling, handleDelete
<1>PeerSA. PeerSA'
  BY DEF IInv, PeerSA, NextIKEAgreed, KeysKnown, handleDelete, ikeVars
<1>FailuresLeft. FailuresLeft'
  BY DEF IInv, FailuresLeft, handleDelete, timerVars
<1>ChildPair. ChildPair'
  BY DEF IInv, ChildPair, KernelHoldsCurrentPair, handleDelete, DataOK
<1> QED
  BY <1>FlagsOK, <1>DataOK, <1>Locking, <1>Cooling, <1>PeerSA,
     <1>head, <1>FailuresLeft, <1>ChildPair DEF IInv

(* Either way of going through the lock: the worker returns, or it holds   *)
(* rekeyMu and the cooldown is over.                                       *)
LEMMA LockIInv ==
    ASSUME IInv, NEW w \in Worker, lock(w)
    PROVE  IInv'
<1>u. /\ pc[w] = "lock" /\ rekeyMu = None
      /\ UNCHANGED <<saOut, saIn, spis, kernel, unsynced, cooldown,
                     ikeSA, spir, strayed, peerIKE, disp, dpd, peerUp,
                     rekeyResetCh, childRekeyResetCh, panicked>>
  BY DEF lock, childVars, ikeVars, envVars
<1>free. \A v \in Worker : pc[v] \notin Holding
  BY <1>u, ActorsApart DEF IInv, Locking, OneExchangeAtATime
<1>1. CASE (\E ok \in BOOLEAN : returns(w, ok)) /\ UNCHANGED rekeyMu
  <2> PICK ok \in BOOLEAN : returns(w, ok)
    BY <1>1
  <2>pc. /\ pc' \in [Worker -> PC] /\ pc'[w] \in {"idle", "exit"}
         /\ \A v \in Worker : v # w => pc'[v] = pc[v]
         /\ failCount' \in [Timer -> 0..MaxFail]
    BY <1>u, ReturnsFacts DEF IInv
  <2>left. FailuresLeft'
    BY <1>u, ReturnsFacts DEF IInv
  <2>down. down' \in BOOLEAN
    BY <1>u, ReturnsFacts DEF IInv
  <2>head. Headers'
    BY <1>u DEF IInv, Headers
  <2>1. FlagsOK'
    BY <1>u, <2>down DEF IInv, FlagsOK
  <2>2. DataOK'
    BY <1>1, <1>u, <2>pc DEF IInv, DataOK
  <2>3. Locking'
    BY <1>1, <1>u, <1>free, <2>pc, ActorsApart
       DEF IInv, Locking, OneExchangeAtATime, DispatcherLock, Holding
  <2>4. Cooling'
    BY <1>free, <2>pc DEF Cooling, NoRekeyWhileCooling, Holding
  <2>5. PeerSA'
    BY <1>u, <1>free, <2>pc
       DEF IInv, PeerSA, NextIKEAgreed, KeysKnown, Holding, Worker, Timer
  <2>6. ChildPair'
    BY <1>u DEF IInv, ChildPair, KernelHoldsCurrentPair
  <2> QED
    BY <2>1, <2>2, <2>3, <2>4, <2>5, <2>6, <2>head, <2>left DEF IInv
<1>2. CASE /\ ~cooldown /\ rekeyMu' = w
           /\ pc' = [pc EXCEPT ![w] = "locked"]
           /\ UNCHANGED <<failCount, down>>
  <2>pc. /\ pc' \in [Worker -> PC] /\ pc'[w] = "locked"
         /\ \A v \in Worker : v # w => pc'[v] = pc[v]
    BY <1>2 DEF IInv, DataOK, PC
  <2>head. Headers'
    BY <1>u DEF IInv, Headers
  <2>1. FlagsOK'
    BY <1>2, <1>u DEF IInv, FlagsOK
  <2>2. DataOK'
    BY <1>2, <1>u, <2>pc DEF IInv, DataOK
  <2>3. Locking'
    BY <1>2, <1>u, <1>free, <2>pc, ActorsApart
       DEF IInv, Locking, OneExchangeAtATime, DispatcherLock, Holding
  <2>4. Cooling'
    BY <1>2, <1>u DEF Cooling, NoRekeyWhileCooling
  <2>5. PeerSA'
    BY <1>u, <1>free, <2>pc
       DEF IInv, PeerSA, NextIKEAgreed, KeysKnown, Holding, Worker, Timer
  <2>6. FailuresLeft'
    BY <1>2, <1>u, <2>pc DEF IInv, FailuresLeft, Worker
  <2>7. ChildPair'
    BY <1>u DEF IInv, ChildPair, KernelHoldsCurrentPair
  <2> QED
    BY <2>1, <2>2, <2>3, <2>4, <2>5, <2>6, <2>head, <2>7 DEF IInv
<1> QED
  BY <1>1, <1>2 DEF lock

(* rekeyXFRMSA leaves the new pair in the kernel or reports an error, if   *)
(* the kernel held the old pair.                                           *)
LEMMA KernelUpdate ==
    ASSUME FlagsOK, DataOK, NEW oldOut, NEW oldIn,
           NEW newOut \in SPI, NEW newIn \in SPI,
           rekeyXFRMSA(oldOut, oldIn, newOut, newIn)
    PROVE  /\ kernel' \subseteq SPI
           /\ unsynced' \in BOOLEAN
           /\ unsynced => unsynced'
           /\ kernel = {oldOut, oldIn} =>
                kernel' = {newOut, newIn} \/ unsynced'
<1>1. kernel' \subseteq SPI
  BY DEF rekeyXFRMSA, DataOK
<1>2. unsynced' \in BOOLEAN
  BY Zenon DEF rekeyXFRMSA, FlagsOK
<1>3. unsynced => unsynced'
  BY Zenon DEF rekeyXFRMSA
<1>4. kernel = {oldOut, oldIn} => kernel' = {newOut, newIn} \/ unsynced'
  <2> SUFFICES ASSUME kernel = {oldOut, oldIn}, ~unsynced'
               PROVE  kernel' = {newOut, newIn}
    OBVIOUS
  <2>1. kernel' = (kernel \ {oldOut, oldIn}) \cup {newOut, newIn}
    BY Zenon DEF rekeyXFRMSA
  <2> QED
    BY <2>1
<1> QED
  BY <1>1, <1>2, <1>3, <1>4

(* Installing a new pair keeps ChildPair, whoever allocated which SPI, and *)
(* so does a new pair in memory alone, which is recorded.                  *)
LEMMA NewPair ==
    ASSUME FlagsOK, DataOK, ChildPair, NEW newOut \in SPI, NEW newIn \in SPI,
           replaceSA(newOut, newIn),
           \/ saOut # None /\ rekeyXFRMSA(saOut, saIn, newOut, newIn)
           \/ unsynced' = TRUE /\ UNCHANGED kernel
    PROVE  /\ ChildPair'
           /\ saOut' \in SPI /\ saIn' \in SPI
           /\ kernel' \subseteq SPI
           /\ unsynced' \in BOOLEAN
<1>1. saOut' = newOut /\ saIn' = newIn
  BY DEF replaceSA
<1>2. kernel' \subseteq SPI
  BY KernelUpdate DEF DataOK
<1>3. unsynced' \in BOOLEAN
  BY KernelUpdate
<1>4. CASE saOut # None /\ rekeyXFRMSA(saOut, saIn, newOut, newIn)
  <2>1. kernel = {saOut, saIn} \/ unsynced
    BY <1>4 DEF ChildPair, KernelHoldsCurrentPair
  <2> QED
    BY <1>1, <1>2, <1>3, <1>4, <2>1, KernelUpdate
       DEF ChildPair, KernelHoldsCurrentPair
<1>5. CASE unsynced' = TRUE
  BY <1>1, <1>2, <1>3, <1>5 DEF ChildPair, KernelHoldsCurrentPair
<1> QED
  BY <1>4, <1>5

(* The response to our child rekey. *)
LEMMA HandleCreateChildSARespIInv ==
    ASSUME IInv, NEW w \in Worker, handleCreateChildSAResp(w)
    PROVE  IInv'
<1>u. /\ pc[w] = "sent" /\ disp = "run" /\ spis < MaxSA
      /\ decryptAndParse(ikeSA)
      /\ UNCHANGED <<ikeSA, peerIKE, childRekeyResetCh, disp, dpd, peerUp>>
  BY DEF handleCreateChildSAResp
<1>head. spir' \in 0..MaxIKE /\ strayed' \in BOOLEAN /\ Headers'
  BY <1>u, PresentPacket
<1>mu. rekeyMu = w /\ \A v \in Worker : pc[v] \in Holding => v = w
  BY <1>u DEF IInv, Locking, OneExchangeAtATime, Holding
<1>1. CASE /\ panicked' = TRUE
           /\ UNCHANGED <<rekeyMu, pc, childVars, cooldown, failCount,
                          rekeyResetCh, down>>
  <2>1. FlagsOK'
    BY <1>1, <1>u, <1>head, Zenon DEF IInv, FlagsOK, childVars
  <2>2. DataOK'
    BY <1>1, <1>u, <1>head DEF IInv, DataOK, childVars
  <2>3. Locking' /\ Cooling' /\ PeerSA' /\ FailuresLeft'
    BY <1>1, <1>u
       DEF IInv, Locking, OneExchangeAtATime, DispatcherLock, Holding, Cooling,
           NoRekeyWhileCooling, PeerSA, NextIKEAgreed, KeysKnown, FailuresLeft
  <2>4. ChildPair'
    BY <1>1 DEF IInv, ChildPair, KernelHoldsCurrentPair, childVars
  <2> QED
    BY <1>head, <2>1, <2>2, <2>3, <2>4 DEF IInv
<1>2. CASE /\ saOut # None
           /\ replaceSA(spiOf("epdg", spis + 1), spiOf("ue", spis + 1))
           /\ rekeyXFRMSA(saOut, saIn, spiOf("epdg", spis + 1),
                          spiOf("ue", spis + 1))
           /\ spis' = spis + 1 /\ cooldown' = TRUE /\ rekeyResetCh' = TRUE
           /\ rekeyMu' = None /\ returns(w, TRUE) /\ UNCHANGED panicked
  <2>pc. /\ pc' \in [Worker -> PC] /\ pc'[w] \in {"idle", "exit"}
         /\ \A v \in Worker : v # w => pc'[v] = pc[v]
         /\ failCount' \in [Timer -> 0..MaxFail]
    BY <1>2, <1>u, ReturnsFacts DEF IInv
  <2>left. FailuresLeft'
    BY <1>2, <1>u, ReturnsFacts DEF IInv
  <2>down. down' \in BOOLEAN
    BY <1>2, <1>u, ReturnsFacts DEF IInv
  <2>spi. spiOf("epdg", spis + 1) \in SPI /\ spiOf("ue", spis + 1) \in SPI
    BY <1>u, NewSPI DEF IInv, DataOK
  <2>pair. /\ ChildPair'
           /\ saOut' \in SPI /\ saIn' \in SPI
           /\ kernel' \subseteq SPI
           /\ unsynced' \in BOOLEAN
    BY <1>2, <2>spi, NewPair DEF IInv
  <2>1. FlagsOK'
    BY <1>2, <1>u, <1>head, <2>down, <2>pair, Zenon DEF IInv, FlagsOK
  <2>2. DataOK'
    BY <1>2, <1>u, <1>head, <2>pc, <2>pair DEF IInv, DataOK
  <2>3. Locking'
    BY <1>2, <1>u, <1>mu, <2>pc, ActorsApart
       DEF IInv, Locking, OneExchangeAtATime, DispatcherLock, Holding
  <2>4. Cooling'
    BY <1>mu, <2>pc DEF Cooling, NoRekeyWhileCooling, Holding
  <2>5. PeerSA'
    BY <1>u, <2>pc
       DEF IInv, PeerSA, NextIKEAgreed, KeysKnown, Worker, Timer
  <2> QED
    BY <1>head, <2>1, <2>2, <2>3, <2>4, <2>5, <2>left, <2>pair DEF IInv
<1> QED
  BY <1>1, <1>2 DEF handleCreateChildSAResp

(* A child rekey of the peer, accepted while rekeyMu is free. *)
LEMMA HandleIncomingCreateChildSAIInv ==
    ASSUME IInv, handleIncomingCreateChildSA
    PROVE  IInv'
<1>u. /\ rekeyMu = None /\ spis < MaxSA /\ spis' = spis + 1
      /\ cooldown' = TRUE /\ childRekeyResetCh' = TRUE
      /\ decryptAndParse(ikeSA)
      /\ UNCHANGED <<rekeyMu, pc, ikeSA, peerIKE, failCount, rekeyResetCh, disp,
                     dpd, peerUp, down, panicked>>
  BY DEF handleIncomingCreateChildSA
<1>head. spir' \in 0..MaxIKE /\ strayed' \in BOOLEAN /\ Headers'
  BY <1>u, PresentPacket
<1>free. \A v \in Worker : pc[v] \notin Holding
  BY <1>u, ActorsApart DEF IInv, Locking, OneExchangeAtATime
<1>spi. spiOf("epdg", spis + 1) \in SPI /\ spiOf("ue", spis + 1) \in SPI
  BY <1>u, NewSPI DEF IInv, DataOK
<1>new. /\ replaceSA(spiOf("ue", spis + 1), spiOf("epdg", spis + 1))
        /\ \/ /\ saOut # None
              /\ rekeyXFRMSA(saOut, saIn, spiOf("ue", spis + 1),
                             spiOf("epdg", spis + 1))
           \/ unsynced' = TRUE /\ UNCHANGED kernel
  BY DEF handleIncomingCreateChildSA
<1>pair. /\ ChildPair'
         /\ saOut' \in SPI /\ saIn' \in SPI
         /\ kernel' \subseteq SPI
         /\ unsynced' \in BOOLEAN
  BY <1>new, <1>spi, NewPair DEF IInv
<1>1. FlagsOK'
  BY <1>u, <1>head, <1>pair, Zenon DEF IInv, FlagsOK
<1>2. DataOK'
  BY <1>u, <1>head, <1>pair DEF IInv, DataOK
<1>3. Locking' /\ PeerSA' /\ FailuresLeft'
  BY <1>u
     DEF IInv, Locking, OneExchangeAtATime, DispatcherLock, Holding, PeerSA,
         NextIKEAgreed, KeysKnown, FailuresLeft
<1>4. Cooling'
  BY <1>u, <1>free DEF Cooling, NoRekeyWhileCooling, Holding
<1> QED
  BY <1>head, <1>1, <1>2, <1>3, <1>4, <1>pair DEF IInv

(* A request that changes nothing but the header of what is sent next.     *)
LEMMA HandleIncomingInformationalIInv ==
    ASSUME IInv, NEW g \in 0..MaxIKE, handleIncomingInformational(g)
    PROVE  IInv'
<1>u. /\ spir' = g /\ strayed' = (strayed \/ g # ikeSA)
      /\ UNCHANGED <<rekeyMu, pc, childVars, cooldown, ikeSA, peerIKE,
                     timerVars, disp, dpd, peerUp, down, panicked>>
  BY DEF handleIncomingInformational, decryptAndParse
<1>s. strayed' \in BOOLEAN /\ (strayed => strayed') /\ (g # ikeSA => strayed')
  BY <1>u, Zenon DEF IInv, FlagsOK
<1>FlagsOK. FlagsOK'
  BY <1>u, <1>s, Zenon DEF IInv, FlagsOK, childVars, timerVars
<1>DataOK. DataOK'
  BY <1>u DEF IInv, DataOK, childVars, timerVars
<1>rest. Locking' /\ Cooling' /\ PeerSA' /\ FailuresLeft'
  BY <1>u
     DEF IInv, Locking, OneExchangeAtATime, DispatcherLock, Holding, Cooling,
         NoRekeyWhileCooling, PeerSA, NextIKEAgreed, KeysKnown, FailuresLeft,
         timerVars
<1>Headers. Headers'
  BY <1>u, <1>s DEF IInv, Headers
<1>ChildPair. ChildPair'
  BY <1>u DEF IInv, ChildPair, KernelHoldsCurrentPair, childVars
<1> QED
  BY <1>FlagsOK, <1>DataOK, <1>rest, <1>Headers, <1>ChildPair DEF IInv

(* A stuttering step. *)
LEMMA StutterIInv == ASSUME IInv, UNCHANGED vars PROVE IInv'
<1>1. FlagsOK' /\ DataOK'
  BY DEF IInv, FlagsOK, DataOK, vars, childVars, ikeVars, timerVars, envVars
<1>2. Locking' /\ Cooling' /\ PeerSA' /\ Headers' /\ FailuresLeft'
  BY DEF IInv, Headers, Locking, OneExchangeAtATime, DispatcherLock, Holding, Cooling,
         NoRekeyWhileCooling, PeerSA, NextIKEAgreed, KeysKnown,
         FailuresLeft, vars, ikeVars, timerVars, envVars
<1>3. ChildPair'
  BY DEF IInv, ChildPair, KernelHoldsCurrentPair, vars, childVars, envVars
<1> QED
  BY <1>1, <1>2, <1>3 DEF IInv

(* Every step of the session and of its environment keeps IInv. *)
LEMMA StepIInv == IInv /\ [Next]_vars => IInv'
<1> SUFFICES ASSUME IInv, [Next]_vars PROVE IInv'
  OBVIOUS
<1>1. CASE UNCHANGED vars
  BY <1>1, StutterIInv
<1>2. CASE \E w \in Worker :
            \/ timerFires(w) \/ lock(w) \/ send(w) \/ failed(w)
            \/ handleCreateChildSAResp(w)
            \/ handleRekeyIKESAResp(w) \/ switchIKESA(w)
  BY <1>2, TimerFiresIInv, LockIInv, SendIInv, FailedIInv,
     HandleCreateChildSARespIInv, HandleRekeyIKESARespIInv, SwitchIKESAIInv
<1>3. CASE \/ peerDeletesIKE \/ ikeTimerReset \/ childTimerReset
           \/ cooldownEnds \/ peerDies
  BY <1>3, PeerDeletesIKEIInv, IKETimerResetIInv, ChildTimerResetIInv,
     CooldownEndsIInv, PeerDiesIInv
<1>4. CASE \/ handleIncomingCreateChildSA \/ HandleRekeyIKESARequest
           \/ \E spi \in SPI : handleDelete(spi)
           \/ \E g \in 0..MaxIKE : handleIncomingInformational(g)
  BY <1>4, HandleIncomingCreateChildSAIInv, HandleRekeyIKESARequestIInv,
     HandleDeleteIInv, HandleIncomingInformationalIInv
<1>5. CASE sendDPD \/ dpdAnswered \/ dpdTimeout
  BY <1>5, SendDPDIInv, DPDAnsweredIInv, DPDTimeoutIInv
<1> QED
  BY <1>1, <1>2, <1>3, <1>4, <1>5 DEF Next

(* The inductive invariant holds of every behaviour. *)
THEOREM RekeyInductive == Spec => []IInv
BY InitIInv, StepIInv, PTL DEF Spec
-----------------------------------------------------------------------------
(* The state of key rotation is always well formed; among other things no  *)
(* timer counts more than MaxFail failures in startIKESARekeyTimer and     *)
(* startChildSARekeyTimer, and no IKE SA beyond the one agreed is used.    *)
THEOREM RekeyTypeCorrect == Spec => []TypeOK
<1>1. IInv => TypeOK
  BY TypeHalves DEF IInv
<1> QED
  BY <1>1, RekeyInductive, PTL

(* rekeyMu lets one exchange of RekeyChildSA and RekeyIKESA run at a time, *)
(* however many expire events arrive.                                      *)
THEOREM ExchangesExclude == Spec => []OneExchangeAtATime
<1>1. IInv => OneExchangeAtATime
  BY DEF IInv, Locking
<1> QED
  BY <1>1, RekeyInductive, PTL

(* No worker passes the cooldown check and then sends while cooling.       *)
THEOREM CooldownHolds == Spec => []NoRekeyWhileCooling
<1>1. IInv => NoRekeyWhileCooling
  BY DEF IInv, Cooling
<1> QED
  BY <1>1, RekeyInductive, PTL

(* handleRekeyIKESAResp never leaves the session on the keys of an IKE SA  *)
(* the peer has deleted, once its own Delete exchange is over, and only a  *)
(* packet of another IKE SA makes decryptAndParse change SPIr away from    *)
(* the IKE SA of the keys.                                                 *)
THEOREM PeerKnowsIKESA == Spec => []IKESAKnownToPeer
<1>1. IInv => IKESAKnownToPeer
  BY DEF IInv, PeerSA, KeysKnown, Headers, IKESAKnownToPeer
<1> QED
  BY <1>1, RekeyInductive, PTL

(* Rekeys of either side, in any number and order, and Deletes of replaced *)
(* SAs, leave rekeyXFRMSA's kernel states equal to the pair in memory,     *)
(* until an installation fails or a pair is negotiated after the Delete of *)
(* the current one, which the kernel is not told of.                       *)
THEOREM KernelAgrees == Spec => []KernelHoldsCurrentPair
<1>1. IInv => KernelHoldsCurrentPair
  BY DEF IInv, ChildPair
<1> QED
  BY <1>1, RekeyInductive, PTL

(* The dispatcher's rekey and the response to ours are the only steps that *)
(* replace the pair, and ours gives rekeyMu back.                          *)
LEMMA StepRefusesCollision ==
    ASSUME IInv, [Next]_vars, spis' # spis, rekeyMu' = rekeyMu, NEW v \in Worker
    PROVE  pc[v] \notin Holding
<1>1. ASSUME NEW w \in Worker, handleCreateChildSAResp(w)
      PROVE  FALSE
  <2>1. pc[w] = "sent"
    BY <1>1 DEF handleCreateChildSAResp
  <2>2. rekeyMu = w
    BY <2>1 DEF IInv, Locking, OneExchangeAtATime, Holding
  <2>3. rekeyMu' = None
    BY <1>1 DEF handleCreateChildSAResp, childVars
  <2> QED
    BY <2>2, <2>3, ActorsApart
<1>2. CASE handleIncomingCreateChildSA
  <2>1. rekeyMu = None
    BY <1>2 DEF handleIncomingCreateChildSA
  <2> QED
    BY <2>1, ActorsApart DEF IInv, Locking, OneExchangeAtATime
<1>3. ASSUME NEW w \in Worker,
             \/ timerFires(w) \/ lock(w) \/ send(w) \/ failed(w)
             \/ handleRekeyIKESAResp(w) \/ switchIKESA(w)
      PROVE  FALSE
  BY <1>3 DEF timerFires, lock, send, failed, handleRekeyIKESAResp,
              switchIKESA, childVars
<1>4. CASE \/ peerDeletesIKE \/ ikeTimerReset \/ childTimerReset
           \/ cooldownEnds \/ peerDies \/ HandleRekeyIKESARequest
           \/ \E spi \in SPI : handleDelete(spi)
           \/ \E g \in 0..MaxIKE : handleIncomingInformational(g)
           \/ sendDPD \/ dpdAnswered \/ dpdTimeout
           \/ UNCHANGED vars
  BY <1>4 DEF peerDeletesIKE, ikeTimerReset, childTimerReset, cooldownEnds,
              peerDies, HandleRekeyIKESARequest, handleDelete,
              handleIncomingInformational, sendDPD,
              dpdAnswered, dpdTimeout, vars, childVars
<1> QED
  BY <1>1, <1>2, <1>3, <1>4 DEF Next

(* handleIncomingCreateChildSAParsed accepts a rekey of the peer only      *)
(* while none of ours is under way.                                        *)
THEOREM CollisionsAreRefused == Spec => CollisionRefused
<1>1. IInv /\ [Next]_vars =>
          [spis' # spis /\ rekeyMu' = rekeyMu =>
                \A w \in Worker : pc[w] \notin Holding]_vars
  BY StepRefusesCollision
<1> QED
  BY <1>1, RekeyInductive, PTL DEF Spec, CollisionRefused

(* A timer that ends the session has counted a failure to do so. *)
LEMMA ReturnsDown ==
    ASSUME DataOK, FailuresLeft, NEW w \in Worker, NEW ok \in BOOLEAN,
           returns(w, ok), pc[w] # "exit", down', ~down
    PROVE  failCount' # failCount
<1>1. CASE w \in Timer
  <2> DEFINE n == IF ok THEN 0 ELSE failCount[w] + 1
  <2>1. /\ failCount' = [failCount EXCEPT ![w] = n]
        /\ down' = (down \/ n >= MaxFail)
    BY <1>1 DEF returns
  <2>2. n >= MaxFail
    BY <2>1, Zenon
  <2> HIDE DEF n
  <2>3. failCount'[w] = n
    BY <1>1, <2>1 DEF DataOK
  <2>4. failCount[w] < MaxFail /\ failCount[w] \in Nat
    BY <1>1 DEF FailuresLeft, DataOK
  <2>5. n \in Nat
    BY <2>4 DEF n
  <2> QED
    BY <2>2, <2>3, <2>4, <2>5
<1>2. CASE w \notin Timer
  BY <1>2 DEF returns
<1> QED
  BY <1>1, <1>2

(* What ends a session without a failed rekey is a probe given up. *)
LEMMA StepProbeVerdict ==
    ASSUME IInv, [Next]_vars, down', ~down, failCount' = failCount
    PROVE  \/ ~peerUp \/ dpd.keys # ikeSA
           \/ pc["ikeTimer"] = "deleting" \/ disp = "locking"
           \/ strayed
<1>1. CASE dpdTimeout
  BY <1>1 DEF IInv, DataOK, PeerSA, KeysKnown, Headers, dpdTimeout, answerable
<1>2. ASSUME NEW w \in Worker, NEW ok \in BOOLEAN, returns(w, ok), pc[w] # "exit"
      PROVE  FALSE
  BY <1>2, ReturnsDown DEF IInv
<1>3. ASSUME NEW w \in Worker, lock(w)
      PROVE  FALSE
  <2>1. pc[w] # "exit" /\ (returns(w, FALSE) \/ returns(w, TRUE) \/ down' = down)
    BY <1>3 DEF lock
  <2> QED
    BY <2>1, <1>2
<1>4. ASSUME NEW w \in Worker, handleCreateChildSAResp(w)
      PROVE  FALSE
  <2>1. pc[w] # "exit" /\ (returns(w, TRUE) \/ down' = down)
    BY <1>4 DEF handleCreateChildSAResp
  <2> QED
    BY <2>1, <1>2
<1>5. ASSUME NEW w \in Worker, failed(w) \/ switchIKESA(w)
      PROVE  FALSE
  <2>1. pc[w] # "exit" /\ (returns(w, FALSE) \/ returns(w, TRUE))
    BY <1>5 DEF failed, switchIKESA
  <2> QED
    BY <2>1, <1>2
<1>6. ASSUME NEW w \in Worker,
             timerFires(w) \/ send(w) \/ handleRekeyIKESAResp(w)
      PROVE  FALSE
  BY <1>6 DEF timerFires, send, handleRekeyIKESAResp
<1>7. CASE \/ peerDeletesIKE \/ ikeTimerReset \/ childTimerReset
           \/ cooldownEnds \/ peerDies \/ HandleRekeyIKESARequest
           \/ handleIncomingCreateChildSA
           \/ \E spi \in SPI : handleDelete(spi)
           \/ \E g \in 0..MaxIKE : handleIncomingInformational(g)
           \/ sendDPD \/ dpdAnswered \/ UNCHANGED vars
  BY <1>7 DEF peerDeletesIKE, ikeTimerReset, childTimerReset, cooldownEnds,
              peerDies, HandleRekeyIKESARequest, handleIncomingCreateChildSA,
              handleDelete, handleIncomingInformational, sendDPD, dpdAnswered,
              vars
<1> QED
  BY <1>1, <1>3, <1>4, <1>5, <1>6, <1>7 DEF Next

(* StartDPD ends the session over a probe under the keys in use only if    *)
(* the peer is gone, outside the exceptions the property names.            *)
THEOREM ProbeVerdict == Spec => DPDTimeoutMeansDead
<1>1. IInv /\ [Next]_vars =>
          [down' /\ ~down /\ failCount' = failCount =>
                \/ ~peerUp \/ dpd.keys # ikeSA
                \/ pc["ikeTimer"] = "deleting" \/ disp = "locking"
                \/ strayed]_vars
  BY StepProbeVerdict
<1> QED
  BY <1>1, RekeyInductive, PTL DEF Spec, DPDTimeoutMeansDead
=============================================================================
