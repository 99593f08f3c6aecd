------------------------------ MODULE Connect ------------------------------
(***************************************************************************)
(* Connection establishment (session.go): Connect runs connectOnce again   *)
(* after a REDIRECT or a reauthentication.  connectOnce opens a socket,    *)
(* tries session resumption (state_resume.go), then IKE_SA_INIT with its   *)
(* COOKIE and INVALID_KE_PAYLOAD retries (state_init.go, cookie.go), then  *)
(* IKE_AUTH with EAP (EAPAuth), and serves the session until it is         *)
(* stopped.  Three actors: the goroutine in Connect, the dispatcher        *)
(* goroutine (ikeDispatchLoop) that reads the socket and completes         *)
(* requests of the window, and the ePDG behind a network that loses,       *)
(* delays and, with the window's retransmissions, duplicates.              *)
(*                                                                         *)
(* The plaintext exchanges all have message ID 0 and are followed datagram *)
(* by datagram.  An IKE_AUTH exchange is one step: sendEncryptedWithRetry  *)
(* and s.SequenceNumber are the subject of IKERequests.                    *)
(***************************************************************************)
EXTENDS EAPAuth, Bags

CONSTANTS
    Group, DefaultGroup,          \* DH groups, the one tried first
    PeerGroup,                    \* the one ePDGs accept
    maxRedirects,                 \* of Connect
    maxCookieRetries,             \* of connectOnce
    MaxRetries,                   \* retransmissions per request
    MaxDemands,                   \* bound on COOKIE, INVALID_KE, REDIRECT and reauths
    MaxTickets                    \* bound on tickets issued

ASSUME ConnectAssumption ==
    /\ DefaultGroup \in Group /\ PeerGroup \in Group
    /\ {maxRedirects, maxCookieRetries, MaxRetries, MaxDemands,
        MaxTickets} \subseteq Nat

Nil == 0   \* of s.ni, s.DH, s.cookie, s.keRetryGroup and s.resumeTicket

VARIABLES
    pc,                 \* where Connect is
    redirectCount,      \* local of Connect
    sock,               \* s.socket, numbered
    sockOpen,           \* it has not been stopped
    disp,               \* ikeDispatchLoop: what it does and on which socket
    ni, dh, dhGroup,    \* s.ni, s.DH
    fresh,              \* random values drawn so far
    cookie, sendCookie, \* cookie: the nonce it was computed from
    cookieRetryCount,   \* s.cookieRetryCount
    cookieRetries,      \* local of connectOnce
    keRetryGroup,
    resumeTicket,       \* s.resumeTicket and s.resumeOldSKd, numbered
    hasPRF,             \* s.PRFAlg # nil
    await,              \* the request with ID 0 in the window, or None
    resent,             \* its retransmissions
    resp,               \* what the window handed back, or None
    toPeer, toUE,       \* datagrams in flight
    keys,               \* s.Keys: none, shared with the ePDG, mixed, or stale
    doneClosed,         \* s.done
    demands, tickets,   \* bounds
    repeatedCookie,     \* history: handleCookie saw a COOKIE before this one
    burnt               \* history: tickets a resumption failed with

saVars == <<ni, dh, dhGroup, fresh, cookie, sendCookie, cookieRetryCount,
            keRetryGroup, repeatedCookie>>
netVars == <<await, resent, resp, toPeer, toUE>>
localVars == <<pc, cookieRetries>>
keyVars == <<keys, hasPRF>>
ticketVars == <<resumeTicket, burnt, tickets>>
connVars == <<redirectCount, sock, sockOpen, doneClosed>>
vars == <<localVars, disp, demands, saVars, netVars, keyVars, ticketVars, connVars, eapVars>>

Waiting == {"resumeWait", "initWait"}
Encrypted == {"resumeAuth", "auth", "final"}
Ended == {"up", "returned", "panicked"}

(* A request is [type, sock, ni, dh, group, cookie] with a type of "init"  *)
(* or "resume"; a reply is [type, req], its type one of "cookie",          *)
(* "invalidKE", "redirect", "reject", "sa" and "resumed".                  *)

(* NewSession, then Connect; the configuration may bring a ticket. *)
Init ==
    /\ EAPInit
    /\ pc = "start" /\ redirectCount = 0
    /\ sock = 0 /\ sockOpen = FALSE /\ disp = [state |-> "off", sock |-> 0]
    /\ ni = Nil /\ dh = Nil /\ dhGroup = DefaultGroup /\ fresh = 0
    /\ cookie = Nil /\ sendCookie = FALSE
    /\ cookieRetryCount = 0 /\ cookieRetries = 0 /\ keRetryGroup = Nil
    /\ resumeTicket \in {Nil, 1} /\ tickets = resumeTicket /\ burnt = {}
    /\ hasPRF = FALSE /\ keys = "none"
    /\ await = None /\ resent = 0 /\ resp = None /\ toPeer = EmptyBag /\ toUE = EmptyBag
    /\ doneClosed = FALSE /\ demands = 0
    /\ repeatedCookie = FALSE

-----------------------------------------------------------------------------
(* The window and the dispatcher. *)

(* EnqueueRequest(0, ...) sends the packet at once. *)
Enqueue(d) ==
    /\ await' = d /\ resent' = 0 /\ resp' = None
    /\ toPeer' = toPeer (+) SetToBag({d})
    /\ UNCHANGED toUE

Retransmit ==
    /\ pc \in Waiting /\ await # None /\ resent < MaxRetries
    /\ resent' = resent + 1
    /\ toPeer' = toPeer (+) SetToBag({await})
    /\ UNCHANGED <<localVars, disp, demands, await, resp, toUE, saVars, keyVars, ticketVars,
                   connVars, eapVars>>

(* The dispatcher takes a packet from the socket it reads and hands it to   *)
(* the task manager of the moment, which goes by the message ID alone.      *)
Dispatch ==
    /\ disp.state = "recv"
    /\ \E r \in BagToSet(toUE) :
         /\ r.req.sock = disp.sock
         /\ toUE' = toUE (-) SetToBag({r})
         /\ resp' = IF await # None THEN r ELSE resp
    /\ await' = None
    /\ disp' = [disp EXCEPT !.state = "busy"]
    /\ UNCHANGED <<localVars, demands, resent, toPeer, saVars, keyVars, ticketVars, connVars,
                   eapVars>>

(* Back at the select, it reads the IKEPackets of whatever s.socket is. *)
Rearm ==
    /\ disp.state = "busy"
    /\ disp' = [state |-> "recv", sock |-> sock]
    /\ UNCHANGED <<localVars, demands, saVars, netVars, keyVars, ticketVars, connVars, eapVars>>

(* The channel of a stopped socket is closed: once drained, the loop ends. *)
DispatcherExit ==
    /\ disp.state = "recv"
    /\ disp.sock # sock \/ ~sockOpen
    /\ \A r \in BagToSet(toUE) : r.req.sock # disp.sock
    /\ disp' = [disp EXCEPT !.state = "exited"]
    /\ UNCHANGED <<localVars, demands, saVars, netVars, keyVars, ticketVars, connVars, eapVars>>

Goto(next) == pc' = next /\ UNCHANGED cookieRetries
Listening == disp.state = "recv" /\ disp.sock = sock

(* The ePDG (external) answers a datagram or ignores it.  It may ask for a *)
(* cookie computed from the nonce, for its DH group, or redirect.  (The    *)
(* SocketManager takes answers to IKE_SESSION_RESUME for ESP and they are  *)
(* lost; a transport of cfg.TransportFactory may deliver them.)            *)
reply(t, d) == [type |-> t, req |-> d]
Demand(t) == t \in {"cookie", "invalidKE", "redirect"}
mayReply(d, t) ==
    IF d.type = "resume" THEN t \in {"resumed", "reject"}
    ELSE CASE t = "cookie" -> d.cookie # d.ni
           [] t = "invalidKE" -> d.group # PeerGroup
           [] t = "sa" -> d.group = PeerGroup
           [] OTHER -> t \in {"redirect", "reject"}
PeerReplies ==
    \E d \in BagToSet(toPeer), t \in {"cookie", "invalidKE", "redirect", "reject", "sa", "resumed"} :
      /\ mayReply(d, t)
      /\ Demand(t) => demands < MaxDemands
      /\ demands' = IF Demand(t) THEN demands + 1 ELSE demands
      /\ toPeer' = toPeer (-) SetToBag({d})
      /\ toUE' = toUE (+) SetToBag({reply(t, d)})
      /\ UNCHANGED <<localVars, disp, await, resent, resp, saVars, keyVars, ticketVars, connVars,
                     eapVars>>

-----------------------------------------------------------------------------
(* Connect and connectOnce. *)

(* The bags that may be left of bag b. *)
partsOf(b) ==
    UNION {{p \in [S -> UNION {1..b[r] : r \in S}] : p \sqsubseteq b} :
               S \in SUBSET BagToSet(b)}

(* connectOnce returns: the deferred Stop closes the socket.  What already  *)
(* was in its channel can still be read during the next attempt.            *)
Leave(next) ==
    /\ pc' = next /\ sockOpen' = FALSE
    /\ await' = None /\ resent' = 0 /\ resp' = None /\ toPeer' = EmptyBag
    /\ cookieRetries' = 0
    /\ toUE' \in IF next = "start" THEN partsOf(toUE) ELSE {EmptyBag}

ReturnError ==
    /\ Leave("returned")
    /\ UNCHANGED <<redirectCount, sock, doneClosed>>

(* Connect on a RedirectError. *)
Redirected ==
    /\ Leave(IF redirectCount >= maxRedirects THEN "returned" ELSE "start")
    /\ redirectCount' = IF redirectCount >= maxRedirects THEN redirectCount
                                                       ELSE redirectCount + 1
    /\ UNCHANGED <<sock, doneClosed>>

(* The IKE_SA_INIT loop begins. *)
BeginSAInit == pc' = "initSend" /\ cookieRetries' = 0 /\ repeatedCookie' = FALSE

nonce == IF ni = Nil THEN fresh + 1 ELSE ni

(* performSessionResumption up to its first wait. *)
BeginResumption(s) ==
    /\ pc' = "resumeWait"
    /\ ni' = nonce /\ fresh' = IF ni = Nil THEN fresh + 1 ELSE fresh
    /\ Enqueue([type |-> "resume", sock |-> s, ni |-> nonce, dh |-> dh,
                group |-> dhGroup, cookie |-> Nil])
    /\ UNCHANGED <<dh, dhGroup, cookie, sendCookie, cookieRetryCount, cookieRetries,
                   keRetryGroup, repeatedCookie>>

(* A new task manager and socket; the dispatcher is started once. *)
StartAttempt ==
    /\ pc = "start"
    /\ sock' = sock + 1 /\ sockOpen' = TRUE
    /\ disp' = IF disp.state = "off" THEN [state |-> "recv", sock |-> sock + 1] ELSE disp
    /\ \/ resumeTicket # Nil /\ BeginResumption(sock + 1)
       \/ /\ resumeTicket = Nil /\ BeginSAInit
          /\ UNCHANGED <<netVars, ni, dh, dhGroup, fresh, cookie, sendCookie,
                         cookieRetryCount, keRetryGroup>>
    /\ UNCHANGED <<redirectCount, doneClosed, demands, keyVars, ticketVars,
                   eapVars>>

(* The socket cannot be bound. *)
BindFails ==
    /\ pc = "start" /\ Goto("returned")
    /\ UNCHANGED <<disp, demands, saVars, netVars, keyVars, ticketVars, connVars, eapVars>>

(* buildIKESAInitPacket draws what is missing and sends. *)
wantedGroup == IF keRetryGroup # Nil THEN keRetryGroup ELSE DefaultGroup
SendSAInit ==
    LET newDH == dh = Nil \/ dhGroup # wantedGroup
        key == IF newDH THEN fresh + 1 ELSE dh IN
    /\ pc = "initSend" /\ pc' = "initWait"
    /\ ni' = nonce /\ dh' = key /\ dhGroup' = wantedGroup
    /\ fresh' = IF ni = Nil \/ newDH THEN fresh + 1 ELSE fresh
    /\ Enqueue([type |-> "init", sock |-> sock, ni |-> nonce, dh |-> key,
                group |-> wantedGroup, cookie |-> IF sendCookie THEN cookie ELSE Nil])
    /\ UNCHANGED <<disp, demands, cookie, sendCookie, cookieRetryCount, cookieRetries,
                   keRetryGroup, repeatedCookie, keyVars, ticketVars, connVars, eapVars>>

(* Mutant: every COOKIE draws new key material. *)
HandleCookieRegenerates ==
    /\ pc = "initWait" /\ resp # None /\ resp.type = "cookie"
    /\ cookie' = resp.req.ni /\ sendCookie' = TRUE /\ ni' = Nil /\ dh' = Nil
    /\ repeatedCookie' = (repeatedCookie \/ cookieRetryCount >= 1)
    /\ cookieRetryCount' = cookieRetries + 1
    /\ cookieRetries + 1 <= maxCookieRetries
    /\ cookieRetries' = cookieRetries + 1
    /\ pc' = "initSend"
    /\ UNCHANGED <<disp, demands, netVars, connVars, dhGroup, fresh, keRetryGroup, keyVars,
                   ticketVars, eapVars>>

(* handleCookie looks at the count of earlier COOKIEs before connectOnce    *)
(* updates it.                                                              *)
HandleCookie ==
    /\ pc = "initWait" /\ resp # None /\ resp.type = "cookie"
    /\ cookie' = resp.req.ni /\ sendCookie' = TRUE
    /\ IF cookieRetryCount >= 1
         THEN ni' = Nil /\ dh' = Nil /\ repeatedCookie' = TRUE
         ELSE UNCHANGED <<ni, dh, repeatedCookie>>
    /\ cookieRetryCount' = cookieRetries + 1
    /\ \/ cookieRetries + 1 > maxCookieRetries /\ ReturnError
       \/ /\ cookieRetries + 1 <= maxCookieRetries
          /\ cookieRetries' = cookieRetries + 1
          /\ pc' = "initSend" /\ UNCHANGED <<netVars, connVars>>
    /\ UNCHANGED <<disp, demands, dhGroup, fresh, keRetryGroup, keyVars, ticketVars, eapVars>>

(* INVALID_KE_PAYLOAD names the group to retry with. *)
HandleInvalidKE ==
    /\ pc = "initWait" /\ resp # None /\ resp.type = "invalidKE"
    /\ keRetryGroup' = PeerGroup
    /\ pc' = "initSend"
    /\ UNCHANGED <<disp, demands, ni, dh, dhGroup, fresh, cookie, sendCookie,
                   cookieRetryCount, repeatedCookie, cookieRetries, netVars, keyVars,
                   ticketVars, connVars, eapVars>>

(* REDIRECT, or anything else that ends connectOnce. *)
HandleInitRefused ==
    /\ pc = "initWait" /\ resp # None
    /\ \/ resp.type = "redirect" /\ Redirected
       \/ resp.type \in {"reject", "resumed"} /\ ReturnError
    /\ UNCHANGED <<disp, demands, saVars, keyVars, ticketVars, eapVars>>

(* Both sides have the same keys if the answer came from this socket and is *)
(* to what the session now holds.  With the answer, ID 0 leaves the window: *)
(* what else is in flight with it no longer matters to this attempt.        *)
NewKeys(sameMaterial) ==
    /\ keys' = CASE resp.req.sock # sock -> "stale"
                 [] resp.req.sock = sock /\ sameMaterial -> "shared"
                 [] OTHER -> "mixed"
    /\ await' = None /\ resent' = 0 /\ resp' = None /\ toPeer' = EmptyBag /\ toUE' = EmptyBag

HandleSAInitResp ==
    /\ pc = "initWait" /\ resp # None /\ resp.type = "sa"
    /\ NewKeys(resp.req.ni = ni /\ resp.req.dh = dh)
    /\ hasPRF' = TRUE /\ sendCookie' = FALSE
    /\ pc' = "auth" /\ aaa' \in freshAAA /\ answered' = NoAnswer
    /\ cookieRetries' = 0
    /\ UNCHANGED <<disp, demands, ni, dh, dhGroup, fresh, cookie, cookieRetryCount,
                   keRetryGroup, repeatedCookie, ticketVars, connVars, clientEAP, cfgReauthID>>

(* The window gives up: ErrWindowTimeout. *)
InitTimeout ==
    /\ pc = "initWait" /\ await # None /\ resent = MaxRetries
    /\ ReturnError
    /\ UNCHANGED <<disp, demands, saVars, keyVars, ticketVars, eapVars>>

-----------------------------------------------------------------------------
(* Session resumption. *)

(* Mutant: the ticket is kept. *)
FallBackWithTicket ==
    /\ BeginSAInit
    /\ burnt' = burnt \cup {resumeTicket}
    /\ await' = None
    /\ UNCHANGED <<demands, ni, dh, dhGroup, fresh, cookie, sendCookie, cookieRetryCount,
                   keRetryGroup, resent, resp, toPeer, toUE, resumeTicket, tickets, connVars,
                   eapVars>>

(* performSessionResumption returns an error: the ticket is given up and    *)
(* the full handshake begins on the same socket.                            *)
FallBack ==
    /\ BeginSAInit
    /\ burnt' = burnt \cup {resumeTicket} /\ resumeTicket' = Nil
    /\ await' = None
    /\ UNCHANGED <<demands, ni, dh, dhGroup, fresh, cookie, sendCookie, cookieRetryCount,
                   keRetryGroup, resent, resp, toPeer, toUE, tickets, connVars, eapVars>>

(* Mutant: the closed channel of the window is ignored. *)
ResumeFailsAnswered ==
    /\ pc = "resumeWait"
    /\ resp # None /\ (resp.type # "resumed" \/ ~hasPRF)
    /\ FallBack
    /\ UNCHANGED <<disp, keyVars>>

(* The window gave up, or the answer is refused. *)
ResumeFails ==
    /\ pc = "resumeWait"
    /\ \/ await # None /\ resent = MaxRetries
       \/ resp # None /\ (resp.type # "resumed" \/ ~hasPRF)
    /\ FallBack
    /\ UNCHANGED <<disp, keyVars>>

ResumeAnswered ==
    /\ pc = "resumeWait" /\ resp # None /\ resp.type = "resumed" /\ hasPRF
    /\ NewKeys(resp.req.ni = ni)
    /\ Goto("resumeAuth")
    /\ UNCHANGED <<disp, demands, hasPRF, saVars, ticketVars, connVars, eapVars>>

(* An encrypted exchange succeeds if both sides hold the same keys and the *)
(* dispatcher reads the socket.                                            *)
Exchange ==
    /\ keys = "shared" /\ Listening
    /\ disp' = [disp EXCEPT !.state = "busy"]

(* handleIKEAuthFinalResp keeps a ticket that comes with the response,      *)
(* whatever else the response says.                                         *)
KeepTicket ==
    /\ \E issued \in {FALSE, tickets < MaxTickets} :
         /\ tickets' = IF issued THEN tickets + 1 ELSE tickets
         /\ resumeTicket' = IF issued THEN tickets + 1 ELSE resumeTicket
    /\ UNCHANGED burnt

(* sendIkeAuthChildless: the child SA, or anything else (EAP, a REDIRECT,   *)
(* an error, no answer), which makes connectOnce fall back.                 *)
ResumeAuth ==
    /\ pc = "resumeAuth" /\ Exchange
    /\ \/ /\ Goto("up") /\ KeepTicket
          /\ UNCHANGED <<demands, saVars, netVars, connVars, eapVars>>
       \/ FallBack
    /\ UNCHANGED keyVars

ResumeAuthTimeout ==
    /\ pc = "resumeAuth" /\ FallBack /\ UNCHANGED <<disp, keyVars>>

-----------------------------------------------------------------------------
(* IKE_AUTH.  The EAP actions take in the server's part of the exchange.   *)

(* The data plane is set up, or fails. *)
Established ==
    /\ KeepTicket
    /\ \/ Goto("up") /\ UNCHANGED <<netVars, connVars>>
       \/ ReturnError

(* The first handleIKEAuthFinalResp.  Any error, a RedirectError too, makes *)
(* connectOnce send the final AUTH, for which there must be an MSK.         *)
FirstFinalResp ==
    \/ aaa'.accepted /\ Established
    \/ /\ KeepTicket
       /\ IF msk = None THEN ReturnError ELSE Goto("final") /\ UNCHANGED <<netVars, connVars>>

AuthRound ==
    /\ pc = "auth" /\ Exchange
    /\ \/ /\ EAPContinues
          /\ UNCHANGED <<localVars, netVars, connVars, ticketVars>>
       \/ EAPSuccess /\ FirstFinalResp
       \/ EAPRefused /\ ReturnError /\ UNCHANGED ticketVars
       \/ /\ NoEAPPayload
          /\ IF msk = None THEN ReturnError /\ UNCHANGED ticketVars ELSE FirstFinalResp
    /\ UNCHANGED <<demands, saVars, keyVars>>

(* No answer, although the server may have taken in the request. *)
AuthTimeout ==
    /\ pc \in {"auth", "final"} /\ ReturnError
    /\ aaa' \in {aaa, aaaReceives(aaa)}
    /\ UNCHANGED <<disp, demands, saVars, keyVars, ticketVars, clientEAP, cfgReauthID,
                   answered>>

(* The final AUTH, keyed with s.MSK, and the second                         *)
(* handleIKEAuthFinalResp.  The server refuses a key that is not its own.   *)
Final ==
    /\ pc = "final" /\ Exchange
    /\ \/ /\ aaa.accepted /\ msk = aaa.key
          /\ \/ Established /\ UNCHANGED demands
             \/ /\ demands < MaxDemands /\ demands' = demands + 1
                /\ Redirected /\ KeepTicket
       \/ ReturnError /\ KeepTicket /\ UNCHANGED demands
    /\ UNCHANGED <<saVars, keyVars, eapVars>>

-----------------------------------------------------------------------------
(* The established session and its end. *)

(* Packets of the ePDG keep the dispatcher busy. *)
ServePacket ==
    /\ pc = "up" /\ Exchange
    /\ UNCHANGED <<localVars, demands, saVars, netVars, keyVars, ticketVars, connVars, eapVars>>

(* close(s.done) at the end of connectOnce: closing it twice panics. *)
CloseDone(next) ==
    /\ doneClosed' = TRUE
    /\ Leave(IF doneClosed THEN "panicked" ELSE next)

(* Reauthenticate: connectOnce sends a Delete and returns ErrReauth. *)
Reauth ==
    /\ pc = "up" /\ demands < MaxDemands /\ demands' = demands + 1
    /\ CloseDone("start")
    /\ redirectCount' = 0
    /\ UNCHANGED <<disp, sock, saVars, keyVars, ticketVars, eapVars>>

Shutdown ==
    /\ pc = "up" /\ CloseDone("returned")
    /\ UNCHANGED <<disp, demands, redirectCount, sock, saVars, keyVars,
                   ticketVars, eapVars>>

(* The context ends during the handshake.  A resumption is given up for it, *)
(* ticket included.                                                         *)
Cancel ==
    /\ pc \in Waiting \cup Encrypted /\ ReturnError
    /\ IF pc \in {"resumeWait", "resumeAuth"}
         THEN resumeTicket' = Nil /\ burnt' = burnt \cup {resumeTicket}
         ELSE UNCHANGED <<resumeTicket, burnt>>
    /\ UNCHANGED <<disp, demands, saVars, keyVars, tickets, eapVars>>

ClientStep ==
    \/ StartAttempt \/ BindFails \/ SendSAInit \/ HandleCookie \/ HandleInvalidKE
    \/ HandleInitRefused \/ HandleSAInitResp \/ InitTimeout \/ ResumeFails
    \/ ResumeAnswered \/ ResumeAuthTimeout \/ AuthTimeout

Next ==
    \/ ClientStep \/ ResumeAuth \/ AuthRound \/ Final
    \/ Retransmit \/ Dispatch \/ Rearm \/ DispatcherExit \/ PeerReplies
    \/ ServePacket \/ Reauth \/ Shutdown \/ Cancel

Spec == Init /\ [][Next]_vars

(* The goroutine in Connect goes on while it can, and the window's ticker   *)
(* retransmits until the budget is spent.  Nothing is asked of the ePDG,    *)
(* the network or the dispatcher.                                           *)
FairSpec == Spec /\ WF_vars(ClientStep \/ Retransmit)

-----------------------------------------------------------------------------
(* As long as nonce and DH key stay the same throughout an IKE_SA_INIT     *)
(* (handleCookie keeps them on the first COOKIE), it does not matter which *)
(* of the answers in flight on the socket of the attempt is handed over:   *)
(* the keys derived from it are the ePDG's.                                *)
SingleMaterialAgrees ==
    pc \in {"auth", "final"} /\ keys = "mixed" => repeatedCookie

(* A ticket with which resumption failed is never presented again, neither *)
(* to the next gateway nor after a reauthentication.                       *)
BurntTicketNotPresented ==
    pc \in {"resumeWait", "resumeAuth"} => resumeTicket \notin burnt

(* Whatever rounds led to it, lost answers, refused MACs, challenges and   *)
(* re-authentications of this attempt and of earlier ones, and whichever   *)
(* way the server hashes IK and CK (handleEAP tries both): if the server   *)
(* has accepted the client on a challenge, the final AUTH is keyed with    *)
(* the server's MSK.  After a fast re-authentication it is not: handleEAP  *)
(* derives that MSK without counter and NONCE_S.                           *)
FinalKeyAgrees == pc = "final" /\ aaa.accepted /\ aaa.full => msk = aaa.key

(* The RAND, RES, CK and IK that Status hands to IMS belong to one vector  *)
(* once the session is up, although handleEAP stores RAND before and the   *)
(* rest after the SIM's verdict.                                           *)
IMSTupleMatches == pc = "up" => eapRand = eapRES

(* Against an ePDG that makes finitely many demands, every attempt comes   *)
(* up or Connect returns, whatever the network and the dispatcher do.      *)
ConnectSettles == (pc \notin Ended) ~> (pc \in Ended)

(* session.go:339: the dispatcher has to be running before the first       *)
(* packet is sent, or its answer can not be received.                      *)
DispatcherBeforeFirstPacket ==
    pc = "initWait" => disp.state = "busy" \/ Listening
=============================================================================
