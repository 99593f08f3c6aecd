------------------------------ MODULE EAPAuth ------------------------------
(***************************************************************************)
(* The EAP conversation inside IKE_AUTH: Session.handleEAP                 *)
(* (state_auth.go) and the fast re-authentication context (eap/reauth.go)  *)
(* on one side, the AAA server behind the ePDG (external) on the other.    *)
(* A round is one answer of the server and what handleEAP does with it.    *)
(* The client's answer reaches the server with the next round, if at all.  *)
(*                                                                         *)
(* Key material is kept by origin: an MK is the AKA vector it was derived  *)
(* from, the method, and the order in which IK and CK were hashed; an MSK  *)
(* is the expansion, by the method's PRF, of an MK, or of what a fast      *)
(* re-authentication makes of the MK with counter and NONCE_S.             *)
(***************************************************************************)
EXTENDS Naturals

CONSTANTS
    MaxChallenges,   \* bound on the AKA vectors the server draws
    MaxRounds,       \* bound on the EAP rounds of one IKE_AUTH
    None             \* nil: no key, no vector, no packet

ASSUME EAPAssumption == MaxChallenges \in Nat /\ MaxRounds \in Nat

tryOrders == {0, 1}
Method == {"AKA", "AKAPrime"}
Vector == 0..MaxChallenges
MK == [method : Method, order : tryOrders, vector : Vector]

(* AKA' always hashes IK' before CK'. *)
derive(m, order, v) ==
    [method |-> m, order |-> IF m = "AKA" THEN order ELSE 0, vector |-> v]
(* SaveReauthData: the MK kept with a pseudonym is hashed IK first. *)
savedMK(m, v) == derive(m, 0, v)
expand(m, mk) == [prf |-> m, mk |-> mk, nonceS |-> FALSE]
(* RFC 4187, 7: the server hashes counter and NONCE_S with the MK first    *)
(* (RFC 5448 likewise, with K_re).                                         *)
reauthKey(m, mk) == [expand(m, mk) EXCEPT !.nonceS = TRUE]
samePseudonym(p, q) ==
    p # None /\ q # None /\ p.method = q.method /\ p.vector = q.vector

(* What the client last answered and the server has not yet processed. *)
answer(k, i, r) == [kind |-> k, id |-> i, res |-> r]
NoAnswer == answer("none", None, None)

VARIABLES
    msk,             \* s.MSK
    eapRand,         \* s.eapRand and s.eapAutn, as the vector they belong to
    eapRES,          \* s.eapRES, s.eapCK and s.eapIK, likewise
    fastReauthCtx,   \* s.fastReauthCtx: MK of the pseudonym, or None
    cfgReauthID,     \* cfg.FastReauthID, as the MK it stands for
    answered,        \* the client's last EAP response
    aaa              \* the server

clientEAP == <<msk, eapRand, eapRES, fastReauthCtx>>
eapVars == <<clientEAP, cfgReauthID, answered, aaa>>

(* The server: the order in which it hashes IK and CK, vectors drawn, the   *)
(* request it waits on, the identity it was given, the key and pseudonym it *)
(* holds, whether it has accepted the client, or challenged it, in this     *)
(* conversation.                                                            *)
Idle == [kind |-> "idle", method |-> "AKA", vector |-> None, nextID |-> FALSE]

(* NewSession and initFastReauthCtx: a pseudonym may come with the         *)
(* configuration (vector 0 is the one of the earlier session).             *)
EAPInit ==
    /\ msk = None
    /\ eapRand = None /\ eapRES = None
    /\ cfgReauthID \in {None} \cup {savedMK(m, 0) : m \in Method}
    /\ fastReauthCtx = cfgReauthID
    /\ answered = NoAnswer
    /\ \E order \in tryOrders :
         aaa = [order |-> order, drawn |-> 0, request |-> Idle, ident |-> None,
                key |-> None,
                pseudonym |-> IF cfgReauthID = None THEN None
                              ELSE derive(cfgReauthID.method, order, 0),
                accepted |-> FALSE, full |-> FALSE, rounds |-> 0]

(* IDi of the first IKE_AUTH carries cfg.FastReauthID if there is one; the *)
(* server starts a new conversation and may have forgotten the pseudonym.  *)
freshAAA ==
    {[aaa EXCEPT !.request = Idle, !.ident = cfgReauthID, !.key = None,
                 !.accepted = FALSE, !.full = FALSE, !.rounds = 0,
                 !.pseudonym = p] : p \in {aaa.pseudonym, None}}

(* The server takes in the client's last answer.  A response to a          *)
(* challenge counts if its RES belongs to the vector that was sent, one to *)
(* a re-authentication if its MAC is keyed for the pseudonym.              *)
aaaReceives(a) ==
    LET r == a.request  mk == derive(r.method, a.order, r.vector) IN
    CASE answered.kind = "identity" -> [a EXCEPT !.ident = answered.id]
      [] answered.kind = "result" /\ r.kind = "challenge" /\ answered.res = r.vector ->
           [a EXCEPT !.key = expand(r.method, mk), !.accepted = TRUE,
                     !.pseudonym = IF r.nextID THEN mk ELSE @]
      [] answered.kind = "result" /\ r.kind = "reauth"
            /\ samePseudonym(answered.id, a.pseudonym) ->
           [a EXCEPT !.key = reauthKey(r.method, a.pseudonym), !.accepted = TRUE]
      [] OTHER -> a

(* The server sends request r after taking in the last answer. *)
ServerSends(r) ==
    /\ aaa.rounds < MaxRounds
    /\ aaa' = [aaaReceives(aaa) EXCEPT !.request = r, !.rounds = @ + 1]
    /\ UNCHANGED cfgReauthID

Respond(a) == answered' = a

(* EAP-Request/Identity, and AKA-Identity with AT_ANY_ID_REQ: the          *)
(* pseudonym if there is one.  Other AKA-Identity requests: the permanent  *)
(* identity.                                                               *)
IdentityRequest ==
    /\ ServerSends(Idle)
    /\ \E wanted \in {"any", "permanent"} :
         Respond(answer("identity",
                        IF wanted = "any" THEN fastReauthCtx ELSE None, None))
    /\ UNCHANGED clientEAP

(* A challenge of either method draws the next vector and starts over. *)
challenge(m, withID) == [kind |-> "challenge", method |-> m,
                         vector |-> aaa.drawn + 1, nextID |-> withID]
SendChallenge(m, withID) ==
    /\ aaa.drawn < MaxChallenges /\ aaa.rounds < MaxRounds
    /\ aaa' = [aaaReceives(aaa) EXCEPT !.request = challenge(m, withID),
                                       !.drawn = @ + 1, !.rounds = @ + 1,
                                       !.full = TRUE,
                                       !.accepted = FALSE, !.key = None]
    /\ UNCHANGED cfgReauthID

(* Mutant: RES, CK and IK are not stored. *)
ChallengeAKAWithoutRES ==
    \E withID \in BOOLEAN : LET v == aaa.drawn + 1 IN
      /\ SendChallenge("AKA", withID)
      /\ eapRand' = v
      /\ msk' = expand("AKA", derive("AKA", aaa.order, v))
      /\ fastReauthCtx' = IF withID THEN savedMK("AKA", v) ELSE fastReauthCtx
      /\ Respond(answer("result", None, v))
      /\ UNCHANGED eapRES

(* Mutant: the MSK is the one of the first order tried. *)
ChallengeAKAFirstOrder ==
    \E withID \in BOOLEAN : LET v == aaa.drawn + 1 IN
      /\ SendChallenge("AKA", withID)
      /\ eapRand' = v /\ eapRES' = v
      /\ msk' = expand("AKA", derive("AKA", 0, v))
      /\ fastReauthCtx' = IF withID THEN savedMK("AKA", v) ELSE fastReauthCtx
      /\ Respond(answer("result", None, v))

(* The SIM accepts.  MSK and K_aut are of the order under which AT_MAC      *)
(* verifies, or of the first one if cfg.EAPMACValidation is off; with a     *)
(* wrong K_aut the server does not accept the response.  The pseudonym's    *)
(* MK is always hashed IK first.                                            *)
ChallengeAKA ==
    \E withID \in BOOLEAN, order \in {0, aaa.order} : LET v == aaa.drawn + 1 IN
      /\ SendChallenge("AKA", withID)
      /\ eapRand' = v /\ eapRES' = v
      /\ msk' = expand("AKA", derive("AKA", order, v))
      /\ fastReauthCtx' = IF withID THEN savedMK("AKA", v) ELSE fastReauthCtx
      /\ Respond(answer(IF order = aaa.order THEN "result" ELSE "other", None, v))

(* AKA': one derivation only. *)
ChallengeAKAPrime ==
    \E withID \in BOOLEAN : LET v == aaa.drawn + 1 IN
      /\ SendChallenge("AKAPrime", withID)
      /\ eapRand' = v /\ eapRES' = v
      /\ msk' = expand("AKAPrime", derive("AKAPrime", 0, v))
      /\ fastReauthCtx' = IF withID THEN savedMK("AKAPrime", v) ELSE fastReauthCtx
      /\ Respond(answer("result", None, v))

(* The SIM reports ErrSyncFailure: RAND and AUTN are already stored, and   *)
(* buildEAPSyncFailure answers with AUTS.                                  *)
ChallengeOutOfSync ==
    \E m \in Method :
      /\ SendChallenge(m, FALSE)
      /\ eapRand' = aaa.drawn + 1
      /\ Respond(answer("other", None, None))
      /\ UNCHANGED <<msk, eapRES, fastReauthCtx>>

(* Instead of a challenge, the server re-authenticates a client that named *)
(* its current pseudonym.  The client expands the MK it kept with the PRF  *)
(* of the request's method, without counter and NONCE_S, and keys the MAC  *)
(* of its response with the K_aut it kept.                                 *)
Reauthentication ==
    LET a == aaaReceives(aaa) IN
    /\ ~a.full /\ samePseudonym(a.ident, a.pseudonym)
    /\ fastReauthCtx # None
    /\ ServerSends([Idle EXCEPT !.kind = "reauth", !.method = a.pseudonym.method])
    /\ msk' = expand(a.pseudonym.method, fastReauthCtx)
    /\ Respond(answer("result", fastReauthCtx, None))
    /\ UNCHANGED <<eapRand, eapRES, fastReauthCtx>>

(* AKA-Notification: answered, with a MAC if the P bit is clear (and       *)
(* refused, see EAPRefused, if K_aut for that MAC is missing).             *)
AKANotification ==
    /\ ServerSends(Idle)
    /\ Respond(answer("other", None, None))
    /\ UNCHANGED clientEAP

(* EAP Success ends the loop, whenever it comes. *)
EAPSuccess ==
    /\ ServerSends(Idle)
    /\ answered' = NoAnswer
    /\ UNCHANGED clientEAP

(* Messages on which handleEAP returns an error: Failure, unknown or       *)
(* malformed ones, and challenges.  RAND and AUTN are stored before the    *)
(* SIM is asked, RES, CK and IK before AT_MAC is verified, the keys after. *)
EAPRefused ==
    /\ answered' = NoAnswer
    /\ UNCHANGED <<msk, fastReauthCtx>>
    /\ \/ ServerSends(Idle) /\ UNCHANGED <<eapRand, eapRES>>
       \/ /\ \E m \in Method : SendChallenge(m, FALSE)
          /\ eapRand' = aaa.drawn + 1
          /\ eapRES' \in {eapRES, aaa.drawn + 1}

(* The response had no EAP payload: what follows depends on s.MSK. *)
NoEAPPayload ==
    /\ ServerSends(Idle)
    /\ answered' = NoAnswer
    /\ UNCHANGED clientEAP

EAPContinues ==
    \/ IdentityRequest \/ ChallengeAKA \/ ChallengeAKAPrime
    \/ ChallengeOutOfSync \/ Reauthentication \/ AKANotification
=============================================================================
