----------------------------- MODULE Proposals -----------------------------
(***************************************************************************)
(* The algorithms of the SAs: from the words of the configuration to the   *)
(* proposals of IKE_SA_INIT and IKE_AUTH (proposal_parse.go), through the  *)
(* choice of the ePDG to the suites the session installs (state_init.go,   *)
(* state_auth.go), to the proposals of the later rekeys (state_rekey.go,   *)
(* state_rekey_ike.go).                                                    *)
(*                                                                         *)
(* A proposal is a sequence of transforms, as AddTransform appends them.   *)
(* Its number, its SPI and its encoding are left out.                      *)
(***************************************************************************)
EXTENDS Integers, Sequences

Transform(type, id, keyLen) == [type |-> type, id |-> id, keyLen |-> keyLen]
Encr(id, keyLen) == Transform("encr", id, keyLen)
Integ(id) == Transform("integ", id, 0)
PRF(id) == Transform("prf", id, 0)
DH(group) == Transform("dh", group, 0)
ESN(id) == Transform("esn", id, 0)

ofType(proposal, type) == {i \in DOMAIN proposal : proposal[i].type = type}
isAEAD(id) == id \in {"gcm16", "gcm12", "gcm8"}

-----------------------------------------------------------------------------
(* The presets used when nothing is configured. *)
defaultIKE ==
    << <<Encr("gcm16", 256), PRF("sha384"), DH(15)>>,
       <<Encr("gcm16", 128), PRF("sha256"), DH(14)>>,
       <<Encr("cbc", 256), Integ("sha256"), PRF("sha256"), DH(14)>>,
       <<Encr("cbc", 128), Integ("sha256"), PRF("sha256"), DH(14)>>,
       <<Encr("cbc", 128), Integ("sha1"), PRF("sha1"), DH(2)>> >>

defaultESP ==
    << <<Encr("gcm16", 256), ESN(0)>>,
       <<Encr("gcm16", 128), ESN(0)>>,
       <<Encr("cbc", 128), Integ("sha256"), ESN(0)>>,
       <<Encr("cbc", 128), Integ("sha1"), ESN(0)>> >>

(* A configured proposal, split at its dashes: the word for the cipher,    *)
(* the words between, which name integrity algorithms and PRFs, and the    *)
(* word for the group.  Unknown stands for a word no table has.            *)
Unknown == "?"
parses(spec) ==
    /\ spec.encr.id # Unknown /\ spec.dh # 0
    /\ \A i \in 1..Len(spec.middle) : spec.middle[i].id # Unknown

defaultPRFFromInteg(id) == IF id = "none" THEN "sha256" ELSE id

(* Where no PRF is named, all words between name integrity algorithms, and *)
(* integStr is the last.                                                   *)
parseIKEProposal(spec, autoPRF) ==
    LET derived ==
            IF ofType(spec.middle, "prf") # {} THEN <<>>
            ELSE IF spec.middle = <<>> THEN <<PRF("sha256")>>
            ELSE IF autoPRF
              THEN <<PRF(defaultPRFFromInteg(spec.middle[Len(spec.middle)].id))>>
            ELSE <<>>
    IN <<spec.encr>> \o spec.middle \o derived \o <<DH(spec.dh)>>

(* A configured child proposal: of the words after the cipher only the     *)
(* first is looked at.                                                     *)
parsesESP(spec) ==
    /\ spec.encr.id # Unknown
    /\ spec.middle = <<>> \/ (spec.middle[1].type = "integ" /\ spec.middle[1].id # Unknown)
parseESPProposal(spec) ==
    <<spec.encr>> \o (IF spec.middle = <<>> THEN <<>> ELSE <<spec.middle[1]>>) \o <<ESN(0)>>

withoutPRF(proposal) ==
    LET filtered[n \in 0..Len(proposal)] ==
            IF n = 0 THEN <<>>
            ELSE IF proposal[n].type = "prf" THEN filtered[n - 1]
            ELSE Append(filtered[n - 1], proposal[n])
    IN filtered[Len(proposal)]

(* ParseIKEProposals as BuildIKESAInit calls it: an unknown word makes it  *)
(* fall back to the presets, and then AutoPRF does not matter.             *)
offerIKE(specs, autoPRF) ==
    IF specs = <<>>
      THEN [i \in DOMAIN defaultIKE |->
                IF autoPRF THEN defaultIKE[i] ELSE withoutPRF(defaultIKE[i])]
    ELSE IF \E i \in DOMAIN specs : ~parses(specs[i]) THEN defaultIKE
    ELSE [i \in DOMAIN specs |-> parseIKEProposal(specs[i], autoPRF)]

offerESP(specs, enableESN) ==
    LET proposals ==
            IF specs = <<>> \/ \E i \in DOMAIN specs : ~parsesESP(specs[i])
            THEN defaultESP
            ELSE [i \in DOMAIN specs |-> parseESPProposal(specs[i])]
    IN [i \in DOMAIN proposals |->
            proposals[i] \o (IF enableESN THEN <<ESN(1)>> ELSE <<>>)]

-----------------------------------------------------------------------------
(* The ePDG accepts one of the proposals and returns, of every type of     *)
(* transform in it, one.                                                   *)
NoTransform(type) == Transform(type, IF type \in {"dh", "esn"} THEN 0 ELSE "none", 0)
Picks(proposal, type) ==
    LET of == ofType(proposal, type)
    IN IF of = {} THEN {NoTransform(type)} ELSE {proposal[i] : i \in of}

Responses(offer) ==
    UNION {[encr : Picks(offer[i], "encr"), integ : Picks(offer[i], "integ"),
            prf : Picks(offer[i], "prf"), dh : Picks(offer[i], "dh"),
            esn : Picks(offer[i], "esn")] : i \in DOMAIN offer}

(* The groups NewDiffieHellman implements. *)
groups == {2, 14}

(* IKE_SA_INIT: the KE payload is always of group 14 at first; an ePDG     *)
(* that chose another answers INVALID_KE_PAYLOAD, and the retry needs that *)
(* group.  GetPRF knows no algorithm for a proposal without a PRF.         *)
ikeAccepted(c) == c.dh.id \in groups /\ c.prf.id # "none"

(* What handleIKESAInitResp keeps in s.ikeEncrID and its kin. *)
ikeSuite(c) ==
    [encr |-> c.encr.id, keyLen |-> c.encr.keyLen,
     integ |-> IF isAEAD(c.encr.id) THEN "none" ELSE c.integ.id,
     prf |-> c.prf.id, dh |-> c.dh.id]

(* The child SA of IKE_AUTH, which keeps the ESN choice too. *)
childSuite(c) ==
    [encr |-> c.encr.id, keyLen |-> c.encr.keyLen,
     integ |-> IF isAEAD(c.encr.id) THEN "none" ELSE c.integ.id,
     esn |-> c.esn.id]

-----------------------------------------------------------------------------
(* Mutant: the rekey takes the group every handshake starts with. *)
rekeyIKEOfferFixedGroup(suite) ==
    << <<Encr(suite.encr, suite.keyLen)>>
       \o (IF isAEAD(suite.encr) THEN <<>> ELSE <<Integ(suite.integ)>>)
       \o <<PRF(suite.prf), DH(14)>> >>

(* RekeyIKESA offers the suite in use. *)
rekeyIKEOffer(suite) ==
    << <<Encr(suite.encr, suite.keyLen)>>
       \o (IF isAEAD(suite.encr) THEN <<>> ELSE <<Integ(suite.integ)>>)
       \o <<PRF(suite.prf), DH(suite.dh)>> >>

(* RekeyChildSA offers two proposals of its own. *)
rekeyChildOffer(enableESN) ==
    LET esn == (IF enableESN THEN <<ESN(1)>> ELSE <<>>) \o <<ESN(0)>>
    IN << <<Encr("cbc", 128), Integ("sha256")>> \o esn,
          <<Encr("gcm16", 128)>> \o esn >>

-----------------------------------------------------------------------------
Ciphers == {Encr("cbc", 128), Encr("cbc", 256), Encr("gcm16", 256), Encr(Unknown, 0)}
Middles == {<<>>} \cup {<<m>> : m \in {Integ("sha1"), Integ("none"), PRF("sha384")}}
    \cup { <<Integ("sha256"), Integ("sha1")>>, <<Integ("sha256"), PRF("sha512")>> }
Specs == [encr : Ciphers, middle : Middles, dh : {0, 2, 14, 15}]
Configs == {<<>>} \cup {<<s>> : s \in Specs}

(* Whatever is configured and whatever the ePDG picks from the offer, the  *)
(* handshake can use the pick unless its group is not implemented or the   *)
(* configuration left the PRF out; and the suite it installs is one the    *)
(* IKE rekey offers again, so that an ePDG with a single policy accepts    *)
(* the rekey too.  (RekeyChildSA does not do the same: see                 *)
(* ChildSuiteOfferedAgain in ConnectProofs.)                               *)
EveryIKESuiteOfferedAgain ==
    \A specs \in Configs, autoPRF \in BOOLEAN :
        \A c \in Responses(offerIKE(specs, autoPRF)) :
            /\ ~ikeAccepted(c) =>
                c.dh.id = 15 \/ (~autoPRF /\ c.prf.id = "none")
            /\ ikeAccepted(c) =>
                \E d \in Responses(rekeyIKEOffer(ikeSuite(c))) :
                    ikeAccepted(d) /\ ikeSuite(d) = ikeSuite(c)
=============================================================================
