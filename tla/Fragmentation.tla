--------------------------- MODULE Fragmentation ---------------------------
(***************************************************************************)
(* IKE fragmentation on the receiving side: fragmentBuffer in fragment.go  *)
(* and the SKF branch of decryptAndParse in msg_handler.go, fed by         *)
(* ikeDispatchLoop.  The network reorders, duplicates and loses fragments; *)
(* the peer may send a message again, cut into more pieces.                *)
(*                                                                         *)
(* A message is known by its ID, the IKE SA it was encrypted under, and    *)
(* whether it answers a request of ours; its content is not looked at.     *)
(***************************************************************************)
EXTENDS Naturals, FiniteSets

CONSTANTS
    MsgID,
    Totals,       \* into how many fragments the peer may cut a message
    MaxPacket,    \* maxFragmentedPacket, in fragments
    MaxGen,       \* bound on IKE rekeys
    Kind,         \* which of {"request", "response"} the peer sends
    None

ASSUME TotalsAssumption == Totals \subseteq Nat \ {0, 1}
ASSUME LimitAssumption == MaxPacket \in Nat /\ MaxGen \in Nat
ASSUME KindAssumption == Kind \subseteq {"request", "response"}

Message == [id : MsgID, gen : 0..MaxGen, kind : Kind]
fragmentsOf(m, t) == {[msg |-> m, num |-> i, total |-> t] : i \in 1..t}

VARIABLES
    gen,        \* which IKE SA's keys the session decrypts with
    net,        \* fragments sent under these keys; any may arrive, repeatedly
    frags,      \* fragmentBuffer.frags: message ID -> [total, received] or None
    claimed,    \* responses whose request has left the window
    ikePending, \* s.ikePending: IDs of responses nobody claimed
    arrived,    \* history: request fragments decrypted under these keys
    assembled,  \* history: what reassemble returned last, or None
    parsed      \* history: messages whose payloads reached their handler

vars == <<gen, net, frags, claimed, ikePending, arrived, assembled, parsed>>

Init ==
    /\ gen = 0
    /\ net = {}
    /\ frags = [id \in MsgID |-> None]
    /\ claimed = {} /\ ikePending = {} /\ arrived = {}
    /\ assembled = None /\ parsed = {}

(* The peer sends or resends a message under its current IKE SA, cut into  *)
(* t pieces; only a smaller path MTU makes it cut into more.               *)
peerSends(m, t) ==
    /\ m.gen = gen
    /\ \A f \in net : f.msg = m => f.total < t
    /\ net' = net \cup fragmentsOf(m, t)
    /\ UNCHANGED <<gen, frags, claimed, ikePending, arrived, assembled,
                   parsed>>

(* Mutant: fragments of two cuts of one message share a set. *)
openSetMixed(f) ==
    LET fs == frags[f.msg.id]
    IN  IF fs = None THEN [total |-> f.total, received |-> <<>>]
        ELSE [fs EXCEPT !.total = f.total]

(* The fragmentSet that addFragment works on: a new one, or an emptied one *)
(* if the peer has cut the message into more pieces than before.           *)
openSet(f) ==
    LET fs == frags[f.msg.id]
    IN  IF fs = None \/ f.total > fs.total
        THEN [total |-> f.total, received |-> <<>>]
        ELSE fs

(* received[num] = f *)
store(received, f) ==
    [i \in DOMAIN received \cup {f.num} |->
        IF i = f.num THEN f ELSE received[i]]

(* Mutant: a complete set is not removed. *)
reassembleKeeps(id, fs) ==
    /\ assembled' = fs.received
    /\ frags' = [frags EXCEPT ![id] = fs]

(* reassemble: the pieces in order; the set is deleted. *)
reassemble(id, fs) ==
    /\ assembled' = fs.received
    /\ frags' = [frags EXCEPT ![id] = None]

(* addFragment and what decryptAndParse does with its result.  A fragment  *)
(* of a coarser cut is an error, a duplicate is ignored, a set that grows  *)
(* too large is dropped.  The last fragment to ARRIVE completes the set,   *)
(* and the payload type of the reassembled message is read from its        *)
(* header: only fragment 1 carries one.                                    *)
addFragment(f) ==
    LET id == f.msg.id
        fs == openSet(f)
        full == [fs EXCEPT !.received = store(@, f)]
    IN  \/ /\ f.total < fs.total \/ f.num \in DOMAIN fs.received
           /\ frags' = [frags EXCEPT ![id] = fs]
           /\ UNCHANGED <<assembled, parsed>>
        \/ /\ f.total = fs.total /\ f.num \notin DOMAIN fs.received
           /\ Cardinality(DOMAIN full.received) > MaxPacket
           /\ frags' = [frags EXCEPT ![id] = None]
           /\ UNCHANGED <<assembled, parsed>>
        \/ /\ f.total = fs.total /\ f.num \notin DOMAIN fs.received
           /\ Cardinality(DOMAIN full.received) <= MaxPacket
           /\ IF Cardinality(DOMAIN full.received) = fs.total
              THEN /\ reassemble(id, full)
                   /\ parsed' = IF f.num = 1 THEN parsed \cup {f.msg} ELSE parsed
              ELSE /\ frags' = [frags EXCEPT ![id] = full]
                   /\ UNCHANGED <<assembled, parsed>>

(* A fragment of a peer's request: the dispatcher decrypts it itself.      *)
receiveRequest(f) ==
    /\ f.msg.kind = "request" /\ f.msg.gen = gen
    /\ arrived' = arrived \cup {f}
    /\ addFragment(f)
    /\ UNCHANGED <<gen, net, claimed, ikePending>>

(* A fragment of a response: HandleResponse hands the first one that       *)
(* arrives to the waiting call, which decrypts it and goes on ...          *)
receiveResponse(f) ==
    /\ f.msg.kind = "response" /\ f.msg.gen = gen
    /\ f.msg \notin claimed
    /\ claimed' = claimed \cup {f.msg}
    /\ addFragment(f)
    /\ UNCHANGED <<gen, net, ikePending, arrived>>

(* ... and parks the others in ikePending. *)
parkResponse(f) ==
    /\ f.msg.kind = "response" /\ f.msg.gen = gen
    /\ f.msg \in claimed
    /\ ikePending' = ikePending \cup {f.msg.id}
    /\ UNCHANGED <<gen, net, frags, claimed, arrived, assembled, parsed>>

(* An IKE rekey: new keys, under which nothing sent before can be          *)
(* decrypted, message IDs from 0 again, fragmentBuf as it was.             *)
rekeyIKESA ==
    /\ gen < MaxGen
    /\ gen' = gen + 1
    /\ net' = {} /\ arrived' = {}
    /\ UNCHANGED <<frags, claimed, ikePending, assembled, parsed>>

Next ==
    \/ \E m \in Message, t \in Totals : peerSends(m, t)
    \/ \E f \in net : receiveRequest(f) \/ receiveResponse(f) \/ parkResponse(f)
    \/ rekeyIKESA

Spec == Init /\ [][Next]_vars
-----------------------------------------------------------------------------
(* What reassemble returns is complete and of one cut: a piece of a        *)
(* coarser cut never fills a place of a finer one, in whatever order, how  *)
(* often and from whatever resends the pieces came.                        *)
OneCutPerMessage ==
    assembled # None => \A i \in DOMAIN assembled :
        assembled[i].num = i /\ DOMAIN assembled = 1..assembled[i].total

(* A set that is complete does not stay behind: its message could be       *)
(* neither delivered nor received again, duplicates being ignored.         *)
NoCompleteSetStaysBehind ==
    \A id \in MsgID : frags[id] # None =>
        DOMAIN frags[id].received # 1..frags[id].total

(* README: a peer request that was fragmented is handled once all its      *)
(* fragments are there.                                                    *)
FragmentedRequestHandled ==
    \A m \in Message, t \in Totals :
        m.kind = "request" /\ fragmentsOf(m, t) \subseteq arrived
            /\ t <= MaxPacket /\ (\A f \in net : f.msg = m => f.total = t)
        => m \in parsed
=============================================================================
