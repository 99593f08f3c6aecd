----------------------------- MODULE DataPlane -----------------------------
(***************************************************************************)
(* The kernel side of sessions (session.go, mobike.go, driver/): setting   *)
(* up the XFRM or TUN data plane call by call, any of which the kernel may *)
(* refuse, replacing the SAs in a rekey, moving them to other addresses    *)
(* (MOBIKE), and taking everything down again through s.netUndos and       *)
(* FlushByIP.  Actors: per session the goroutine in Connect, the goroutine *)
(* of a rekey and the one of an address update; they share the kernel,     *)
(* with each other and with the other sessions, and hold no common lock.   *)
(*                                                                         *)
(* Keys, algorithms, ports and MTU are left out, as are interface          *)
(* addresses and the routes of the interface's own table: the kernel       *)
(* removes both with the interface.  XFRMIfID is configured, so the        *)
(* policies of a session have the same key after a reauthentication.       *)
(***************************************************************************)
EXTENDS Naturals, Sequences, SequencesExt

CONSTANTS
    Session, Local, Gateway,      \* sessions, and addresses of either side
    None,
    MaxSPI, MaxMoves, MaxFail     \* bounds: SA pairs, address updates, refusals

ASSUME DataPlaneAssumption ==
    /\ {MaxSPI, MaxMoves, MaxFail} \subseteq Nat
    /\ None \notin Local \cup Gateway \cup [l : Local, r : Gateway]

VARIABLES
    sas,                \* kernel: SAs
    pol,                \* kernel: the template of each policy, or None
    link,               \* kernel: the interface, numbered by its index, 0: none
    rules,              \* kernel: policy routing rules
    mainRoutes,         \* kernel: sessions with routes in the main table
    mode,               \* cfg.DataplaneMode
    phase,              \* of Connect
    todo,               \* the calls the set-up still has to make
    undos,              \* s.netUndos
    sock,               \* addresses of s.socket
    xfrm,               \* s.xfrmLocalIP and s.xfrmRemoteIP, or None
    cur,                \* s.ChildSAOut and s.ChildSAIn, numbered as a pair
    xfrmPolicies,       \* s.xfrmPolicies: the pair in its templates, 0: empty
    rk,                 \* the goroutine inside rekeyXFRMSA
    mob,                \* the goroutine inside updateXFRMState
    spi, index, moves, fails,     \* numbers used, bounds
    failed,             \* history: what the kernel refused
    late,               \* history: rk or mob ran beside set-up or cleanup
    robbed,             \* history: another session's flush took an SA of this one
    reverted            \* history: an update wrote templates of an older pair

kernelVars == <<sas, pol, link, rules, mainRoutes>>
memVars == <<mode, sock, xfrm, cur, xfrmPolicies>>
histVars == <<late, robbed, reverted>>
vars == <<kernelVars, memVars, histVars, phase, todo, undos, rk, mob,
          spi, index, moves, fails, failed>>

Policy == {"out4", "in4", "fwd4", "out6", "in6"}
Optional == {"fwd4", "out6", "in6"}      \* their failure is only logged
Outbound == {"out4", "out6"}
Pair == [l : Local, r : Gateway]
Idle == [pc |-> "idle"]

(* An SA is [own, dir, n, src, dst], the template of a policy [n, src,     *)
(* dst], a rule [own, kind, table]; an undo is [op] with what op needs.    *)

XfrmSteps == <<"encap", "link", "saOut", "saIn", "out4", "in4", "fwd4", "out6",
               "in6", "up", "addr", "rules">>
TunSteps == <<"link", "up", "addr", "rules">>

Init ==
    /\ sas = {} /\ rules = {} /\ mainRoutes = {}
    /\ pol = [s \in Session |-> [p \in Policy |-> None]]
    /\ link = [s \in Session |-> 0]
    /\ mode \in [Session -> {"xfrmi", "tun"}]
    /\ phase = [s \in Session |-> "down"]
    /\ todo = [s \in Session |-> <<>>] /\ undos = todo
    /\ sock = [s \in Session |-> None] /\ xfrm = sock
    /\ cur = [s \in Session |-> 0] /\ xfrmPolicies = cur
    /\ rk = [s \in Session |-> Idle] /\ mob = rk
    /\ spi = 0 /\ index = 0 /\ moves = 0 /\ fails = 0
    /\ failed = [s \in Session |-> {}]
    /\ late = [s \in Session |-> FALSE] /\ robbed = late /\ reverted = late
-----------------------------------------------------------------------------
(* The kernel.  It identifies an SA by SPI and destination, a policy by    *)
(* direction, family and interface; updating a policy creates it, updating *)
(* an SA needs it to exist and keeps its addresses.                        *)
saOf(s, d, n, a) ==
    IF d = "out" THEN [own |-> s, dir |-> d, n |-> n, src |-> a.l, dst |-> a.r]
                 ELSE [own |-> s, dir |-> d, n |-> n, src |-> a.r, dst |-> a.l]
template(p, n, a) ==
    IF p \in Outbound THEN [n |-> n, src |-> a.l, dst |-> a.r]
    ELSE [n |-> IF p = "fwd4" THEN 0 ELSE n, src |-> a.r, dst |-> a.l]
same(x, y) == x.own = y.own /\ x.dir = y.dir /\ x.n = y.n /\ x.dst = y.dst
InstallSA(S, x) == S \cup {x}
DelSA(S, x) == {y \in S : ~same(x, y)}
InstallSP(P, s, p, n, a) == [P EXCEPT ![s][p] = template(p, n, a)]
DelSP(P, s, p) == [P EXCEPT ![s][p] = None]

(* Mutant: only the source address is compared. *)
FlushBySource(S, ip) == {y \in S : y.src # ip}
FlushByIP(S, ip) == {y \in S : y.src # ip /\ y.dst # ip}
FlushRules(R, s, t) ==
    {q \in R : ~(q.table = t \/ (q.own = s /\ q.kind \in {"iif4", "iif6"}))}

(* The kernel refuses the call c of s. *)
Refuse(s, c) ==
    /\ fails < MaxFail
    /\ fails' = fails + 1
    /\ failed' = [failed EXCEPT ![s] = @ \cup {c}]
Accept == UNCHANGED <<fails, failed>>
-----------------------------------------------------------------------------
(* Setting up: connectOnce calls setupXFRMDataPlane or setupDataPlane. *)
StartSetup(s, a) ==
    /\ phase[s] = "down" /\ spi < MaxSPI
    /\ spi' = spi + 1
    /\ cur' = [cur EXCEPT ![s] = spi + 1]
    /\ sock' = [sock EXCEPT ![s] = a]
    /\ phase' = [phase EXCEPT ![s] = "setup"]
    /\ todo' = [todo EXCEPT ![s] = IF mode[s] = "xfrmi" THEN XfrmSteps ELSE TunSteps]
    /\ late' = [late EXCEPT ![s] = @ \/ rk[s] # Idle \/ mob[s] # Idle]
    /\ UNCHANGED <<kernelVars, mode, xfrm, xfrmPolicies, robbed, reverted, undos, rk,
                   mob, index, moves, fails, failed>>

Doing(s, x) == phase[s] = "setup" /\ todo[s] # <<>> /\ Head(todo[s]) = x

(* On to the calls in rest; after the last one OnReady is called. *)
Proceed(s, rest) ==
    /\ todo' = [todo EXCEPT ![s] = rest]
    /\ phase' = [phase EXCEPT ![s] = IF rest = <<>> THEN "ready" ELSE "setup"]
    /\ UNCHANGED <<rk, mob, spi, moves, histVars>>
Done(s) == Proceed(s, Tail(todo[s]))

(* An error: the set-up stops and cleanupNetworkConfig runs, for XFRM once *)
(* or twice in a row, of which the second finds nothing to undo.  A TUN    *)
(* device is closed first; before it is up there is nothing to undo.       *)
Abort(s) ==
    /\ todo' = [todo EXCEPT ![s] = <<>>]
    /\ phase' = [phase EXCEPT ![s] = "cleaning"]
    /\ UNCHANGED <<rk, mob, spi, moves, histVars, memVars, index>>
CloseTUN(s) ==
    IF mode[s] = "tun"
    THEN link' = [link EXCEPT ![s] = 0] /\ mainRoutes' = mainRoutes \ {s}
    ELSE UNCHANGED <<link, mainRoutes>>

Register(s, u) == undos' = [undos EXCEPT ![s] = Append(@, u)]

(* An interface of that name is removed, then the new one is created. *)
AddLink(s) ==
    /\ Doing(s, "link") /\ Done(s) /\ Accept
    /\ index' = index + 1
    /\ link' = [link EXCEPT ![s] = index + 1]
    /\ mainRoutes' = mainRoutes \ {s}
    /\ IF mode[s] = "xfrmi" THEN Register(s, [op |-> "link"]) ELSE UNCHANGED undos
    /\ UNCHANGED <<sas, pol, rules, memVars>>
LinkRefused(s) ==
    /\ Doing(s, "link") /\ Refuse(s, "link") /\ Abort(s)
    /\ link' = [link EXCEPT ![s] = 0]
    /\ mainRoutes' = mainRoutes \ {s}
    /\ UNCHANGED <<sas, pol, rules, undos>>

(* Calls that leave nothing behind that outlives the interface. *)
Configure(s) ==
    /\ \E x \in {"encap", "up", "addr"} : Doing(s, x)
    /\ Done(s) /\ Accept
    /\ UNCHANGED <<kernelVars, memVars, undos, index>>

(* The addresses are remembered for rekeys once both SAs are installed. *)
AddSA(s, d) ==
    LET x == saOf(s, d, cur[s], sock[s]) IN
    /\ Doing(s, IF d = "out" THEN "saOut" ELSE "saIn") /\ Done(s) /\ Accept
    /\ sas' = InstallSA(sas, x)
    /\ Register(s, [op |-> "sa", sa |-> x])
    /\ xfrm' = IF d = "in" THEN [xfrm EXCEPT ![s] = sock[s]] ELSE xfrm
    /\ UNCHANGED <<pol, link, rules, mainRoutes, mode, sock, cur, xfrmPolicies, index>>

CachePolicies(s, p) ==
    xfrmPolicies' = IF p = "in6" THEN [xfrmPolicies EXCEPT ![s] = cur[s]]
                                 ELSE xfrmPolicies

AddSP(s, p) ==
    /\ Doing(s, p) /\ Done(s) /\ Accept /\ CachePolicies(s, p)
    /\ pol' = InstallSP(pol, s, p, cur[s], sock[s])
    /\ Register(s, [op |-> "sp", p |-> p])
    /\ UNCHANGED <<sas, link, rules, mainRoutes, mode, sock, xfrm, cur, index>>

(* A missing forward or IPv6 policy is not fatal; nothing is registered. *)
SkipSP(s, p) ==
    /\ p \in Optional
    /\ Doing(s, p) /\ Done(s) /\ Refuse(s, p) /\ CachePolicies(s, p)
    /\ UNCHANGED <<kernelVars, mode, sock, xfrm, cur, undos, index>>

(* applyNetworkConfigOnTUN: with policy routing, FlushRules is registered  *)
(* before the first rule is added.                                         *)
RegisterFlush(s) == Register(s, [op |-> "rules", table |-> link[s]])
ruleOf(s, k) == [own |-> s, kind |-> k, table |-> link[s]]
without(s, K) == {q \in rules : ~(q.own = s /\ q.kind \in K)}

AddInputRule(s) ==
    /\ Doing(s, "rules") /\ Proceed(s, <<"from", "table">>) /\ Accept
    /\ RegisterFlush(s)
    /\ rules' = without(s, {"iif4", "iif6"}) \cup {ruleOf(s, "iif4"), ruleOf(s, "iif6")}
    /\ UNCHANGED <<sas, pol, link, mainRoutes, memVars, index>>
(* The IPv4 rule may have been added before the IPv6 one is refused. *)
InputRuleRefused(s) ==
    /\ Doing(s, "rules") /\ Refuse(s, "rules") /\ Abort(s) /\ CloseTUN(s)
    /\ RegisterFlush(s)
    /\ \/ rules' = without(s, {"iif4"})
       \/ rules' = without(s, {"iif4", "iif6"}) \cup {ruleOf(s, "iif4")}
    /\ UNCHANGED <<sas, pol>>

(* Rules for the same source address are replaced. *)
AddRule(s) ==
    /\ Doing(s, "from") /\ Done(s) /\ Accept
    /\ rules' = without(s, {"from"}) \cup {ruleOf(s, "from")}
    /\ UNCHANGED <<sas, pol, link, mainRoutes, memVars, undos, index>>
RuleRefused(s) ==
    /\ Doing(s, "from") /\ Refuse(s, "from") /\ Abort(s) /\ CloseTUN(s)
    /\ rules' = without(s, {"from"})
    /\ UNCHANGED <<sas, pol, undos>>

(* Routes of other interfaces to the same P-CSCFs leave the main table. *)
CleanConflictRoutes(s) ==
    \E S \in SUBSET (mainRoutes \ {s}) : mainRoutes' = mainRoutes \ S

(* Routes go to the table of the interface. *)
AddRouteTable(s) ==
    /\ Doing(s, "table") /\ Done(s) /\ Accept
    /\ CleanConflictRoutes(s)
    /\ UNCHANGED <<sas, pol, link, rules, memVars, undos, index>>

(* Without policy routing the routes go to the main table. *)
FallBack(s) ==
    /\ Doing(s, "rules") /\ Proceed(s, <<"main">>) /\ Accept
    /\ UNCHANGED <<kernelVars, memVars, undos, index>>
AddRoute(s) ==
    /\ Doing(s, "main") /\ Done(s) /\ Accept
    /\ mainRoutes' = mainRoutes \cup {s}
    /\ Register(s, [op |-> "route"])
    /\ UNCHANGED <<sas, pol, link, rules, memVars, index>>

(* A fatal refusal of any other call. *)
Refused(s) ==
    /\ \E x \in {"encap", "saOut", "saIn", "out4", "in4", "up", "addr", "table", "main"} :
            Doing(s, x) /\ Refuse(s, x)
    /\ Abort(s) /\ CloseTUN(s)
    /\ UNCHANGED <<sas, pol, rules, undos>>
-----------------------------------------------------------------------------
(* Taking down: Shutdown, an error of the peer, or a reauthentication. *)
Leave(s) ==
    /\ phase[s] = "ready"
    /\ phase' = [phase EXCEPT ![s] = "cleaning"]
    /\ UNCHANGED <<kernelVars, memVars, histVars, todo, undos, rk, mob, spi, index,
                   moves, fails, failed>>

Effect(s, u) ==
    /\ sas' = IF u.op = "sa" THEN DelSA(sas, u.sa) ELSE sas
    /\ pol' = IF u.op = "sp" THEN DelSP(pol, s, u.p) ELSE pol
    /\ link' = IF u.op = "link" THEN [link EXCEPT ![s] = 0] ELSE link
    /\ rules' = IF u.op = "rules" THEN FlushRules(rules, s, u.table) ELSE rules
    /\ mainRoutes' = IF u.op \in {"route", "link"} THEN mainRoutes \ {s} ELSE mainRoutes

(* cleanupNetworkConfig, one s.netUndos entry at a time, the last first; *)
(* an error is logged and the next one is tried.                         *)
UndoLast(s) ==
    /\ phase[s] = "cleaning" /\ undos[s] # <<>>
    /\ undos' = [undos EXCEPT ![s] = Front(@)]
    /\ \/ Effect(s, Last(undos[s])) /\ Accept
       \/ Refuse(s, "undo") /\ UNCHANGED kernelVars
    /\ UNCHANGED <<memVars, histVars, phase, todo, rk, mob, spi, index, moves>>

(* ... and at last FlushByIP, whoever the SAs at that address belong to. *)
FlushSAs(s) ==
    /\ phase[s] = "cleaning" /\ undos[s] = <<>>
    /\ phase' = [phase EXCEPT ![s] = "down"]
    /\ \/ sas' = FlushByIP(sas, IF mode[s] = "xfrmi" /\ xfrm[s] # None
                                 THEN xfrm[s].l ELSE None) /\ Accept
       \/ sas' = sas /\ Refuse(s, "undo")
    /\ robbed' = [t \in Session |->
            robbed[t] \/ (t # s /\ \E x \in sas \ sas' : x.own = t)]
    /\ UNCHANGED <<pol, link, rules, mainRoutes, memVars, late, reverted, todo, undos,
                   rk, mob, spi, index, moves>>
-----------------------------------------------------------------------------
(* rekeyXFRMSA.  The session has switched to the new pair; rekeyMu keeps   *)
(* rekeys of a session apart, nothing keeps them apart from the cleanup.   *)
RekeyAnswered(s) ==
    /\ phase[s] = "ready" /\ mode[s] = "xfrmi" /\ rk[s] = Idle /\ spi < MaxSPI
    /\ spi' = spi + 1
    /\ cur' = [cur EXCEPT ![s] = spi + 1]
    /\ rk' = [rk EXCEPT ![s] =
            [pc |-> "del", a |-> xfrm[s], old |-> cur[s], new |-> spi + 1]]
    /\ UNCHANGED <<kernelVars, mode, sock, xfrm, xfrmPolicies, histVars, phase, todo,
                   undos, mob, index, moves, fails, failed>>

(* rk or mob of s touches the kernel. *)
Beside(s) ==
    /\ late' = [late EXCEPT ![s] = @ \/ phase[s] # "ready"]
    /\ UNCHANGED <<link, rules, mainRoutes, robbed, phase, todo, undos, spi, index, moves>>
RekeyStep(s, from, to) ==
    /\ rk[s].pc = from
    /\ rk' = [rk EXCEPT ![s] = IF to = "idle" THEN Idle ELSE [@ EXCEPT !.pc = to]]
    /\ Beside(s)
    /\ UNCHANGED <<mob, memVars, reverted>>

(* The old SAs are deleted; errors are ignored. *)
RekeyDelete(s) ==
    /\ RekeyStep(s, "del", "out")
    /\ \/ /\ sas' = {y \in sas : \A d \in {"out", "in"} :
                        ~same(y, saOf(s, d, rk[s].old, rk[s].a))}
          /\ Accept
       \/ sas' = sas /\ Refuse(s, "rekey")
    /\ UNCHANGED pol

(* The new ones are added, with the addresses read at the beginning. *)
RekeyAdd(s, d) ==
    /\ \/ /\ RekeyStep(s, d, IF d = "out" THEN "in" ELSE "sps") /\ Accept
          /\ sas' = InstallSA(sas, saOf(s, d, rk[s].new, rk[s].a))
       \/ RekeyStep(s, d, "idle") /\ Refuse(s, "rekey") /\ sas' = sas
    /\ UNCHANGED pol

(* Policies Q get templates naming pair n at the addresses a; the kernel  *)
(* may refuse one, which is logged at most.                               *)
Rewrite(s, Q, n, a, call) ==
    \E done \in {Q} \cup {Q \ {q} : q \in Q} :
        /\ pol' = [pol EXCEPT ![s] = [p \in Policy |->
                IF p \in done THEN template(p, n, a) ELSE pol[s][p]]]
        /\ IF done = Q THEN Accept ELSE Refuse(s, call)

(* Mutant: the IPv6 policies are forgotten. *)
RekeyIPv4SPs(s) ==
    /\ RekeyStep(s, "sps", "idle")
    /\ Rewrite(s, {"out4", "in4"}, rk[s].new, rk[s].a, "rekey")
    /\ UNCHANGED sas

RekeySPs(s) ==
    /\ RekeyStep(s, "sps", "idle")
    /\ Rewrite(s, Policy \ {"fwd4"}, rk[s].new, rk[s].a, "rekey")
    /\ UNCHANGED sas
-----------------------------------------------------------------------------
(* MOBIKE.  UpdateAddresses: the peer has confirmed and the new socket is  *)
(* bound and used from now on; until then an error changes nothing.        *)
UpdateAddresses(s, a) ==
    /\ phase[s] = "ready" /\ mob[s] = Idle /\ moves < MaxMoves
    /\ moves' = moves + 1
    /\ sock' = [sock EXCEPT ![s] = a]
    /\ mob' = IF mode[s] = "xfrmi" THEN [mob EXCEPT ![s] = [pc |-> "out", a |-> a]]
                                   ELSE mob
    /\ UNCHANGED <<kernelVars, mode, xfrm, cur, xfrmPolicies, histVars, phase, todo,
                   undos, rk, spi, index, fails, failed>>

(* An UPDATE_SA_ADDRESSES of the ePDG is applied with the addresses the    *)
(* socket has.                                                             *)
handleUpdateSAAddresses(s) ==
    /\ phase[s] = "ready" /\ mode[s] = "xfrmi" /\ mob[s] = Idle /\ moves < MaxMoves
    /\ moves' = moves + 1
    /\ mob' = [mob EXCEPT ![s] = [pc |-> "out", a |-> sock[s]]]
    /\ UNCHANGED <<kernelVars, memVars, histVars, phase, todo, undos, rk, spi, index,
                   fails, failed>>

MoveStep(s, from, to) ==
    /\ mob[s].pc = from
    /\ mob' = [mob EXCEPT ![s] = IF to = "idle" THEN Idle ELSE [@ EXCEPT !.pc = to]]
    /\ Beside(s)
    /\ UNCHANGED <<rk, mode, sock, cur, xfrmPolicies>>

(* updateXFRMState: the SA now in use is updated.  An error ends it, the   *)
(* remembered addresses staying as they were.                              *)
UpdateSA(s, d) ==
    LET x == saOf(s, d, cur[s], mob[s].a) IN
    /\ mob[s].pc = d
    /\ \/ /\ MoveStep(s, d, IF d = "out" THEN "in" ELSE "sps") /\ Accept
          /\ \E y \in sas : same(x, y)
       \/ /\ MoveStep(s, d, "idle")
          /\ \A y \in sas : ~same(x, y)
          /\ failed' = [failed EXCEPT ![s] = @ \cup {"move"}]
          /\ UNCHANGED fails
       \/ MoveStep(s, d, "idle") /\ Refuse(s, "move")
    /\ UNCHANGED <<sas, pol, xfrm, reverted>>

(* The policies of s.xfrmPolicies follow, then the remembered addresses. *)
UpdateSPs(s) ==
    /\ MoveStep(s, "sps", "idle")
    /\ Rewrite(s, Policy, xfrmPolicies[s], mob[s].a, "move")
    /\ xfrm' = [xfrm EXCEPT ![s] = mob[s].a]
    /\ reverted' = [reverted EXCEPT ![s] = xfrmPolicies[s] # cur[s]]
    /\ UNCHANGED sas

Next == \E s \in Session :
    \/ \E a \in Pair : StartSetup(s, a) \/ UpdateAddresses(s, a)
    \/ AddLink(s) \/ LinkRefused(s) \/ Configure(s) \/ Refused(s)
    \/ \E d \in {"out", "in"} : AddSA(s, d) \/ RekeyAdd(s, d) \/ UpdateSA(s, d)
    \/ \E p \in Policy : AddSP(s, p) \/ SkipSP(s, p)
    \/ AddInputRule(s) \/ InputRuleRefused(s) \/ AddRule(s) \/ RuleRefused(s)
    \/ AddRouteTable(s) \/ FallBack(s) \/ AddRoute(s)
    \/ Leave(s) \/ UndoLast(s) \/ FlushSAs(s)
    \/ RekeyAnswered(s) \/ RekeyDelete(s) \/ RekeySPs(s)
    \/ handleUpdateSAAddresses(s) \/ UpdateSPs(s)

Spec == Init /\ [][Next]_vars
-----------------------------------------------------------------------------
(* session.go:664: whatever stage the set-up had reached, and whatever     *)
(* rekeys and address updates did since, a session that is down has left   *)
(* nothing in the kernel: no SA, no rule, no route in the main table, no   *)
(* interface unless it is a TUN, no policy but one whose installation had  *)
(* failed at first.  This needs every deletion to succeed and no rekey or  *)
(* address update to be at work beside the cleanup.                        *)
NothingLeftBehind ==
    \A s \in Session :
        phase[s] = "down" /\ "undo" \notin failed[s] /\ ~late[s] =>
            /\ \A x \in sas : x.own # s
            /\ \A q \in rules : q.own # s
            /\ s \notin mainRoutes
            /\ mode[s] = "xfrmi" => link[s] = 0
            /\ \A p \in Policy : pol[s][p] # None => p \in failed[s]

(* The policies of a session that is up name the SAs it uses, at their     *)
(* addresses, and the kernel has these SAs, through rekeys and address     *)
(* updates in any order.  Excepted are refused calls, an address update    *)
(* that restored the templates of before a rekey, and a neighbour's flush. *)
TrafficPathIntact ==
    \A s \in Session :
        /\ mode[s] = "xfrmi" /\ phase[s] = "ready" /\ rk[s] = Idle /\ mob[s] = Idle
        /\ failed[s] = {} /\ ~late[s] /\ ~robbed[s] /\ ~reverted[s]
        => \A d \in {"out", "in"} :
            LET x == saOf(s, d, cur[s], xfrm[s]) IN
            /\ x \in sas
            /\ \A p \in Policy \ {"fwd4"} : (p \in Outbound <=> d = "out") =>
                    pol[s][p] = [n |-> x.n, src |-> x.src, dst |-> x.dst]
=============================================================================
