-------------------------- MODULE DataPlaneProofs --------------------------
(***************************************************************************)
(* TLAPS proofs about the kernel side of sessions, for any number of       *)
(* sessions, addresses, rekeys, address updates and refused calls, and     *)
(* about the routes for the traffic selectors, for addresses of any width. *)
(*                                                                         *)
(* The inductive invariant DInv accounts for what a session has in the     *)
(* kernel: every policy, rule, route and interface has its entry in        *)
(* s.netUndos, every SA has one too or has the address FlushByIP is called *)
(* with, and what setup did so far is what is no longer in todo.           *)
(* The case that needs the argument is an address update.  An update of an *)
(* SA can not move it, so the kernel finds the SA only where it already    *)
(* is: an update that gets as far as the policies has changed nothing, and *)
(* the remembered addresses still are those of every SA of the session.    *)
(***************************************************************************)
EXTENDS MCDataPlane, TLAPS, SequenceTheorems, FiniteSetTheorems, WellFoundedInduction

TunnelAddress == Local \cup Gateway
SA == [own : Session, dir : {"out", "in"}, n : Nat,
       src : TunnelAddress, dst : TunnelAddress]
Call == {"encap", "link", "saOut", "saIn", "up", "addr", "rules", "from", "table",
         "main"} \cup Policy
Refusal == Call \cup {"undo", "rekey", "move"}
Template == [n : Nat, src : TunnelAddress, dst : TunnelAddress]
Undo ==
    [op : {"link", "route"}] \cup [op : {"sa"}, sa : SA]
    \cup [op : {"sp"}, p : Policy] \cup [op : {"rules"}, table : Nat]
Rekeying == [pc : {"del", "out", "in", "sps"}, a : Pair, old : Nat, new : Nat]
Moving == [pc : {"out", "in", "sps"}, a : Pair]

KernelType ==
    /\ pol \in [Session -> [Policy -> Template \cup {None}]]
    /\ link \in [Session -> Nat] /\ index \in Nat

MemType ==
    /\ mode \in [Session -> {"xfrmi", "tun"}]
    /\ phase \in [Session -> {"down", "setup", "ready", "cleaning"}]
    /\ todo \in [Session -> Seq(Call)]
    /\ undos \in [Session -> Seq(Undo)]
    /\ sock \in [Session -> Pair \cup {None}]
    /\ xfrm \in [Session -> Pair \cup {None}]
    /\ cur \in [Session -> Nat] /\ xfrmPolicies \in [Session -> Nat]
    /\ spi \in Nat

TaskType ==
    /\ rk \in [Session -> {Idle} \cup Rekeying]
    /\ mob \in [Session -> {Idle} \cup Moving]

HistType ==
    /\ late \in [Session -> BOOLEAN] /\ robbed \in [Session -> BOOLEAN]
    /\ reverted \in [Session -> BOOLEAN]
    /\ failed \in [Session -> SUBSET Refusal]

DTypeOK == KernelType /\ MemType /\ TaskType /\ HistType

Left(s) == ToSet(todo[s])            \* calls the set-up of s has left
Undos(s) == ToSet(undos[s])
SACalls == {"saOut", "saIn"}

(* Every deletion succeeded, and no rekey or address update of s was at    *)
(* work beside its set-up or cleanup.                                      *)
Clean(s) == "undo" \notin failed[s] /\ ~late[s]

(* Where set-up, session and cleanup are. *)
Course(s) ==
    /\ phase[s] # "setup" => todo[s] = <<>>
    /\ \A i \in 1..Len(todo[s]) : todo[s][i] = "rules" => i = Len(todo[s])
    /\ "from" \in Left(s) =>
         "link" \notin Left(s) /\ [op |-> "rules", table |-> link[s]] \in Undos(s)
    /\ mode[s] = "tun" =>
         /\ Left(s) \cap (SACalls \cup Policy) = {}
         /\ rk[s] = Idle /\ mob[s] = Idle
    /\ phase[s] # "down" => sock[s] \in Pair
    /\ phase[s] = "down" => undos[s] = <<>>
    /\ \A u \in Undos(s) : u.op = "sa" => u.sa.own = s
    /\ phase[s] \in {"setup", "ready"} /\ mode[s] = "xfrmi" =>
         "saIn" \in Left(s) \/ xfrm[s] \in Pair
    /\ phase[s] = "setup" /\ Clean(s) => rk[s] = Idle /\ mob[s] = Idle

(* SAs: at the addresses of the socket while they are set up, then at the  *)
(* remembered ones, which an address update can not change under them.     *)
At(s, x, a) == x = saOf(s, x.dir, x.n, a) /\ x.dir \in {"out", "in"}
Home(x) == IF x.dir = "out" THEN x.src ELSE x.dst
Undoes(s, x) == \E u \in Undos(s) : u.op = "sa" /\ same(u.sa, x)

SAsKnown(s) ==
    Clean(s) =>
        /\ \A x \in sas : x.own = s =>
             /\ mode[s] = "xfrmi" /\ phase[s] # "down"
             /\ phase[s] = "setup" => At(s, x, sock[s]) /\ Undoes(s, x)
             /\ phase[s] = "ready" => At(s, x, xfrm[s])
             /\ phase[s] = "cleaning" =>
                  Undoes(s, x) \/ (xfrm[s] \in Pair /\ Home(x) = xfrm[s].l)
        /\ phase[s] = "setup" /\ mode[s] = "xfrmi" =>
             "saIn" \in Left(s) \/ xfrm[s] = sock[s]
        /\ phase[s] = "ready" =>
             /\ rk[s] # Idle => rk[s].a = xfrm[s]
             /\ mob[s].pc \in {"in", "sps"} => mob[s].a.r = xfrm[s].r
             /\ mob[s].pc = "sps" => mob[s].a = xfrm[s]

(* Everything else is registered before or with the call. *)
Registered(s) ==
    Clean(s) =>
        /\ \A p \in Policy :
             /\ pol[s][p] # None =>
                  p \in failed[s] \/ [op |-> "sp", p |-> p] \in Undos(s)
             /\ phase[s] \in {"setup", "ready"} /\ mode[s] = "xfrmi" =>
                  \/ p \in Left(s) \/ p \in failed[s]
                  \/ [op |-> "sp", p |-> p] \in Undos(s)
        /\ mode[s] = "xfrmi" /\ link[s] # 0 => [op |-> "link"] \in Undos(s)
        /\ s \in mainRoutes => [op |-> "route"] \in Undos(s)
        /\ \A q \in rules : q.own = s =>
             \E u \in Undos(s) :
                u.op = "rules" /\ (q.table = u.table \/ q.kind \in {"iif4", "iif6"})

(* No call failed at all, and nobody else's flush took an SA of s. *)
Sound(s) == failed[s] = {} /\ ~late[s] /\ ~robbed[s]

(* What traffic needs is there once the call that makes it is not left,    *)
(* and again after each rekey.                                             *)
Path(s) ==
    Sound(s) /\ mode[s] = "xfrmi" =>
        /\ phase[s] = "setup" =>
             /\ "saOut" \in Left(s) \/ saOf(s, "out", cur[s], sock[s]) \in sas
             /\ "saIn" \in Left(s) \/ saOf(s, "in", cur[s], sock[s]) \in sas
             /\ \A p \in Policy \ {"fwd4"} :
                  p \in Left(s) \/ pol[s][p] = template(p, cur[s], sock[s])
        /\ phase[s] = "ready" =>
             /\ rk[s].pc \notin {"del", "out"} =>
                  saOf(s, "out", cur[s], xfrm[s]) \in sas
             /\ rk[s].pc \notin {"del", "out", "in"} =>
                  saOf(s, "in", cur[s], xfrm[s]) \in sas
             /\ rk[s] # Idle => rk[s].new = cur[s]
             /\ rk[s] = Idle /\ ~reverted[s] =>
                  \A p \in Policy \ {"fwd4"} :
                     pol[s][p] = template(p, cur[s], xfrm[s])

Account(s) == Course(s) /\ SAsKnown(s) /\ Registered(s) /\ Path(s)

DInv == DTypeOK /\ \A s \in Session : Account(s)
-----------------------------------------------------------------------------
USE DataPlaneAssumption
    DEF kernelVars, memVars, histVars, KernelType, MemType, TaskType, HistType

LEMMA AppendFacts ==
    ASSUME NEW S, NEW q \in Seq(S), NEW u \in S
    PROVE  /\ Append(q, u) \in Seq(S)
           /\ ToSet(Append(q, u)) = ToSet(q) \cup {u}
<1>1. Len(q) \in Nat /\ DOMAIN q = 1..Len(q)
  OBVIOUS
<1>2. /\ Append(q, u) \in Seq(S) /\ Len(Append(q, u)) = Len(q) + 1
      /\ \A i \in 1..Len(q) : Append(q, u)[i] = q[i]
      /\ Append(q, u)[Len(q) + 1] = u
  BY AppendProperties
<1>3. DOMAIN Append(q, u) = 1..(Len(q) + 1)
  BY <1>2
<1> QED
  BY <1>1, <1>2, <1>3 DEF ToSet

LEMMA SequenceFacts ==
    ASSUME NEW S, NEW q \in Seq(S), q # <<>>
    PROVE  /\ Tail(q) \in Seq(S) /\ Head(q) = q[1] /\ Len(q) \in Nat \ {0}
           /\ ToSet(q) = ToSet(Tail(q)) \cup {Head(q)}
           /\ Len(Tail(q)) = Len(q) - 1
           /\ \A i \in 1..Len(Tail(q)) : Tail(q)[i] = q[i + 1]
           /\ Front(q) \in Seq(S) /\ Last(q) \in S
           /\ ToSet(q) = ToSet(Front(q)) \cup {Last(q)}
<1>1. Len(q) \in Nat /\ DOMAIN q = 1..Len(q) /\ \A i \in 1..Len(q) : q[i] \in S
  OBVIOUS
<1>2. Len(q) \in Nat \ {0}
  BY <1>1, EmptySeq
<1>3. /\ Tail(q) \in Seq(S) /\ Head(q) = q[1] /\ Len(q) \in Nat \ {0}
      /\ ToSet(q) = ToSet(Tail(q)) \cup {Head(q)}
      /\ Len(Tail(q)) = Len(q) - 1
      /\ \A i \in 1..Len(Tail(q)) : Tail(q)[i] = q[i + 1]
  <2>1. Len(q) \in Nat \ {0}
    BY <1>2
  <2>2. /\ Tail(q) \in Seq(S) /\ Len(Tail(q)) = Len(q) - 1
        /\ \A i \in 1..Len(Tail(q)) : Tail(q)[i] = q[i + 1]
    BY HeadTailProperties
  <2>3. Head(q) = q[1]
    OBVIOUS
  <2>4. DOMAIN Tail(q) = 1..(Len(q) - 1)
    BY <2>2
  <2>5. \A i \in 1..Len(q) : i = 1 \/ (i - 1 \in 1..(Len(q) - 1))
    BY <2>1
  <2>6. \A i \in 1..Len(q) : q[i] \in ToSet(Tail(q)) \cup {Head(q)}
    <3> TAKE i \in 1..Len(q)
    <3>1. CASE i = 1
      BY <2>3, <3>1
    <3>2. CASE i - 1 \in 1..(Len(q) - 1)
      <4>1. Tail(q)[i - 1] = q[(i - 1) + 1] /\ (i - 1) + 1 = i
        BY <2>2, <3>2
      <4> QED
        BY <2>4, <3>2, <4>1 DEF ToSet
    <3> QED
      BY <2>5, <3>1, <3>2
  <2>7. \A i \in 1..(Len(q) - 1) : Tail(q)[i] \in ToSet(q)
    <3> TAKE i \in 1..(Len(q) - 1)
    <3>1. Tail(q)[i] = q[i + 1] /\ i + 1 \in 1..Len(q)
      BY <2>1, <2>2
    <3> QED
      BY <1>1, <3>1 DEF ToSet
  <2>8. Head(q) \in ToSet(q)
    BY <1>1, <2>1, <2>3 DEF ToSet
  <2>9. ToSet(q) = ToSet(Tail(q)) \cup {Head(q)}
    BY <1>1, <2>4, <2>6, <2>7, <2>8 DEF ToSet
  <2> QED
    BY <2>1, <2>2, <2>3, <2>9
<1>4. /\ Front(q) \in Seq(S) /\ Last(q) \in S
      /\ ToSet(q) = ToSet(Front(q)) \cup {Last(q)}
  <2>1. Len(q) \in Nat \ {0}
    BY <1>2
  <2>2. /\ Front(q) \in Seq(S) /\ Len(Front(q)) = Len(q) - 1
        /\ \A i \in 1..(Len(q) - 1) : Front(q)[i] = q[i]
    <3>1. Front(q) = SubSeq(q, 1, Len(q) - 1)
      BY DEF Front
    <3>2. \A i \in 1..(Len(q) - 1) : q[i] \in S
      BY <1>1
    <3>3. 1 \in Int /\ Len(q) - 1 \in Int
      BY <1>1
    <3>4. /\ SubSeq(q, 1, Len(q) - 1) \in Seq(S)
          /\ Len(SubSeq(q, 1, Len(q) - 1)) =
               IF 1 <= Len(q) - 1 THEN Len(q) - 1 - 1 + 1 ELSE 0
          /\ \A i \in 1..(Len(q) - 1 - 1 + 1) :
               SubSeq(q, 1, Len(q) - 1)[i] = q[1 + i - 1]
      BY <3>2, <3>3, SubSeqProperties
    <3>5. /\ Len(q) - 1 - 1 + 1 = Len(q) - 1
          /\ (IF 1 <= Len(q) - 1 THEN Len(q) - 1 ELSE 0) = Len(q) - 1
          /\ \A i \in 1..(Len(q) - 1) : 1 + i - 1 = i
      <4>1. PICK n \in Nat \ {0} : n = Len(q)
        BY <2>1
      <4>2. /\ n - 1 - 1 + 1 = n - 1
            /\ (IF 1 <= n - 1 THEN n - 1 ELSE 0) = n - 1
            /\ \A i \in 1..(n - 1) : 1 + i - 1 = i
        OBVIOUS
      <4> QED
        BY <4>1, <4>2
    <3>6. Len(Front(q)) = Len(q) - 1
      BY <3>1, <3>4, <3>5
    <3>7. \A i \in 1..(Len(q) - 1) : Front(q)[i] = q[1 + i - 1]
      BY <3>1, <3>4, <3>5
    <3> QED
      BY <3>1, <3>4, <3>5, <3>6, <3>7
  <2>3. DOMAIN Front(q) = 1..(Len(q) - 1)
    BY <2>2
  <2>4. Last(q) = q[Len(q)] /\ Len(q) \in 1..Len(q)
    BY <2>1 DEF Last
  <2>5. \A i \in 1..Len(q) : i = Len(q) \/ i \in 1..(Len(q) - 1)
    BY <2>1
  <2>6. \A i \in 1..(Len(q) - 1) : i \in 1..Len(q)
    BY <2>1
  <2> QED
    BY <1>1, <2>2, <2>3, <2>4, <2>5, <2>6 DEF ToSet
<1> QED
  BY <1>3, <1>4

LEMMA IdleNotTask ==
    /\ Idle \notin Rekeying /\ Idle \notin Moving /\ Idle.pc = "idle"
    /\ \A r \in Rekeying : r.pc # "idle" /\ r # Idle
    /\ \A m \in Moving : m.pc # "idle" /\ m # Idle
BY DEF Idle, Rekeying, Moving

LEMMA InitDInv == Init => DInv
<1> SUFFICES ASSUME Init PROVE DInv
  OBVIOUS
<1>1. ToSet(<<>>) = {} /\ Len(<<>>) = 0
  BY DEF ToSet
<1>2. DTypeOK
  <2>1. pol \in [Session -> [Policy -> Template \cup {None}]]
    BY DEF Init
  <2>2. <<>> \in Seq(Call) /\ <<>> \in Seq(Undo)
    BY EmptySeq
  <2>3. /\ todo \in [Session -> Seq(Call)] /\ undos \in [Session -> Seq(Undo)]
    BY <2>2 DEF Init
  <2>4. HistType
    BY DEF Init
  <2> QED
    BY <2>1, <2>3, <2>4 DEF Init, DTypeOK
<1>3. ASSUME NEW s \in Session PROVE Account(s)
  <2>1. /\ phase[s] = "down" /\ todo[s] = <<>> /\ undos[s] = <<>>
        /\ rk[s] = Idle /\ mob[s] = Idle /\ sas = {} /\ rules = {}
        /\ mainRoutes = {} /\ link[s] = 0
        /\ \A p \in Policy : pol[s][p] = None
    BY DEF Init
  <2>2. Left(s) = {} /\ Undos(s) = {}
    BY <1>1, <2>1 DEF Left, Undos
  <2> QED
    BY <1>1, <2>1, <2>2 DEF Account, Course, SAsKnown, Registered, Path
<1> QED
  BY <1>2, <1>3 DEF DInv
-----------------------------------------------------------------------------
(* A step of session t, seen from session s. *)

Elsewhere(s) ==
    /\ UNCHANGED <<mode[s], phase[s], todo[s], undos[s], sock[s], xfrm[s],
                   cur[s], rk[s], mob[s], pol[s], link[s], late[s], failed[s],
                   reverted[s]>>
    /\ \A x \in sas' : x.own = s => x \in sas
    /\ \A q \in rules' : q.own = s => q \in rules
    /\ s \in mainRoutes' => s \in mainRoutes
    /\ robbed'[s] \/ (~robbed[s] /\ \A x \in sas : x.own = s => x \in sas')

LEMMA ElsewhereKeeps ==
    ASSUME NEW s \in Session, Account(s), Elsewhere(s)
    PROVE  Account(s)'
<1>1. /\ Left(s)' = Left(s) /\ Undos(s)' = Undos(s)
      /\ Clean(s)' <=> Clean(s)
      /\ \A x : Undoes(s, x)' <=> Undoes(s, x)
      /\ Sound(s)' => Sound(s)
  BY DEF Elsewhere, Left, Undos, Clean, Undoes, Sound
<1>2. Course(s)'
  BY <1>1 DEF Account, Course, Elsewhere
<1>3. SAsKnown(s)'
  BY <1>1 DEF Account, SAsKnown, Elsewhere, At
<1>4. Registered(s)'
  BY <1>1 DEF Account, Registered, Elsewhere
<1>5. Path(s)'
  <2> SUFFICES ASSUME Sound(s)', mode[s] = "xfrmi" PROVE Path(s)'
    BY DEF Path, Elsewhere
  <2>1. \A d, n, a : saOf(s, d, n, a) \in sas => saOf(s, d, n, a) \in sas'
    BY DEF Elsewhere, Sound, saOf
  <2> QED
    BY <1>1, <2>1 DEF Account, Path, Elsewhere
<1> QED
  BY <1>2, <1>3, <1>4, <1>5 DEF Account

SetupStep(t) ==
    \/ AddLink(t) \/ Configure(t)
    \/ \E d \in {"out", "in"} : AddSA(t, d)
    \/ \E p \in Policy : AddSP(t, p) \/ SkipSP(t, p)
    \/ AddInputRule(t) \/ AddRule(t) \/ AddRouteTable(t)
    \/ FallBack(t) \/ AddRoute(t)

AbortStep(t) ==
    LinkRefused(t) \/ InputRuleRefused(t) \/ RuleRefused(t) \/ Refused(t)

RekeyTask(t) ==
    \/ RekeyAnswered(t) \/ RekeyDelete(t)
    \/ \E d \in {"out", "in"} : RekeyAdd(t, d)
    \/ RekeySPs(t)

MoveTask(t) ==
    \/ \E a \in Pair : UpdateAddresses(t, a)
    \/ handleUpdateSAAddresses(t)
    \/ \E d \in {"out", "in"} : UpdateSA(t, d)
    \/ UpdateSPs(t)

LEMMA SetupElsewhere ==
    ASSUME DTypeOK, NEW s \in Session, NEW t \in Session \ {s}, SetupStep(t)
    PROVE  Elsewhere(s)
<1>1. CASE AddLink(t)
  BY <1>1 DEF AddLink, Done, Proceed, Accept, Register, Elsewhere, DTypeOK
<1>2. CASE Configure(t)
  BY <1>2 DEF Configure, Done, Proceed, Accept, Elsewhere, DTypeOK
<1>3. ASSUME NEW d \in {"out", "in"}, AddSA(t, d) PROVE Elsewhere(s)
  <2>1. /\ Done(t) /\ Accept
        /\ sas' = InstallSA(sas, saOf(t, d, cur[t], sock[t]))
        /\ Register(t, [op |-> "sa", sa |-> saOf(t, d, cur[t], sock[t])])
        /\ xfrm' = IF d = "in" THEN [xfrm EXCEPT ![t] = sock[t]] ELSE xfrm
        /\ UNCHANGED <<pol, link, rules, mainRoutes, mode, sock, cur>>
    BY <1>3 DEF AddSA
  <2>2. saOf(t, d, cur[t], sock[t]).own = t
    BY DEF saOf
  <2>3. /\ \A x \in sas' : x.own = s => x \in sas
        /\ \A x \in sas : x \in sas'
    BY <2>1, <2>2 DEF InstallSA
  <2> QED
    BY <2>1, <2>3 DEF Done, Proceed, Accept, Register, Elsewhere, DTypeOK
<1>4. ASSUME NEW p \in Policy, AddSP(t, p) \/ SkipSP(t, p)
      PROVE  Elsewhere(s)
  BY SMTT(30), <1>4 DEF AddSP, SkipSP, Done, Proceed, Accept, Refuse, Register,
              InstallSP, Elsewhere, DTypeOK
<1>5. CASE AddInputRule(t)
  BY SMTT(30), <1>5 DEF AddInputRule, Proceed, Accept, RegisterFlush,
     Register, without,
              ruleOf, Elsewhere, DTypeOK
<1>6. CASE AddRule(t)
  BY <1>6 DEF AddRule, Done, Proceed, Accept, without, ruleOf, Elsewhere,
              DTypeOK
<1>7. CASE AddRouteTable(t)
  BY <1>7 DEF AddRouteTable, CleanConflictRoutes, Done, Proceed, Accept,
              Elsewhere, DTypeOK
<1>8. CASE FallBack(t)
  BY <1>8 DEF FallBack, Proceed, Accept, Elsewhere, DTypeOK
<1>9. CASE AddRoute(t)
  BY <1>9 DEF AddRoute, Done, Proceed, Accept, Register, Elsewhere, DTypeOK
<1> QED
  BY <1>1, <1>2, <1>3, <1>4, <1>5, <1>6, <1>7, <1>8, <1>9 DEF SetupStep

LEMMA AbortElsewhere ==
    ASSUME DTypeOK, NEW s \in Session, NEW t \in Session \ {s}, AbortStep(t)
    PROVE  Elsewhere(s)
<1>1. CASE LinkRefused(t)
  BY <1>1 DEF LinkRefused, Refuse, Abort, Elsewhere, DTypeOK
<1>2. CASE InputRuleRefused(t)
  BY SMTT(30), <1>2 DEF InputRuleRefused, Refuse, Abort, CloseTUN,
     RegisterFlush,
              Register, without, ruleOf, Elsewhere, DTypeOK
<1>3. CASE RuleRefused(t)
  BY <1>3 DEF RuleRefused, Refuse, Abort, CloseTUN, without, Elsewhere, DTypeOK
<1>4. CASE Refused(t)
  BY SMTT(30), <1>4 DEF Refused, Refuse, Abort, CloseTUN, Elsewhere, DTypeOK
<1> QED
  BY <1>1, <1>2, <1>3, <1>4 DEF AbortStep

LEMMA DownElsewhere ==
    ASSUME DTypeOK, NEW s \in Session, NEW t \in Session \ {s}, Course(t),
           \/ \E a \in Pair : StartSetup(t, a)
           \/ Leave(t) \/ UndoLast(t) \/ FlushSAs(t)
    PROVE  Elsewhere(s)
<1>1. ASSUME NEW a \in Pair, StartSetup(t, a) PROVE Elsewhere(s)
  BY <1>1 DEF StartSetup, Elsewhere, DTypeOK
<1>2. CASE Leave(t)
  BY <1>2 DEF Leave, Elsewhere, DTypeOK
<1>3. CASE UndoLast(t)
  <2>1. /\ undos' = [undos EXCEPT ![t] = Front(@)]
        /\ UNCHANGED <<memVars, histVars, phase, todo, rk, mob>>
        /\ failed' = failed \/ failed' = [failed EXCEPT ![t] = @ \cup {"undo"}]
    BY <1>3 DEF UndoLast, Accept, Refuse
  <2>2. /\ \A x \in sas' : x.own = s => x \in sas
        /\ \A q \in rules' : q.own = s => q \in rules
        /\ s \in mainRoutes' => s \in mainRoutes
        /\ pol'[s] = pol[s] /\ link'[s] = link[s]
    <3>1. CASE Effect(t, Last(undos[t]))
      BY <3>1 DEF Effect, DelSA, DelSP, FlushRules, DTypeOK
    <3>2. CASE UNCHANGED kernelVars
      BY <3>2
    <3> QED
      BY <1>3, <3>1, <3>2 DEF UndoLast
  <2>3. \A x \in sas : x.own = s => x \in sas'
    <3>1. CASE UNCHANGED kernelVars
      BY <3>1
    <3>2. CASE Effect(t, Last(undos[t]))
      <4> DEFINE u == Last(undos[t])
      <4>1. CASE u.op = "sa"
        <5>1. undos[t] # <<>> /\ undos[t] \in Seq(Undo)
          BY <1>3 DEF UndoLast, DTypeOK
        <5>2. u \in Undo
          BY <5>1, SequenceFacts
        <5>3. u \in Undos(t)
          <6>1. ToSet(undos[t]) = ToSet(Front(undos[t])) \cup {u}
            BY <5>1, SequenceFacts
          <6> QED
            BY <6>1 DEF Undos
        <5>4. u.sa.own = t
          BY <4>1, <5>3 DEF Course
        <5> QED
          BY <3>2, <4>1, <5>4 DEF Effect, DelSA, same
      <4>2. CASE u.op # "sa"
        BY <3>2, <4>2 DEF Effect
      <4> QED
        BY <4>1, <4>2
    <3> QED
      BY <1>3, <3>1, <3>2 DEF UndoLast
  <2> QED
    BY <2>1, <2>2, <2>3 DEF Elsewhere, DTypeOK
<1>4. CASE FlushSAs(t)
  <2>1. /\ phase' = [phase EXCEPT ![t] = "down"]
        /\ \A x \in sas' : x \in sas
        /\ robbed' = [r \in Session |->
              robbed[r] \/ (r # t /\ \E x \in sas \ sas' : x.own = r)]
        /\ failed' = failed \/ failed' = [failed EXCEPT ![t] = @ \cup {"undo"}]
        /\ UNCHANGED <<pol, link, rules, mainRoutes, memVars, late, reverted,
                       todo, undos, rk, mob>>
    BY <1>4 DEF FlushSAs, FlushByIP, Accept, Refuse
  <2>2. robbed'[s] \/ (~robbed[s] /\ \A x \in sas : x.own = s => x \in sas')
    BY <2>1
  <2> QED
    BY <2>1, <2>2 DEF Elsewhere, DTypeOK
<1> QED
  BY <1>1, <1>2, <1>3, <1>4

LEMMA TaskElsewhere ==
    ASSUME DTypeOK, NEW s \in Session, NEW t \in Session \ {s},
           RekeyTask(t) \/ MoveTask(t)
    PROVE  Elsewhere(s)
<1>1. CASE RekeyAnswered(t)
  BY <1>1 DEF RekeyAnswered, Elsewhere, DTypeOK
<1>2. CASE RekeyDelete(t)
  BY <1>2 DEF RekeyDelete, RekeyStep, Beside, Accept, Refuse, same, saOf,
              Elsewhere, DTypeOK
<1>3. ASSUME NEW d \in {"out", "in"}, RekeyAdd(t, d) PROVE Elsewhere(s)
  BY SMTT(30), <1>3 DEF RekeyAdd, RekeyStep, Beside, Accept, Refuse,
     InstallSA, saOf,
              Elsewhere, DTypeOK
<1>4. CASE RekeySPs(t)
  BY <1>4 DEF RekeySPs, RekeyStep, Beside, Rewrite, Accept, Refuse, Elsewhere,
              DTypeOK
<1>5. CASE \E a \in Pair : UpdateAddresses(t, a)
  BY <1>5 DEF UpdateAddresses, Elsewhere, DTypeOK
<1>6. CASE handleUpdateSAAddresses(t)
  BY <1>6 DEF handleUpdateSAAddresses, Elsewhere, DTypeOK
<1>7. ASSUME NEW d \in {"out", "in"}, UpdateSA(t, d) PROVE Elsewhere(s)
  BY SMTT(30), <1>7 DEF UpdateSA, MoveStep, Beside, Accept, Refuse, Elsewhere, DTypeOK
<1>8. CASE UpdateSPs(t)
  BY <1>8 DEF UpdateSPs, MoveStep, Beside, Rewrite, Accept, Refuse, Elsewhere,
              DTypeOK
<1> QED
  BY <1>1, <1>2, <1>3, <1>4, <1>5, <1>6, <1>7, <1>8 DEF RekeyTask, MoveTask
-----------------------------------------------------------------------------
(* A step of session s, seen from s: first that the state keeps its type. *)

LEMMA KernelRecords ==
    ASSUME NEW s \in Session, NEW n \in Nat, NEW a \in Pair
    PROVE  /\ \A p \in Policy : template(p, n, a) \in Template
           /\ \A d \in {"out", "in"} :
                /\ saOf(s, d, n, a) \in SA
                /\ [op |-> "sa", sa |-> saOf(s, d, n, a)] \in Undo
           /\ \A p \in Policy : [op |-> "sp", p |-> p] \in Undo
           /\ [op |-> "link"] \in Undo /\ [op |-> "route"] \in Undo
           /\ [op |-> "rules", table |-> n] \in Undo
<1>1. a.l \in TunnelAddress /\ a.r \in TunnelAddress
  BY DEF Pair, TunnelAddress
<1>2. \A p \in Policy : template(p, n, a) \in Template
  BY <1>1 DEF template, Template
<1>3. ASSUME NEW d \in {"out", "in"}
      PROVE  /\ saOf(s, d, n, a) \in SA
             /\ [op |-> "sa", sa |-> saOf(s, d, n, a)] \in Undo
  <2>1. saOf(s, d, n, a) \in SA
    BY <1>1 DEF saOf, SA
  <2> QED
    BY <2>1 DEF Undo
<1>4. /\ \A p \in Policy : [op |-> "sp", p |-> p] \in Undo
      /\ [op |-> "link"] \in Undo /\ [op |-> "route"] \in Undo
      /\ [op |-> "rules", table |-> n] \in Undo
  BY DEF Undo
<1> QED
  BY <1>2, <1>3, <1>4

LEMMA RefusalType ==
    ASSUME DTypeOK, NEW s \in Session, NEW x \in Refusal,
           failed' = failed \/ failed' = [failed EXCEPT ![s] = @ \cup {x}]
    PROVE  failed' \in [Session -> SUBSET Refusal]
<1>1. failed[s] \cup {x} \in SUBSET Refusal
  BY DEF DTypeOK
<1>2. CASE failed' = failed
  BY <1>2 DEF DTypeOK
<1>3. CASE failed' = [failed EXCEPT ![s] = @ \cup {x}]
  BY <1>1, <1>3 DEF DTypeOK
<1> QED
  BY <1>2, <1>3

LEMMA ConnectTypes ==
    ASSUME DTypeOK, NEW s \in Session, Course(s), SetupStep(s) \/ AbortStep(s)
    PROVE  DTypeOK'
<1> DEFINE Registers(u) == undos' = undos \/ Register(s, u)
<1>1. ASSUME NEW u \in Undo, Registers(u)
      PROVE  undos' \in [Session -> Seq(Undo)]
  <2>1. undos[s] \in Seq(Undo)
    BY DEF DTypeOK
  <2>2. Append(undos[s], u) \in Seq(Undo)
    BY <2>1, AppendFacts
  <2> QED
    BY <1>1, <2>2 DEF Register, DTypeOK
<1>2. todo[s] # <<>> => Tail(todo[s]) \in Seq(Call)
  BY SequenceFacts DEF DTypeOK
<1>3. ASSUME NEW q \in Seq(Call), Proceed(s, q)
      PROVE  /\ todo' \in [Session -> Seq(Call)]
             /\ phase' \in [Session -> {"down", "setup", "ready", "cleaning"}]
  BY <1>3 DEF Proceed, DTypeOK
<1>4. ASSUME Abort(s)
      PROVE  /\ todo' \in [Session -> Seq(Call)]
             /\ phase' \in [Session -> {"down", "setup", "ready", "cleaning"}]
  <2>1. <<>> \in Seq(Call)
    BY EmptySeq
  <2> QED
    BY <1>4, <2>1 DEF Abort, DTypeOK
<1>5. ASSUME NEW x \in Call, Accept \/ Refuse(s, x)
      PROVE  failed' \in [Session -> SUBSET Refusal]
  BY <1>5, RefusalType DEF Refusal, Accept, Refuse
<1>6. phase[s] = "setup" => sock[s] \in Pair
  BY DEF Course
<1>7. /\ \A u \in Undo : u = u
      /\ [op |-> "link"] \in Undo /\ [op |-> "route"] \in Undo
      /\ [op |-> "rules", table |-> link[s]] \in Undo
      /\ \A p \in Policy : [op |-> "sp", p |-> p] \in Undo
  BY DEF Undo, DTypeOK
<1>8. CASE AddLink(s)
  <2>1. undos' \in [Session -> Seq(Undo)]
    <3>1. CASE mode[s] = "xfrmi"
      BY <1>1, <1>7, <1>8, <3>1 DEF AddLink
    <3>2. CASE mode[s] # "xfrmi"
      BY <1>8, <3>2 DEF AddLink, DTypeOK
    <3> QED
      BY <3>1, <3>2
  <2>2. link' \in [Session -> Nat] /\ index' \in Nat
    BY <1>8 DEF AddLink, DTypeOK
  <2> QED
    BY <1>2, <1>3, <1>8, <2>1, <2>2
    DEF AddLink, Doing, Done, Accept, Proceed, DTypeOK
<1>9. CASE Configure(s)
  BY <1>2, <1>3, <1>9 DEF Configure, Doing, Done, Accept, Proceed, DTypeOK
<1>10. ASSUME NEW d \in {"out", "in"}, AddSA(s, d) PROVE DTypeOK'
  <2> DEFINE x == saOf(s, d, cur[s], sock[s])
  <2>1. /\ phase[s] = "setup" /\ todo[s] # <<>> /\ Done(s) /\ Accept
        /\ Register(s, [op |-> "sa", sa |-> x])
        /\ xfrm' = IF d = "in" THEN [xfrm EXCEPT ![s] = sock[s]] ELSE xfrm
        /\ UNCHANGED <<pol, link, rules, mainRoutes, mode, sock, cur,
                       xfrmPolicies, index>>
    BY <1>10 DEF AddSA, Doing
  <2>2. [op |-> "sa", sa |-> x] \in Undo
    BY <1>6, <2>1, KernelRecords DEF DTypeOK
  <2>3. undos' \in [Session -> Seq(Undo)]
    BY <1>1, <2>1, <2>2
  <2>4. xfrm' \in [Session -> Pair \cup {None}]
    BY <2>1 DEF DTypeOK
  <2> QED
    BY <1>2, <1>3, <2>1, <2>3, <2>4 DEF Done, Accept, Proceed, DTypeOK
<1>11. ASSUME NEW p \in Policy, AddSP(s, p) PROVE DTypeOK'
  <2>1. template(p, cur[s], sock[s]) \in Template
    BY <1>6, <1>11, KernelRecords DEF AddSP, Doing, DTypeOK
  <2>2. pol' \in [Session -> [Policy -> Template \cup {None}]]
    BY <1>11, <2>1 DEF AddSP, InstallSP, DTypeOK
  <2>3. xfrmPolicies' \in [Session -> Nat]
    BY <1>11 DEF AddSP, CachePolicies, DTypeOK
  <2> QED
    BY <1>1, <1>2, <1>3, <1>7, <1>11, <2>2, <2>3
    DEF AddSP, Doing, Done, Accept, Proceed, DTypeOK
<1>12. ASSUME NEW p \in Policy, SkipSP(s, p) PROVE DTypeOK'
  <2>1. xfrmPolicies' \in [Session -> Nat]
    BY <1>12 DEF SkipSP, CachePolicies, DTypeOK
  <2>2. failed' \in [Session -> SUBSET Refusal]
    BY <1>5, <1>12 DEF SkipSP, Call
  <2> QED
    BY <1>2, <1>3, <1>12, <2>1, <2>2
    DEF SkipSP, Doing, Done, Proceed, DTypeOK
<1>13. CASE AddInputRule(s)
  <2>1. "from" \in Call /\ "table" \in Call
    BY DEF Call
  <2>2. <<"from", "table">> \in Seq(Call)
    BY <2>1
  <2> QED
    BY <1>1, <1>3, <1>7, <1>13, <2>2
    DEF AddInputRule, RegisterFlush, Accept, Proceed, DTypeOK
<1>14. CASE AddRule(s)
  BY <1>2, <1>3, <1>14 DEF AddRule, Doing, Done, Accept, Proceed, DTypeOK
<1>15. CASE AddRouteTable(s)
  BY <1>2, <1>3, <1>15
  DEF AddRouteTable, Doing, Done, Accept, Proceed, DTypeOK
<1>16. CASE FallBack(s)
  <2>1. "main" \in Call
    BY DEF Call
  <2>2. <<"main">> \in Seq(Call)
    BY <2>1
  <2> QED
    BY <1>3, <1>16, <2>2 DEF FallBack, Accept, Proceed, DTypeOK
<1>17. CASE AddRoute(s)
  BY <1>1, <1>2, <1>3, <1>7, <1>17
  DEF AddRoute, Doing, Done, Accept, Proceed, DTypeOK
<1>18. CASE LinkRefused(s)
  BY <1>4, <1>5, <1>18 DEF LinkRefused, Abort, Call, DTypeOK
<1>19. CASE InputRuleRefused(s)
  <2>1. link' = [link EXCEPT ![s] = 0] \/ link' = link
    BY <1>19 DEF InputRuleRefused, CloseTUN
  <2>2. link' \in [Session -> Nat]
    <3>1. CASE link' = [link EXCEPT ![s] = 0]
      BY <3>1 DEF DTypeOK
    <3>2. CASE link' = link
      BY <3>2 DEF DTypeOK
    <3> QED
      BY <2>1, <3>1, <3>2
  <2> QED
    BY <1>1, <1>4, <1>5, <1>7, <1>19, <2>2
    DEF InputRuleRefused, RegisterFlush, Abort, Call, DTypeOK
<1>20. CASE RuleRefused(s)
  <2>1. link' = [link EXCEPT ![s] = 0] \/ link' = link
    BY <1>20 DEF RuleRefused, CloseTUN
  <2>2. link' \in [Session -> Nat]
    <3>1. CASE link' = [link EXCEPT ![s] = 0]
      BY <3>1 DEF DTypeOK
    <3>2. CASE link' = link
      BY <3>2 DEF DTypeOK
    <3> QED
      BY <2>1, <3>1, <3>2
  <2> QED
    BY <1>4, <1>5, <1>20, <2>2 DEF RuleRefused, Abort, Call, DTypeOK
<1>21. CASE Refused(s)
  <2>1. link' = [link EXCEPT ![s] = 0] \/ link' = link
    BY <1>21 DEF Refused, CloseTUN
  <2>2. link' \in [Session -> Nat]
    <3>1. CASE link' = [link EXCEPT ![s] = 0]
      BY <3>1 DEF DTypeOK
    <3>2. CASE link' = link
      BY <3>2 DEF DTypeOK
    <3> QED
      BY <2>1, <3>1, <3>2
  <2>3. failed' \in [Session -> SUBSET Refusal]
    <3>1. PICK x \in {"encap", "saOut", "saIn", "out4", "in4", "up", "addr",
                       "table", "main"} : Refuse(s, x)
      BY <1>21 DEF Refused
    <3>2. x \in Call
      BY DEF Call, Policy
    <3> QED
      BY <1>5, <3>1, <3>2
  <2> QED
    BY <1>4, <1>21, <2>2, <2>3 DEF Refused, Abort, DTypeOK
<1> QED
  BY <1>8, <1>9, <1>10, <1>11, <1>12, <1>13, <1>14, <1>15, <1>16, <1>17,
     <1>18, <1>19, <1>20, <1>21 DEF SetupStep, AbortStep

LEMMA DownTypes ==
    ASSUME DTypeOK, NEW s \in Session, Course(s),
           \/ \E a \in Pair : StartSetup(s, a)
           \/ Leave(s) \/ UndoLast(s) \/ FlushSAs(s)
    PROVE  DTypeOK'
<1>1. ASSUME NEW a \in Pair, StartSetup(s, a) PROVE DTypeOK'
  <2>1. XfrmSteps \in Seq(Call) /\ TunSteps \in Seq(Call)
    <3>1. {"encap", "link", "saOut", "saIn", "out4", "in4", "fwd4", "out6",
           "in6", "up", "addr", "rules"} \subseteq Call
      BY DEF Call, Policy
    <3> QED
      BY <3>1 DEF XfrmSteps, TunSteps
  <2>2. todo' \in [Session -> Seq(Call)]
    <3>1. PICK q \in Seq(Call) : todo' = [todo EXCEPT ![s] = q]
      BY <1>1, <2>1 DEF StartSetup
    <3> QED
      BY <3>1 DEF DTypeOK
  <2>3. late' \in [Session -> BOOLEAN]
    <3>1. PICK b \in BOOLEAN : late' = [late EXCEPT ![s] = b]
      BY <1>1 DEF StartSetup, DTypeOK
    <3> QED
      BY <3>1 DEF DTypeOK
  <2> QED
    BY <1>1, <2>2, <2>3 DEF StartSetup, DTypeOK
<1>2. CASE Leave(s)
  BY <1>2 DEF Leave, DTypeOK
<1>3. CASE UndoLast(s)
  <2>1. undos' \in [Session -> Seq(Undo)]
    <3>1. Front(undos[s]) \in Seq(Undo)
      BY <1>3, SequenceFacts DEF UndoLast, DTypeOK
    <3> QED
      BY <1>3, <3>1 DEF UndoLast, DTypeOK
  <2>2. /\ pol' \in [Session -> [Policy -> Template \cup {None}]]
        /\ link' \in [Session -> Nat]
    <3>1. CASE UNCHANGED kernelVars
      BY <3>1 DEF DTypeOK
    <3>2. CASE Effect(s, Last(undos[s]))
      <4>1. ASSUME pol' = pol
            PROVE  pol' \in [Session -> [Policy -> Template \cup {None}]]
        BY <4>1 DEF DTypeOK
      <4>2. ASSUME NEW p, pol' = [pol EXCEPT ![s][p] = None]
            PROVE  pol' \in [Session -> [Policy -> Template \cup {None}]]
        <5>1. [pol[s] EXCEPT ![p] = None] \in [Policy -> Template \cup {None}]
          BY DEF DTypeOK
        <5> QED
          BY <4>2, <5>1 DEF DTypeOK
      <4>3. link' = link \/ link' = [link EXCEPT ![s] = 0]
        BY <3>2 DEF Effect
      <4>4. link' \in [Session -> Nat]
        <5>1. CASE link' = link
          BY <5>1 DEF DTypeOK
        <5>2. CASE link' = [link EXCEPT ![s] = 0]
          BY <5>2 DEF DTypeOK
        <5> QED
          BY <4>3, <5>1, <5>2
      <4>5. CASE Last(undos[s]).op = "sp"
        <5>1. pol' = [pol EXCEPT ![s][Last(undos[s]).p] = None]
          BY <3>2, <4>5 DEF Effect, DelSP
        <5> QED
          BY <4>2, <4>4, <5>1
      <4>6. CASE Last(undos[s]).op # "sp"
        <5>1. pol' = pol
          BY <3>2, <4>6 DEF Effect
        <5> QED
          BY <4>1, <4>4, <5>1
      <4> QED
        BY <4>5, <4>6
    <3> QED
      BY <1>3, <3>1, <3>2 DEF UndoLast
  <2>3. failed' \in [Session -> SUBSET Refusal]
    <3>1. failed' = failed \/ failed' = [failed EXCEPT ![s] = @ \cup {"undo"}]
      BY <1>3 DEF UndoLast, Accept, Refuse
    <3> QED
      BY <3>1, RefusalType DEF Refusal
  <2>4. UNCHANGED <<memVars, histVars, phase, todo, rk, mob, spi, index>>
    BY <1>3 DEF UndoLast
  <2> QED
    BY <2>1, <2>2, <2>3, <2>4 DEF DTypeOK
<1>4. CASE FlushSAs(s)
  <2>1. failed' \in [Session -> SUBSET Refusal]
    <3>1. failed' = failed \/ failed' = [failed EXCEPT ![s] = @ \cup {"undo"}]
      BY <1>4 DEF FlushSAs, Accept, Refuse
    <3> QED
      BY <3>1, RefusalType DEF Refusal
  <2>2. /\ phase' = [phase EXCEPT ![s] = "down"]
        /\ robbed' \in [Session -> BOOLEAN]
        /\ UNCHANGED <<pol, link, rules, mainRoutes, memVars, late, reverted,
                       todo, undos, rk, mob, spi, index>>
    BY <1>4 DEF FlushSAs, DTypeOK
  <2> QED
    BY <2>1, <2>2 DEF DTypeOK
<1> QED
  BY <1>1, <1>2, <1>3, <1>4

LEMMA TaskTypes ==
    ASSUME DTypeOK, NEW s \in Session, Course(s), RekeyTask(s) \/ MoveTask(s)
    PROVE  DTypeOK'
<1>1. ASSUME NEW x \in {"rekey", "move"}, Accept \/ Refuse(s, x)
      PROVE  failed' \in [Session -> SUBSET Refusal]
  BY <1>1, RefusalType DEF Refusal, Accept, Refuse
<1>2. ASSUME Beside(s)
      PROVE  /\ late' \in [Session -> BOOLEAN]
             /\ UNCHANGED <<link, robbed, phase, todo, undos, spi, index>>
  BY <1>2 DEF Beside, DTypeOK
<1>3. ASSUME NEW from \in {"del", "out", "in", "sps"},
             NEW to \in {"out", "in", "sps", "idle"}, RekeyStep(s, from, to)
      PROVE  rk' \in [Session -> {Idle} \cup Rekeying]
  <2>1. PICK r \in {Idle} \cup Rekeying : rk' = [rk EXCEPT ![s] = r]
    <3>1. rk[s] \in Rekeying
      BY <1>3, IdleNotTask DEF RekeyStep, DTypeOK
    <3>2. CASE to = "idle"
      BY <1>3, <3>2 DEF RekeyStep
    <3>3. CASE to # "idle"
      <4>1. [rk[s] EXCEPT !.pc = to] \in Rekeying
        BY <3>1, <3>3 DEF Rekeying
      <4> QED
        BY <1>3, <3>3, <4>1 DEF RekeyStep, DTypeOK
    <3> QED
      BY <3>2, <3>3
  <2> QED
    BY <2>1 DEF DTypeOK
<1>4. ASSUME NEW from \in {"out", "in", "sps"},
             NEW to \in {"in", "sps", "idle"}, MoveStep(s, from, to)
      PROVE  mob' \in [Session -> {Idle} \cup Moving]
  <2>1. PICK m \in {Idle} \cup Moving : mob' = [mob EXCEPT ![s] = m]
    <3>1. mob[s] \in Moving
      BY <1>4, IdleNotTask DEF MoveStep, DTypeOK
    <3>2. CASE to = "idle"
      BY <1>4, <3>2 DEF MoveStep
    <3>3. CASE to # "idle"
      <4>1. [mob[s] EXCEPT !.pc = to] \in Moving
        BY <3>1, <3>3 DEF Moving
      <4> QED
        BY <1>4, <3>3, <4>1 DEF MoveStep, DTypeOK
    <3> QED
      BY <3>2, <3>3
  <2> QED
    BY <2>1 DEF DTypeOK
<1>5. ASSUME NEW Q \in SUBSET Policy, NEW n \in Nat, NEW a \in Pair,
             NEW c \in {"rekey", "move"}, Rewrite(s, Q, n, a, c)
      PROVE  /\ pol' \in [Session -> [Policy -> Template \cup {None}]]
             /\ Accept \/ Refuse(s, c)
  <2>1. PICK D : /\ pol' = [pol EXCEPT ![s] = [p \in Policy |->
                       IF p \in D THEN template(p, n, a) ELSE pol[s][p]]]
                 /\ IF D = Q THEN Accept ELSE Refuse(s, c)
    BY <1>5 DEF Rewrite
  <2>2. [p \in Policy |-> IF p \in D THEN template(p, n, a) ELSE pol[s][p]]
          \in [Policy -> Template \cup {None}]
    <3>1. \A p \in Policy : /\ template(p, n, a) \in Template
                             /\ pol[s][p] \in Template \cup {None}
      <4>1. \A p \in Policy : template(p, n, a) \in Template
        BY KernelRecords
      <4>2. pol[s] \in [Policy -> Template \cup {None}]
        BY DEF DTypeOK
      <4> QED
        BY <4>1, <4>2
    <3> QED
      BY <3>1
  <2> QED
    BY <2>1, <2>2 DEF DTypeOK
<1>6. CASE RekeyAnswered(s)
  <2>1. xfrm[s] \in Pair
    BY <1>6 DEF RekeyAnswered, Course, Left, ToSet
  <2>2. [pc |-> "del", a |-> xfrm[s], old |-> cur[s], new |-> spi + 1]
          \in Rekeying
    BY <2>1 DEF Rekeying, DTypeOK
  <2> QED
    BY <1>6, <2>2 DEF RekeyAnswered, DTypeOK
<1>7. CASE RekeyDelete(s)
  BY <1>1, <1>2, <1>3, <1>7 DEF RekeyDelete, RekeyStep, DTypeOK
<1>8. ASSUME NEW d \in {"out", "in"}, RekeyAdd(s, d) PROVE DTypeOK'
  <2>1. /\ \E to \in {"out", "in", "sps", "idle"} : RekeyStep(s, d, to)
        /\ Accept \/ Refuse(s, "rekey")
        /\ pol' = pol
    BY <1>8 DEF RekeyAdd
  <2> QED
    BY <1>1, <1>2, <1>3, <2>1 DEF RekeyStep, DTypeOK
<1>9. CASE RekeySPs(s)
  <2>1. rk[s] \in Rekeying
    BY <1>9, IdleNotTask DEF RekeySPs, RekeyStep, DTypeOK
  <2>2. rk[s].new \in Nat /\ rk[s].a \in Pair
    BY <2>1 DEF Rekeying
  <2>3. /\ pol' \in [Session -> [Policy -> Template \cup {None}]]
        /\ Accept \/ Refuse(s, "rekey")
    BY <1>5, <1>9, <2>2 DEF RekeySPs
  <2> QED
    BY <1>1, <1>2, <1>3, <1>9, <2>3 DEF RekeySPs, RekeyStep, DTypeOK
<1>10. ASSUME NEW a \in Pair, UpdateAddresses(s, a) PROVE DTypeOK'
  <2>1. mob' \in [Session -> {Idle} \cup Moving]
    <3>1. [pc |-> "out", a |-> a] \in Moving
      BY DEF Moving
    <3>2. CASE mode[s] = "xfrmi"
      BY <1>10, <3>1, <3>2 DEF UpdateAddresses, DTypeOK
    <3>3. CASE mode[s] # "xfrmi"
      BY <1>10, <3>3 DEF UpdateAddresses, DTypeOK
    <3> QED
      BY <3>2, <3>3
  <2> QED
    BY <1>10, <2>1 DEF UpdateAddresses, DTypeOK
<1>11. CASE handleUpdateSAAddresses(s)
  <2>1. sock[s] \in Pair
    BY <1>11 DEF handleUpdateSAAddresses, Course
  <2>2. [pc |-> "out", a |-> sock[s]] \in Moving
    BY <2>1 DEF Moving
  <2> QED
    BY <1>11, <2>2 DEF handleUpdateSAAddresses, DTypeOK
<1>12. ASSUME NEW d \in {"out", "in"}, UpdateSA(s, d) PROVE DTypeOK'
  <2>1. /\ \E to \in {"in", "sps", "idle"} : MoveStep(s, d, to)
        /\ UNCHANGED <<pol, xfrm, reverted>>
    BY <1>12 DEF UpdateSA
  <2>2. failed' = failed \/ failed' = [failed EXCEPT ![s] = @ \cup {"move"}]
    BY <1>12 DEF UpdateSA, Accept, Refuse
  <2>3. failed' \in [Session -> SUBSET Refusal]
    BY <2>2, RefusalType DEF Refusal
  <2> QED
    BY <1>2, <1>4, <2>1, <2>3 DEF MoveStep, DTypeOK
<1>13. CASE UpdateSPs(s)
  <2>1. mob[s] \in Moving
    BY <1>13, IdleNotTask DEF UpdateSPs, MoveStep, DTypeOK
  <2>2. mob[s].a \in Pair /\ xfrmPolicies[s] \in Nat
    BY <2>1 DEF Moving, DTypeOK
  <2>3. /\ pol' \in [Session -> [Policy -> Template \cup {None}]]
        /\ Accept \/ Refuse(s, "move")
    BY <1>5, <1>13, <2>2 DEF UpdateSPs
  <2>4. /\ xfrm' \in [Session -> Pair \cup {None}]
        /\ reverted' \in [Session -> BOOLEAN]
    BY <1>13, <2>2 DEF UpdateSPs, DTypeOK
  <2> QED
    BY <1>1, <1>2, <1>4, <1>13, <2>3, <2>4 DEF UpdateSPs, MoveStep, DTypeOK
<1> QED
  BY <1>6, <1>7, <1>8, <1>9, <1>10, <1>11, <1>12, <1>13 DEF RekeyTask, MoveTask
-----------------------------------------------------------------------------
(* The calls of the set-up: what one that goes on does, as far as the      *)
(* accounts of its session go, and what one that ends the set-up does.     *)

Ordered(q) == \A i \in 1..Len(q) : q[i] = "rules" => i = Len(q)

Onward(s) ==
    /\ phase[s] = "setup"
    /\ phase'[s] = IF todo'[s] = <<>> THEN "ready" ELSE "setup"
    /\ UNCHANGED <<mode[s], sock[s], cur[s], rk[s], mob[s], late[s], robbed[s],
                   reverted[s]>>
    /\ Ordered(todo[s])'
    /\ \A x \in SACalls \cup Policy : x \in Left(s)' => x \in Left(s)

Registers(s, u) == undos'[s] = undos[s] \/ undos'[s] = Append(undos[s], u)

SetupEffect(s) ==
    /\ Onward(s)
    /\ "from" \in Left(s)' =>
         "link" \notin Left(s)' /\ [op |-> "rules", table |-> link'[s]] \in Undos(s)'
    /\ failed[s] \subseteq failed'[s] /\ failed'[s] \subseteq failed[s] \cup Policy
    /\ Undos(s) \subseteq Undos(s)'
    /\ \A u \in Undos(s)' : u \in Undos(s) \/ (u.op = "sa" => u.sa.own = s)
    /\ \A x \in sas' : x.own = s =>
         \/ x \in sas
         \/ /\ mode[s] = "xfrmi" /\ At(s, x, sock[s])
            /\ [op |-> "sa", sa |-> x] \in Undos(s)'
    /\ \A x \in sas : x.own = s => x \in sas'
    /\ xfrm'[s] \in {xfrm[s], sock[s]}
    /\ "saOut" \in Left(s) =>
         "saOut" \in Left(s)' \/ saOf(s, "out", cur[s], sock[s]) \in sas'
    /\ "saIn" \in Left(s) =>
         \/ "saIn" \in Left(s)'
         \/ xfrm'[s] = sock[s] /\ saOf(s, "in", cur[s], sock[s]) \in sas'
    /\ \A p \in Policy :
         /\ \/ pol'[s][p] = pol[s][p]
            \/ /\ pol'[s][p] = template(p, cur[s], sock[s])
               /\ [op |-> "sp", p |-> p] \in Undos(s)'
         /\ p \in Left(s) =>
              \/ p \in Left(s)' \/ p \in failed'[s]
              \/ /\ pol'[s][p] = template(p, cur[s], sock[s])
                 /\ [op |-> "sp", p |-> p] \in Undos(s)'
    /\ link'[s] = link[s] \/ mode[s] = "tun" \/ [op |-> "link"] \in Undos(s)'
    /\ s \in mainRoutes' => s \in mainRoutes \/ [op |-> "route"] \in Undos(s)'
    /\ \A q \in rules' : q.own = s =>
         \/ q \in rules
         \/ /\ q.table = link[s]
            /\ [op |-> "rules", table |-> link[s]] \in Undos(s)'

LEMMA CallDone ==
    ASSUME DTypeOK, NEW s \in Session, Course(s), NEW x, Doing(s, x), Done(s)
    PROVE  /\ phase[s] = "setup"
           /\ phase'[s] = IF todo'[s] = <<>> THEN "ready" ELSE "setup"
           /\ UNCHANGED <<rk, mob, late, robbed, reverted>>
           /\ Ordered(todo[s])'
           /\ Left(s) = Left(s)' \cup {x}
           /\ "from" \in Left(s)' => "link" \notin Left(s)'
<1>1. /\ phase[s] = "setup" /\ todo[s] # <<>> /\ Head(todo[s]) = x
      /\ todo'[s] = Tail(todo[s])
      /\ phase'[s] = IF todo'[s] = <<>> THEN "ready" ELSE "setup"
      /\ UNCHANGED <<rk, mob, late, robbed, reverted>>
  BY DEF Doing, Done, Proceed, DTypeOK
<1>2. todo[s] \in Seq(Call)
  BY DEF DTypeOK
<1>3. PICK t : t = Tail(todo[s])
  OBVIOUS
<1>4. /\ ToSet(todo[s]) = ToSet(t) \cup {x}
      /\ Len(todo[s]) \in Nat \ {0} /\ Len(t) = Len(todo[s]) - 1
      /\ \A i \in 1..Len(t) : t[i] = todo[s][i + 1]
  BY <1>1, <1>2, <1>3, SequenceFacts
<1>5. \A i \in 1..Len(todo[s]) : todo[s][i] = "rules" => i = Len(todo[s])
  BY DEF Course
<1>6. ASSUME NEW i \in 1..Len(t), t[i] = "rules" PROVE i = Len(t)
  <2>1. PICK n \in Nat \ {0} : n = Len(todo[s]) /\ Len(t) = n - 1
    BY <1>4
  <2>2. i + 1 \in 1..n /\ todo[s][i + 1] = "rules"
    BY <1>4, <1>6, <2>1
  <2>3. i + 1 = n
    BY <1>5, <2>1, <2>2
  <2> QED
    BY <2>1, <2>3
<1>7. Ordered(todo[s])'
  BY <1>1, <1>3, <1>6 DEF Ordered
<1>8. Left(s) = Left(s)' \cup {x}
  BY <1>1, <1>3, <1>4 DEF Left
<1> QED
  BY <1>1, <1>7, <1>8 DEF Course

LEMMA LastCall ==
    ASSUME DTypeOK, NEW s \in Session, Course(s), Doing(s, "rules")
    PROVE  Left(s) = {"rules"}
<1>1. /\ todo[s] \in Seq(Call) /\ todo[s] # <<>> /\ Head(todo[s]) = "rules"
      /\ \A i \in 1..Len(todo[s]) : todo[s][i] = "rules" => i = Len(todo[s])
  BY DEF Doing, DTypeOK, Course
<1>2. /\ ToSet(todo[s]) = ToSet(Tail(todo[s])) \cup {"rules"}
      /\ Len(todo[s]) \in Nat \ {0} /\ Len(Tail(todo[s])) = Len(todo[s]) - 1
      /\ todo[s][1] = "rules"
      /\ Tail(todo[s]) \in Seq(Call)
  BY <1>1, SequenceFacts
<1>3. Len(Tail(todo[s])) = 0
  <2>1. PICK n \in Nat \ {0} : n = Len(todo[s])
    BY <1>2
  <2>2. 1 \in 1..n
    BY <2>1
  <2>3. n = 1
    BY <1>1, <1>2, <2>1, <2>2
  <2> QED
    BY <1>2, <2>1, <2>3
<1>4. ToSet(Tail(todo[s])) = {}
  <2>1. Tail(todo[s]) = <<>>
    BY <1>2, <1>3, EmptySeq
  <2> QED
    BY <2>1 DEF ToSet
<1> QED
  BY <1>2, <1>4 DEF Left

LEMMA SetupAccount ==
    ASSUME DTypeOK, NEW s \in Session, Account(s), SetupEffect(s)
    PROVE  Account(s)'
<1>1. /\ phase[s] = "setup" /\ phase'[s] \in {"setup", "ready"}
      /\ phase'[s] = "ready" => todo'[s] = <<>> /\ Left(s)' = {}
      /\ phase'[s] = "setup" => todo'[s] # <<>>
      /\ UNCHANGED <<mode[s], sock[s], cur[s], rk[s], mob[s], late[s], robbed[s],
                     reverted[s]>>
      /\ \A x \in SACalls \cup Policy : x \in Left(s)' => x \in Left(s)
  BY DEF SetupEffect, Onward, Left, ToSet
<1>2. /\ Clean(s)' => Clean(s) /\ rk[s] = Idle /\ mob[s] = Idle
      /\ Sound(s)' => Sound(s) /\ Clean(s) /\ Clean(s)' /\ failed'[s] = {}
  BY <1>1 DEF SetupEffect, Clean, Sound, Policy, Account, Course
<1>3. Course(s)'
  <2>1. Ordered(todo[s])'
    BY DEF SetupEffect, Onward
  <2>2. mode[s] = "tun" => Left(s)' \cap (SACalls \cup Policy) = {}
    BY <1>1 DEF Account, Course
  <2>3. /\ sock[s] \in Pair
        /\ mode[s] = "xfrmi" => "saIn" \in Left(s) \/ xfrm[s] \in Pair
    BY <1>1 DEF Account, Course
  <2>4. mode[s] = "xfrmi" => "saIn" \in Left(s)' \/ xfrm'[s] \in Pair
    BY <2>3 DEF SetupEffect
  <2>5. \A u \in Undos(s)' : u.op = "sa" => u.sa.own = s
    BY DEF SetupEffect, Account, Course
  <2>6. "from" \in Left(s)' =>
            /\ "link" \notin Left(s)'
            /\ [op |-> "rules", table |-> link'[s]] \in Undos(s)'
    BY DEF SetupEffect
  <2>7. mode[s] = "tun" => rk[s] = Idle /\ mob[s] = Idle
    BY DEF Account, Course
  <2> QED
    BY <1>1, <1>2, <2>1, <2>2, <2>3, <2>4, <2>5, <2>6, <2>7 DEF Course, Ordered
<1>4. ASSUME Clean(s)'
      PROVE  /\ mode[s] = "xfrmi" => "saIn" \in Left(s)' \/ xfrm'[s] = sock[s]
  BY <1>1, <1>2, <1>4 DEF SetupEffect, Account, SAsKnown
<1>5. SAsKnown(s)'
  <2> SUFFICES ASSUME Clean(s)' PROVE SAsKnown(s)'
    BY DEF SAsKnown
  <2>1. ASSUME NEW x \in sas', x.own = s
        PROVE  mode[s] = "xfrmi" /\ At(s, x, sock[s]) /\ Undoes(s, x)'
    <3>1. CASE x \in sas
      <4>1. mode[s] = "xfrmi" /\ At(s, x, sock[s]) /\ Undoes(s, x)
        BY <1>1, <1>2, <2>1, <3>1 DEF Account, SAsKnown
      <4> QED
        BY <4>1 DEF SetupEffect, Undoes
    <3>2. CASE /\ mode[s] = "xfrmi" /\ At(s, x, sock[s])
               /\ [op |-> "sa", sa |-> x] \in Undos(s)'
      BY <3>2 DEF Undoes, same
    <3> QED
      BY <2>1, <3>1, <3>2 DEF SetupEffect
  <2>2. \A x : At(s, x, sock[s]) <=> At(s, x, sock[s])'
    BY <1>1 DEF At
  <2>3. rk'[s] = Idle /\ mob'[s] = Idle /\ mob'[s].pc = "idle"
    BY <1>1, <1>2, IdleNotTask
  <2>4. \A x \in sas' : x.own = s /\ phase'[s] = "ready" => At(s, x, xfrm'[s])
    BY <1>1, <1>4, <2>1
  <2> QED
    BY <1>1, <1>4, <2>1, <2>2, <2>3, <2>4 DEF SAsKnown, At
<1>6. Registered(s)'
  <2> SUFFICES ASSUME Clean(s)' PROVE Registered(s)'
    BY DEF Registered
  <2>1. Registered(s) /\ Clean(s)
    BY <1>2 DEF Account
  <2>2. ASSUME NEW p \in Policy
        PROVE  /\ pol'[s][p] # None =>
                    p \in failed'[s] \/ [op |-> "sp", p |-> p] \in Undos(s)'
               /\ mode[s] = "xfrmi" =>
                    \/ p \in Left(s)' \/ p \in failed'[s]
                    \/ [op |-> "sp", p |-> p] \in Undos(s)'
    BY <1>1, <2>1 DEF SetupEffect, Registered
  <2>3. mode[s] = "xfrmi" /\ link'[s] # 0 => [op |-> "link"] \in Undos(s)'
    BY <2>1 DEF SetupEffect, Registered
  <2>4. s \in mainRoutes' => [op |-> "route"] \in Undos(s)'
    BY <2>1 DEF SetupEffect, Registered
  <2>5. ASSUME NEW q \in rules', q.own = s
        PROVE  \E u \in Undos(s)' :
                  u.op = "rules" /\ (q.table = u.table \/ q.kind \in {"iif4", "iif6"})
    <3>1. CASE q \in rules
      BY <2>1, <2>5, <3>1 DEF SetupEffect, Registered
    <3>2. CASE /\ q.table = link[s]
               /\ [op |-> "rules", table |-> link[s]] \in Undos(s)'
      BY <3>2
    <3> QED
      BY <2>5, <3>1, <3>2 DEF SetupEffect
  <2> QED
    BY <1>1, <2>2, <2>3, <2>4, <2>5 DEF Registered
<1>7. Path(s)'
  <2> SUFFICES ASSUME Sound(s)', mode[s] = "xfrmi" PROVE Path(s)'
    BY <1>1 DEF Path
  <2>1. Path(s) /\ Sound(s) /\ Clean(s)' /\ failed'[s] = {}
    BY <1>2 DEF Account
  <2>2. /\ "saOut" \in Left(s)' \/ saOf(s, "out", cur[s], sock[s]) \in sas'
        /\ "saIn" \in Left(s)' \/ saOf(s, "in", cur[s], sock[s]) \in sas'
    <3>1. \A d \in {"out", "in"} : saOf(s, d, cur[s], sock[s]).own = s
      BY DEF saOf
    <3> QED
      BY <1>1, <2>1, <3>1 DEF SetupEffect, Path
  <2>3. \A p \in Policy \ {"fwd4"} :
            p \in Left(s)' \/ pol'[s][p] = template(p, cur[s], sock[s])
    BY <1>1, <2>1 DEF SetupEffect, Path
  <2>4. rk'[s] = Idle /\ rk'[s].pc = "idle"
    BY <1>1, <1>2, <2>1, IdleNotTask
  <2>5. "saIn" \in Left(s)' \/ xfrm'[s] = sock[s]
    BY <1>4, <2>1
  <2> QED
    BY <1>1, <2>2, <2>3, <2>4, <2>5 DEF Path
<1> QED
  BY <1>3, <1>5, <1>6, <1>7 DEF Account

LEMMA RegisterAppends ==
    ASSUME DTypeOK, NEW s \in Session, NEW u \in Undo, Register(s, u)
    PROVE  Undos(s)' = Undos(s) \cup {u}
<1>1. undos'[s] = Append(undos[s], u) /\ undos[s] \in Seq(Undo)
  BY DEF Register, DTypeOK
<1>2. ASSUME NEW q \in Seq(Undo) PROVE ToSet(Append(q, u)) = ToSet(q) \cup {u}
  BY AppendFacts
<1> QED
  BY <1>1, <1>2 DEF Undos

LEMMA SetupHasEffect ==
    ASSUME DTypeOK, NEW s \in Session, Account(s), SetupStep(s)
    PROVE  SetupEffect(s)
<1>1. Course(s)
  BY DEF Account
<1>2. /\ [op |-> "link"] \in Undo /\ [op |-> "route"] \in Undo
      /\ [op |-> "rules", table |-> link[s]] \in Undo
      /\ \A p \in Policy : [op |-> "sp", p |-> p] \in Undo
  BY DEF Undo, DTypeOK
<1>3. "from" \in Left(s) => [op |-> "rules", table |-> link[s]] \in Undos(s)
  BY <1>1 DEF Course
<1>4. CASE AddLink(s)
  <2>1. /\ Doing(s, "link") /\ Done(s) /\ Accept
        /\ s \notin mainRoutes'
        /\ UNCHANGED <<sas, pol, rules, memVars>>
    BY <1>4 DEF AddLink
  <2>2. /\ Left(s) = Left(s)' \cup {"link"}
        /\ Onward(s)
    BY <1>1, <2>1, CallDone DEF Onward
  <2>3. "from" \notin Left(s)'
    BY <1>1, <2>2 DEF Course
  <2>4. Undos(s)' = Undos(s) \/ Undos(s)' = Undos(s) \cup {[op |-> "link"]}
    <3>1. CASE Register(s, [op |-> "link"])
      BY <1>2, <3>1, RegisterAppends
    <3>2. CASE UNCHANGED undos
      BY <3>2 DEF Undos
    <3> QED
      BY <1>4, <3>1, <3>2 DEF AddLink
  <2>5. mode[s] = "tun" \/ [op |-> "link"] \in Undos(s)'
    <3>1. CASE mode[s] = "xfrmi"
      BY <1>2, <1>4, <3>1, RegisterAppends DEF AddLink
    <3> QED
      BY <3>1 DEF DTypeOK
  <2> QED
    BY <2>1, <2>2, <2>3, <2>4, <2>5 DEF Accept, SetupEffect, SACalls, Policy
<1>5. CASE Configure(s)
  <2>1. PICK x \in {"encap", "up", "addr"} : Doing(s, x)
    BY <1>5 DEF Configure
  <2>2. Done(s) /\ Accept /\ UNCHANGED <<kernelVars, memVars, undos>>
    BY <1>5 DEF Configure
  <2> QED
    BY <1>1, <1>3, <2>1, <2>2, CallDone
    DEF Accept, SetupEffect, Onward, Undos, SACalls, Policy
<1>6. ASSUME NEW d \in {"out", "in"}, AddSA(s, d) PROVE SetupEffect(s)
  <2> DEFINE x == saOf(s, d, cur[s], sock[s])
             u == [op |-> "sa", sa |-> x]
  <2>1. /\ Doing(s, IF d = "out" THEN "saOut" ELSE "saIn") /\ Done(s) /\ Accept
        /\ sas' = sas \cup {x} /\ Register(s, u)
        /\ xfrm' = IF d = "in" THEN [xfrm EXCEPT ![s] = sock[s]] ELSE xfrm
        /\ UNCHANGED <<pol, link, rules, mainRoutes, mode, sock, cur,
                       xfrmPolicies, index>>
    BY <1>6 DEF AddSA, InstallSA
  <2>2. u \in Undo
    BY <1>1, <2>1, KernelRecords DEF Doing, Course, DTypeOK
  <2>3. Undos(s)' = Undos(s) \cup {u}
    BY <2>1, <2>2, RegisterAppends
  <2>4. x.own = s /\ x.dir = d /\ x.n = cur[s] /\ At(s, x, sock[s])
    BY DEF saOf, At
  <2>5. mode[s] = "xfrmi"
    <3>1. PICK c \in SACalls : Doing(s, c)
      BY <2>1 DEF SACalls
    <3>2. c \in Left(s)
      BY <1>1, <2>1, <3>1, CallDone
    <3> QED
      BY <1>1, <3>1, <3>2 DEF Course, DTypeOK
  <2>6. /\ Left(s) = Left(s)' \cup {IF d = "out" THEN "saOut" ELSE "saIn"}
        /\ Onward(s)
        /\ "from" \in Left(s)' => "link" \notin Left(s)'
    BY <1>1, <2>1, CallDone DEF Onward
  <2>7. d = "in" => xfrm'[s] = sock[s]
    BY <2>1 DEF DTypeOK
  <2>8. d # "in" => xfrm'[s] = xfrm[s]
    BY <2>1
  <2>9. u.op = "sa" /\ u.sa.own = s
    BY <2>4
  <2> HIDE DEF x, u
  <2>10. \A y \in sas' : y.own = s =>
            \/ y \in sas
            \/ /\ mode[s] = "xfrmi" /\ At(s, y, sock[s])
               /\ [op |-> "sa", sa |-> y] \in Undos(s)'
    BY <2>1, <2>3, <2>4, <2>5 DEF u
  <2>11. /\ "saOut" \in Left(s) =>
              "saOut" \in Left(s)' \/ saOf(s, "out", cur[s], sock[s]) \in sas'
         /\ "saIn" \in Left(s) =>
              \/ "saIn" \in Left(s)'
              \/ xfrm'[s] = sock[s] /\ saOf(s, "in", cur[s], sock[s]) \in sas'
    BY <2>1, <2>6, <2>7 DEF x
  <2> QED
    BY <1>3, <2>1, <2>3, <2>6, <2>7, <2>8, <2>9, <2>10, <2>11
    DEF Accept, SetupEffect, SACalls, Policy
<1>7. ASSUME NEW p \in Policy, AddSP(s, p) PROVE SetupEffect(s)
  <2> DEFINE u == [op |-> "sp", p |-> p]
  <2>1. /\ Doing(s, p) /\ Done(s) /\ Accept /\ Register(s, u)
        /\ pol' = [pol EXCEPT ![s][p] = template(p, cur[s], sock[s])]
        /\ UNCHANGED <<sas, link, rules, mainRoutes, mode, sock, xfrm, cur>>
    BY <1>7 DEF AddSP, InstallSP
  <2>2. Undos(s)' = Undos(s) \cup {u}
    BY <1>2, <2>1, RegisterAppends
  <2>3. /\ Left(s) = Left(s)' \cup {p}
        /\ Onward(s)
        /\ "from" \in Left(s)' => "link" \notin Left(s)'
    BY <1>1, <2>1, CallDone DEF Onward
  <2>4. \A q \in Policy :
            pol'[s][q] = IF q = p THEN template(p, cur[s], sock[s]) ELSE pol[s][q]
    BY <2>1 DEF DTypeOK
  <2>5. p \notin SACalls /\ p # "from"
    BY DEF Policy, SACalls
  <2> QED
    BY <1>3, <2>1, <2>2, <2>3, <2>4, <2>5 DEF Accept, SetupEffect, SACalls
<1>8. ASSUME NEW p \in Policy, SkipSP(s, p) PROVE SetupEffect(s)
  <2>1. /\ Doing(s, p) /\ Done(s)
        /\ failed' = [failed EXCEPT ![s] = @ \cup {p}]
        /\ UNCHANGED <<kernelVars, mode, sock, xfrm, cur, undos>>
    BY <1>8 DEF SkipSP, Refuse
  <2>2. failed'[s] = failed[s] \cup {p}
    BY <2>1 DEF DTypeOK
  <2>3. /\ Left(s) = Left(s)' \cup {p}
        /\ Onward(s)
        /\ "from" \in Left(s)' => "link" \notin Left(s)'
    BY <1>1, <2>1, CallDone DEF Onward
  <2>4. p \notin SACalls /\ p # "from"
    BY DEF Policy, SACalls
  <2> QED
    BY <1>3, <2>1, <2>2, <2>3, <2>4 DEF SetupEffect, Undos, SACalls
<1>9. CASE AddInputRule(s)
  <2> DEFINE u == [op |-> "rules", table |-> link[s]]
  <2>1. /\ Doing(s, "rules") /\ Proceed(s, <<"from", "table">>) /\ Accept
        /\ Register(s, u)
        /\ \A q \in rules' : q.own = s => q \in rules \/ q.table = link[s]
        /\ UNCHANGED <<sas, pol, link, mainRoutes, memVars>>
    BY <1>9 DEF AddInputRule, RegisterFlush, without, ruleOf
  <2>2. Undos(s)' = Undos(s) \cup {u}
    BY <1>2, <2>1, RegisterAppends
  <2>3. Left(s) = {"rules"}
    BY <1>1, <2>1, LastCall
  <2>4. todo'[s] = <<"from", "table">>
    BY <2>1 DEF Proceed, DTypeOK
  <2>5. Left(s)' = {"from", "table"} /\ Ordered(todo[s])'
    BY <2>4 DEF Left, ToSet, Ordered
  <2>6. Onward(s)
    BY <2>1, <2>3, <2>4, <2>5 DEF Onward, Doing, Proceed, SACalls, Policy,
       DTypeOK
  <2> QED
    BY <2>1, <2>2, <2>3, <2>5, <2>6 DEF Accept, SetupEffect, SACalls, Policy
<1>10. CASE AddRule(s)
  <2>1. /\ Doing(s, "from") /\ Done(s) /\ Accept
        /\ \A q \in rules' : q.own = s => q \in rules \/ q.table = link[s]
        /\ UNCHANGED <<sas, pol, link, mainRoutes, memVars, undos>>
    BY <1>10 DEF AddRule, without, ruleOf
  <2>2. /\ Left(s) = Left(s)' \cup {"from"}
        /\ Onward(s)
        /\ "from" \in Left(s)' => "link" \notin Left(s)'
    BY <1>1, <2>1, CallDone DEF Onward
  <2> QED
    BY <1>3, <2>1, <2>2 DEF Accept, SetupEffect, Undos, SACalls, Policy
<1>11. CASE AddRouteTable(s)
  <2>1. /\ Doing(s, "table") /\ Done(s) /\ Accept
        /\ mainRoutes' \subseteq mainRoutes
        /\ UNCHANGED <<sas, pol, link, rules, memVars, undos>>
    BY <1>11 DEF AddRouteTable, CleanConflictRoutes
  <2>2. /\ Left(s) = Left(s)' \cup {"table"}
        /\ Onward(s)
        /\ "from" \in Left(s)' => "link" \notin Left(s)'
    BY <1>1, <2>1, CallDone DEF Onward
  <2> QED
    BY <1>3, <2>1, <2>2 DEF Accept, SetupEffect, Undos, SACalls, Policy
<1>12. CASE FallBack(s)
  <2>1. /\ Doing(s, "rules") /\ Proceed(s, <<"main">>) /\ Accept
        /\ UNCHANGED <<kernelVars, memVars, undos>>
    BY <1>12 DEF FallBack
  <2>2. Left(s) = {"rules"}
    BY <1>1, <2>1, LastCall
  <2>3. todo'[s] = <<"main">>
    BY <2>1 DEF Proceed, DTypeOK
  <2>4. Left(s)' = {"main"} /\ Ordered(todo[s])'
    BY <2>3 DEF Left, ToSet, Ordered
  <2>5. Onward(s)
    BY <2>1, <2>2, <2>3, <2>4 DEF Onward, Doing, Proceed, SACalls, Policy,
       DTypeOK
  <2> QED
    BY <2>1, <2>2, <2>4, <2>5 DEF Accept, SetupEffect, Undos, SACalls, Policy
<1>13. CASE AddRoute(s)
  <2>1. /\ Doing(s, "main") /\ Done(s) /\ Accept /\ Register(s, [op |-> "route"])
        /\ UNCHANGED <<sas, pol, link, rules, memVars>>
    BY <1>13 DEF AddRoute
  <2>2. Undos(s)' = Undos(s) \cup {[op |-> "route"]}
    BY <1>2, <2>1, RegisterAppends
  <2>3. /\ Left(s) = Left(s)' \cup {"main"}
        /\ Onward(s)
        /\ "from" \in Left(s)' => "link" \notin Left(s)'
    BY <1>1, <2>1, CallDone DEF Onward
  <2> QED
    BY <1>3, <2>1, <2>2, <2>3 DEF Accept, SetupEffect, SACalls, Policy
<1> QED
  BY <1>4, <1>5, <1>6, <1>7, <1>8, <1>9, <1>10, <1>11, <1>12, <1>13
  DEF SetupStep

AbortEffect(s) ==
    /\ phase[s] = "setup" /\ phase'[s] = "cleaning" /\ todo'[s] = <<>>
    /\ UNCHANGED <<sas, mode[s], sock[s], xfrm[s], pol[s], rk[s], mob[s],
                   late[s]>>
    /\ failed[s] \subseteq failed'[s]
    /\ "undo" \in failed'[s] => "undo" \in failed[s]
    /\ \/ Undos(s)' = Undos(s)
       \/ Undos(s)' = Undos(s) \cup {[op |-> "rules", table |-> link[s]]}
    /\ link'[s] \in {link[s], 0}
    /\ s \in mainRoutes' => s \in mainRoutes
    /\ \A q \in rules' : q.own = s =>
         \/ q \in rules
         \/ /\ q.table = link[s]
            /\ [op |-> "rules", table |-> link[s]] \in Undos(s)'

LEMMA AbortHasEffect ==
    ASSUME DTypeOK, NEW s \in Session, AbortStep(s)
    PROVE  AbortEffect(s)
<1>1. [op |-> "rules", table |-> link[s]] \in Undo
  BY DEF Undo, DTypeOK
<1>2. ASSUME Abort(s)
      PROVE  /\ phase'[s] = "cleaning" /\ todo'[s] = <<>>
             /\ UNCHANGED <<mode, sock, xfrm, rk, mob, late>>
  BY <1>2 DEF Abort, DTypeOK
<1>3. ASSUME NEW c, c # "undo", Refuse(s, c)
      PROVE  /\ failed[s] \subseteq failed'[s]
             /\ "undo" \in failed'[s] => "undo" \in failed[s]
  BY <1>3 DEF Refuse, DTypeOK
<1>4. ASSUME CloseTUN(s)
      PROVE  link'[s] \in {link[s], 0} /\ (s \in mainRoutes' => s \in mainRoutes)
  BY <1>4 DEF CloseTUN, DTypeOK
<1>5. CASE LinkRefused(s)
  <2>1. /\ phase[s] = "setup" /\ Refuse(s, "link") /\ Abort(s)
        /\ link' = [link EXCEPT ![s] = 0] /\ mainRoutes' = mainRoutes \ {s}
        /\ UNCHANGED <<sas, pol, rules, undos>>
    BY <1>5 DEF LinkRefused, Doing
  <2> QED
    BY <1>2, <1>3, <2>1 DEF AbortEffect, Undos, DTypeOK
<1>6. CASE InputRuleRefused(s)
  <2>1. /\ phase[s] = "setup" /\ Refuse(s, "rules") /\ Abort(s) /\ CloseTUN(s)
        /\ Register(s, [op |-> "rules", table |-> link[s]])
        /\ \A q \in rules' : q.own = s => q \in rules \/ q.table = link[s]
        /\ UNCHANGED <<sas, pol>>
    BY <1>6 DEF InputRuleRefused, RegisterFlush, Doing, without, ruleOf
  <2>2. Undos(s)' = Undos(s) \cup {[op |-> "rules", table |-> link[s]]}
    BY <1>1, <2>1, RegisterAppends
  <2> QED
    BY <1>2, <1>3, <1>4, <2>1, <2>2 DEF AbortEffect
<1>7. CASE RuleRefused(s)
  <2>1. /\ phase[s] = "setup" /\ Refuse(s, "from") /\ Abort(s) /\ CloseTUN(s)
        /\ \A q \in rules' : q \in rules
        /\ UNCHANGED <<sas, pol, undos>>
    BY <1>7 DEF RuleRefused, Doing, without
  <2> QED
    BY <1>2, <1>3, <1>4, <2>1 DEF AbortEffect, Undos
<1>8. CASE Refused(s)
  <2>1. PICK c : c # "undo" /\ phase[s] = "setup" /\ Refuse(s, c)
    BY <1>8 DEF Refused, Doing
  <2>2. Abort(s) /\ CloseTUN(s) /\ UNCHANGED <<sas, pol, rules, undos>>
    BY <1>8 DEF Refused
  <2> QED
    BY <1>2, <1>3, <1>4, <2>1, <2>2 DEF AbortEffect, Undos
<1> QED
  BY <1>5, <1>6, <1>7, <1>8 DEF AbortStep

LEMMA AbortAccount ==
    ASSUME DTypeOK, NEW s \in Session, Account(s), AbortEffect(s)
    PROVE  Account(s)'
<1>1. /\ phase[s] = "setup" /\ phase'[s] = "cleaning" /\ todo'[s] = <<>>
      /\ UNCHANGED <<sas, mode[s], sock[s], xfrm[s], pol[s], rk[s], mob[s],
                     late[s]>>
      /\ Left(s)' = {} /\ Len(todo'[s]) = 0
      /\ Undos(s) \subseteq Undos(s)'
      /\ \A u \in Undos(s)' : u \in Undos(s) \/ u.op # "sa"
      /\ Clean(s)' => Clean(s)
  BY DEF AbortEffect, Left, ToSet, Clean
<1>2. Course(s)'
  BY <1>1 DEF Course, Account
<1>3. SAsKnown(s)'
  <2> SUFFICES ASSUME Clean(s)' PROVE SAsKnown(s)'
    BY DEF SAsKnown
  <2>1. \A x \in sas : x.own = s => mode[s] = "xfrmi" /\ Undoes(s, x)
    BY <1>1 DEF Account, SAsKnown
  <2>2. \A x : Undoes(s, x) => Undoes(s, x)'
    BY <1>1 DEF Undoes
  <2> QED
    BY <1>1, <2>1, <2>2 DEF SAsKnown
<1>4. Registered(s)'
  <2> SUFFICES ASSUME Clean(s)' PROVE Registered(s)'
    BY DEF Registered
  <2>1. Registered(s) /\ Clean(s)
    BY <1>1 DEF Account
  <2>2. \A p \in Policy : pol'[s][p] # None =>
            p \in failed'[s] \/ [op |-> "sp", p |-> p] \in Undos(s)'
    BY <1>1, <2>1 DEF Registered, AbortEffect
  <2>3. /\ mode[s] = "xfrmi" /\ link'[s] # 0 => [op |-> "link"] \in Undos(s)'
        /\ s \in mainRoutes' => [op |-> "route"] \in Undos(s)'
    BY <1>1, <2>1 DEF Registered, AbortEffect
  <2>4. ASSUME NEW q \in rules', q.own = s
        PROVE  \E u \in Undos(s)' :
                  u.op = "rules" /\ (q.table = u.table \/ q.kind \in {"iif4", "iif6"})
    <3>1. CASE q \in rules
      BY <1>1, <2>1, <2>4, <3>1 DEF Registered
    <3>2. CASE /\ q.table = link[s]
               /\ [op |-> "rules", table |-> link[s]] \in Undos(s)'
      BY <3>2
    <3> QED
      BY <2>4, <3>1, <3>2 DEF AbortEffect
  <2> QED
    BY <1>1, <2>2, <2>3, <2>4 DEF Registered
<1>5. Path(s)'
  BY <1>1 DEF Path
<1> QED
  BY <1>2, <1>3, <1>4, <1>5 DEF Account
-----------------------------------------------------------------------------
(* Beginning, leaving and cleaning up. *)

LEMMA StepsAsSets ==
    /\ ToSet(XfrmSteps) = {"encap", "link", "saOut", "saIn", "out4", "in4",
                           "fwd4", "out6", "in6", "up", "addr", "rules"}
    /\ ToSet(TunSteps) = {"link", "up", "addr", "rules"}
    /\ Ordered(XfrmSteps) /\ Ordered(TunSteps)
BY DEF ToSet, XfrmSteps, TunSteps, Ordered

LEMMA StartAccount ==
    ASSUME DTypeOK, NEW s \in Session, Account(s), NEW a \in Pair, StartSetup(s, a)
    PROVE  Account(s)'
<1>1. /\ phase[s] = "down" /\ phase'[s] = "setup"
      /\ todo'[s] = IF mode[s] = "xfrmi" THEN XfrmSteps ELSE TunSteps
      /\ sock'[s] = a
      /\ late'[s] = (late[s] \/ rk[s] # Idle \/ mob[s] # Idle)
      /\ UNCHANGED <<sas, pol, rules, mainRoutes, link, mode, xfrm, rk, mob,
                     undos, failed>>
  BY DEF StartSetup, DTypeOK
<1>2. /\ Ordered(todo[s])'
      /\ mode[s] = "xfrmi" => SACalls \cup Policy \subseteq Left(s)'
      /\ mode[s] = "tun" => Left(s)' \cap (SACalls \cup Policy) = {}
      /\ "from" \notin Left(s)'
  <2>1. CASE mode[s] = "xfrmi"
    <3>1. todo'[s] = XfrmSteps
      BY <1>1, <2>1
    <3> QED
      BY <2>1, <3>1, StepsAsSets DEF Left, SACalls, Policy
  <2>2. CASE mode[s] = "tun"
    <3>1. todo'[s] = TunSteps
      BY <1>1, <2>2
    <3> QED
      BY <2>2, <3>1, StepsAsSets DEF Left, SACalls, Policy
  <2> QED
    BY <2>1, <2>2 DEF DTypeOK
<1>3. Undos(s)' = {} /\ Undos(s) = {}
  BY <1>1 DEF Undos, ToSet, Account, Course
<1>4. Clean(s)' => Clean(s) /\ rk[s] = Idle /\ mob[s] = Idle
  BY <1>1 DEF Clean, DTypeOK
<1>5. Course(s)'
  BY <1>1, <1>2, <1>3, <1>4 DEF Account, Course, Ordered, SACalls
<1>6. Clean(s) => /\ \A x \in sas : x.own # s
                  /\ \A q \in rules : q.own # s
                  /\ s \notin mainRoutes
                  /\ mode[s] = "xfrmi" => link[s] = 0
                  /\ \A p \in Policy : pol[s][p] # None => p \in failed[s]
  BY <1>1, <1>3 DEF Account, SAsKnown, Registered
<1>7. SAsKnown(s)'
  BY <1>1, <1>2, <1>4, <1>6 DEF SAsKnown, SACalls
<1>8. Registered(s)'
  BY <1>1, <1>2, <1>4, <1>6 DEF Registered
<1>9. Path(s)'
  BY <1>1, <1>2 DEF Path, SACalls
<1> QED
  BY <1>5, <1>7, <1>8, <1>9 DEF Account

LEMMA LeaveAccount ==
    ASSUME DTypeOK, NEW s \in Session, Account(s), Leave(s)
    PROVE  Account(s)'
<1>1. /\ phase[s] = "ready" /\ phase'[s] = "cleaning"
      /\ UNCHANGED <<sas, pol, rules, mainRoutes, link, mode, sock, xfrm, rk, mob,
                     undos, todo, failed, late>>
  BY DEF Leave, DTypeOK
<1>2. /\ Left(s)' = Left(s) /\ Undos(s)' = Undos(s) /\ Left(s) = {}
      /\ Clean(s)' => Clean(s)
  BY <1>1 DEF Left, Undos, Clean, Account, Course, ToSet
<1>3. Course(s)'
  BY <1>1, <1>2 DEF Account, Course
<1>4. SAsKnown(s)'
  <2> SUFFICES ASSUME Clean(s)', NEW x \in sas, x.own = s
               PROVE  /\ mode[s] = "xfrmi"
                      /\ xfrm[s] \in Pair /\ Home(x) = xfrm[s].l
    BY <1>1 DEF SAsKnown
  <2>1. mode[s] = "xfrmi" /\ At(s, x, xfrm[s]) /\ xfrm[s] \in Pair
    BY <1>1, <1>2 DEF Account, Course, SAsKnown
  <2> QED
    BY <2>1 DEF At, Home, saOf
<1>5. Registered(s)'
  BY <1>1, <1>2 DEF Account, Registered
<1>6. Path(s)'
  BY <1>1 DEF Path
<1> QED
  BY <1>3, <1>4, <1>5, <1>6 DEF Account

LEMMA UndoAccount ==
    ASSUME DTypeOK, NEW s \in Session, Account(s), UndoLast(s)
    PROVE  Account(s)'
<1> DEFINE u == Last(undos[s])
<1>1. /\ phase[s] = "cleaning" /\ undos[s] # <<>> /\ undos[s] \in Seq(Undo)
      /\ undos'[s] = Front(undos[s])
      /\ UNCHANGED <<mode, sock, xfrm, late, phase, todo, rk, mob>>
  BY DEF UndoLast, DTypeOK
<1>2. Undos(s) = Undos(s)' \cup {u}
  <2>1. ToSet(undos[s]) = ToSet(Front(undos[s])) \cup {u}
    BY <1>1, SequenceFacts
  <2> QED
    BY <1>1, <2>1 DEF Undos
<1>3. Course(s)'
  <2>1. Left(s)' = {} /\ todo[s] = <<>>
    BY <1>1 DEF Left, ToSet, Account, Course
  <2>2. \A w \in Undos(s)' : w.op = "sa" => w.sa.own = s
    BY <1>2 DEF Account, Course
  <2>3. /\ sock[s] \in Pair
        /\ mode[s] = "tun" => rk[s] = Idle /\ mob[s] = Idle
        /\ \A i \in 1..Len(todo[s]) : todo[s][i] = "rules" => i = Len(todo[s])
    BY <1>1 DEF Account, Course
  <2> QED
    BY <1>1, <2>1, <2>2, <2>3 DEF Course
<1>4. Path(s)'
  BY <1>1 DEF Path
<1>5. ASSUME Clean(s)'
      PROVE  Effect(s, u) /\ failed' = failed /\ Clean(s)
  <2>1. ~Refuse(s, "undo")
    BY <1>5 DEF Refuse, Clean, DTypeOK
  <2> QED
    BY <1>1, <1>5, <2>1 DEF UndoLast, Accept, Clean
<1> HIDE DEF u
<1>6. SAsKnown(s)'
  <2> SUFFICES ASSUME Clean(s)', NEW x \in sas', x.own = s
               PROVE  /\ mode[s] = "xfrmi"
                      /\ Undoes(s, x)' \/ (xfrm[s] \in Pair /\ Home(x) = xfrm[s].l)
    BY <1>1 DEF SAsKnown
  <2>1. x \in sas /\ (u.op = "sa" => ~same(x, u.sa))
    BY <1>5 DEF Effect, DelSA, same
  <2>2. /\ mode[s] = "xfrmi"
        /\ Undoes(s, x) \/ (xfrm[s] \in Pair /\ Home(x) = xfrm[s].l)
    BY <1>1, <1>5, <2>1 DEF Account, SAsKnown
  <2>3. Undoes(s, x) => Undoes(s, x)'
    BY <1>2, <2>1 DEF Undoes, same
  <2> QED
    BY <2>2, <2>3
<1>7. Registered(s)'
  <2> SUFFICES ASSUME Clean(s)' PROVE Registered(s)'
    BY DEF Registered
  <2>1. Registered(s) /\ Clean(s) /\ Effect(s, u) /\ failed' = failed
    BY <1>5 DEF Account
  <2>2. ASSUME NEW p \in Policy, pol'[s][p] # None
        PROVE  p \in failed'[s] \/ [op |-> "sp", p |-> p] \in Undos(s)'
    <3>1. pol[s][p] # None
      BY <2>1, <2>2 DEF Effect, DelSP, DTypeOK
    <3>2. ~(u.op = "sp" /\ u.p = p)
      BY <2>1, <2>2 DEF Effect, DelSP, DTypeOK
    <3> QED
      BY <1>2, <2>1, <3>1, <3>2 DEF Registered
  <2>3. ASSUME mode[s] = "xfrmi", link'[s] # 0
        PROVE  [op |-> "link"] \in Undos(s)'
    <3>1. link[s] # 0 /\ u.op # "link"
      BY <2>1, <2>3 DEF Effect, DTypeOK
    <3> QED
      BY <1>2, <2>1, <2>3, <3>1 DEF Registered
  <2>4. ASSUME s \in mainRoutes'
        PROVE  [op |-> "route"] \in Undos(s)'
    <3>1. s \in mainRoutes /\ u.op # "route"
      BY <2>1, <2>4 DEF Effect
    <3> QED
      BY <1>2, <2>1, <3>1 DEF Registered
  <2>5. ASSUME NEW q \in rules', q.own = s
        PROVE  \E w \in Undos(s)' :
                  w.op = "rules" /\ (q.table = w.table \/ q.kind \in {"iif4", "iif6"})
    <3>1. /\ q \in rules
          /\ u.op = "rules" => q.table # u.table /\ q.kind \notin {"iif4", "iif6"}
      BY <2>1, <2>5 DEF Effect, FlushRules
    <3>2. PICK w \in Undos(s) :
             w.op = "rules" /\ (q.table = w.table \/ q.kind \in {"iif4", "iif6"})
      BY <2>1, <2>5, <3>1 DEF Registered
    <3> QED
      BY <1>2, <3>1, <3>2
  <2> QED
    BY <1>1, <2>2, <2>3, <2>4, <2>5 DEF Account, Course, Registered
<1> QED
  BY <1>3, <1>4, <1>6, <1>7 DEF Account

LEMMA FlushAccount ==
    ASSUME DTypeOK, NEW s \in Session, Account(s), FlushSAs(s)
    PROVE  Account(s)'
<1>1. /\ phase[s] = "cleaning" /\ phase'[s] = "down" /\ undos[s] = <<>>
      /\ UNCHANGED <<pol, link, rules, mainRoutes, mode, sock, xfrm, late, todo,
                     undos, rk, mob>>
  BY DEF FlushSAs, DTypeOK
<1>2. Undos(s)' = Undos(s) /\ Undos(s) = {} /\ Left(s)' = Left(s)
  BY <1>1 DEF Undos, Left, ToSet
<1>3. ASSUME Clean(s)'
      PROVE  /\ Clean(s) /\ failed' = failed
             /\ sas' = FlushByIP(sas, IF mode[s] = "xfrmi" /\ xfrm[s] # None
                                      THEN xfrm[s].l ELSE None)
  <2>1. ~Refuse(s, "undo")
    BY <1>3 DEF Refuse, Clean, DTypeOK
  <2> QED
    BY <1>1, <1>3, <2>1 DEF FlushSAs, Accept, Clean
<1>4. Course(s)'
  BY <1>1, <1>2 DEF Account, Course
<1>5. SAsKnown(s)'
  <2> SUFFICES ASSUME Clean(s)', NEW x \in sas', x.own = s PROVE FALSE
    BY <1>1 DEF SAsKnown
  <2>1. x \in sas
    BY <1>3 DEF FlushByIP
  <2>2. mode[s] = "xfrmi" /\ xfrm[s] \in Pair /\ Home(x) = xfrm[s].l
    BY <1>1, <1>2, <1>3, <2>1 DEF Account, SAsKnown, Undoes
  <2>3. xfrm[s] # None
    BY <2>2 DEF Pair
  <2>4. x.src # xfrm[s].l /\ x.dst # xfrm[s].l
    BY <1>3, <2>2, <2>3 DEF FlushByIP
  <2> QED
    BY <2>2, <2>4 DEF Home
<1>6. Registered(s)'
  BY <1>1, <1>2, <1>3 DEF Account, Registered
<1>7. Path(s)'
  BY <1>1 DEF Path
<1> QED
  BY <1>4, <1>5, <1>6, <1>7 DEF Account
-----------------------------------------------------------------------------
(* A rekey or an address update at work. *)

Settled(s) ==
    /\ xfrm'[s] = xfrm[s]
    /\ \A x \in sas' : x.own = s =>
         x \in sas \/ (mode[s] = "xfrmi" /\ At(s, x, xfrm[s]))
    /\ rk'[s] # Idle => rk'[s].a = xfrm[s]
    /\ mob'[s].pc \in {"in", "sps"} => mob'[s].a.r = xfrm[s].r
    /\ mob'[s].pc = "sps" => mob'[s].a = xfrm[s]

TaskFrame(s) ==
    /\ UNCHANGED <<link, rules, mainRoutes, mode[s], phase[s], todo[s], undos[s],
                   robbed[s]>>
    /\ failed[s] \subseteq failed'[s]
    /\ late'[s] = (late[s] \/ phase[s] # "ready")

TaskEffect(s) ==
    /\ TaskFrame(s)
    /\ sock'[s] \in {sock[s]} \cup Pair
    /\ xfrm'[s] \in {xfrm[s]} \cup Pair
    /\ mode[s] = "tun" => UNCHANGED <<rk[s], mob[s], pol[s]>>
    /\ Clean(s)' => Settled(s)
    /\ Path(s)'

LEMMA TaskAccount ==
    ASSUME DTypeOK, NEW s \in Session, Account(s), TaskEffect(s)
    PROVE  Account(s)'
<1>1. /\ UNCHANGED <<link, rules, mainRoutes, mode[s], phase[s], todo[s], undos[s]>>
      /\ failed[s] \subseteq failed'[s]
      /\ Left(s)' = Left(s) /\ Undos(s)' = Undos(s)
  BY DEF TaskEffect, TaskFrame, Left, Undos
<1>2. Clean(s)' => Clean(s) /\ phase[s] = "ready" /\ Settled(s)
  BY DEF TaskEffect, TaskFrame, Clean
<1>3. Course(s)'
  <2>1. Course(s)
    BY DEF Account
  <2>2. phase[s] # "down" => sock'[s] \in Pair
    BY <2>1 DEF Course, TaskEffect
  <2>3. phase[s] \in {"setup", "ready"} /\ mode[s] = "xfrmi" =>
            "saIn" \in Left(s) \/ xfrm'[s] \in Pair
    BY <2>1 DEF Course, TaskEffect
  <2>4. mode[s] = "tun" => rk'[s] = Idle /\ mob'[s] = Idle
    BY <2>1 DEF Course, TaskEffect
  <2> QED
    BY <1>1, <1>2, <2>1, <2>2, <2>3, <2>4 DEF Course
<1>4. SAsKnown(s)'
  <2> SUFFICES ASSUME Clean(s)' PROVE SAsKnown(s)'
    BY DEF SAsKnown
  <2>1. phase[s] = "ready" /\ Settled(s) /\ SAsKnown(s) /\ Clean(s)
    BY <1>2 DEF Account
  <2>2. ASSUME NEW x \in sas', x.own = s
        PROVE  mode[s] = "xfrmi" /\ At(s, x, xfrm[s])
    BY <2>1, <2>2 DEF Settled, SAsKnown
  <2> QED
    BY <1>1, <2>1, <2>2 DEF SAsKnown, Settled, At
<1>5. Registered(s)'
  <2> SUFFICES ASSUME Clean(s)' PROVE Registered(s)'
    BY DEF Registered
  <2>1. phase[s] = "ready" /\ Registered(s) /\ Clean(s) /\ Left(s) = {}
    BY <1>2 DEF Account, Course, Left, ToSet
  <2>2. ASSUME NEW p \in Policy, pol'[s][p] # None
        PROVE  p \in failed'[s] \/ [op |-> "sp", p |-> p] \in Undos(s)
    <3>1. CASE mode[s] = "xfrmi"
      BY <1>1, <2>1, <3>1 DEF Registered
    <3>2. CASE mode[s] = "tun"
      BY <1>1, <2>1, <2>2, <3>2 DEF Registered, TaskEffect
    <3> QED
      BY <3>1, <3>2 DEF DTypeOK
  <2> QED
    BY <1>1, <2>1, <2>2 DEF Registered
<1> QED
  BY <1>3, <1>4, <1>5 DEF Account, TaskEffect

LEMMA RefuseAdds ==
    ASSUME DTypeOK, NEW s \in Session, NEW c, Accept \/ Refuse(s, c)
    PROVE  /\ failed[s] \subseteq failed'[s]
           /\ Refuse(s, c) => failed'[s] # {}
<1>1. CASE Refuse(s, c)
  <2>1. failed'[s] = failed[s] \cup {c}
    BY <1>1 DEF Refuse, DTypeOK
  <2> QED
    BY <2>1
<1>2. CASE Accept /\ ~Refuse(s, c)
  BY <1>2 DEF Accept
<1> QED
  BY <1>1, <1>2

LEMMA BesideFrame ==
    ASSUME DTypeOK, NEW s \in Session, Beside(s), mode' = mode,
           failed[s] \subseteq failed'[s]
    PROVE  TaskFrame(s)
BY DEF Beside, TaskFrame, DTypeOK

LEMMA Unspoilt ==
    ASSUME DTypeOK, NEW s \in Session, Account(s), TaskFrame(s)
    PROVE  /\ Clean(s)' => Clean(s) /\ phase[s] = "ready" /\ SAsKnown(s)
           /\ Sound(s)' => /\ Sound(s) /\ Clean(s) /\ phase[s] = "ready"
                           /\ Path(s) /\ SAsKnown(s) /\ failed'[s] = {}
BY DEF TaskFrame, Account, Clean, Sound

LEMMA RekeyHasEffect ==
    ASSUME DTypeOK, NEW s \in Session, Account(s), RekeyTask(s)
    PROVE  TaskEffect(s)
<1>1. CASE RekeyAnswered(s)
  <2>1. /\ phase[s] = "ready" /\ mode[s] = "xfrmi"
        /\ rk'[s] = [pc |-> "del", a |-> xfrm[s], old |-> cur[s], new |-> spi + 1]
        /\ cur'[s] = spi + 1
        /\ UNCHANGED <<kernelVars, mode, sock, xfrm, histVars, phase, todo, undos,
                       mob, failed>>
    BY <1>1 DEF RekeyAnswered, DTypeOK
  <2>2. TaskFrame(s)
    BY <2>1 DEF TaskFrame, DTypeOK
  <2>3. Clean(s)' => Settled(s)
    BY <2>1, <2>2, Unspoilt DEF Settled, SAsKnown
  <2>4. Path(s)'
    BY <2>1, <2>2, Unspoilt, IdleNotTask DEF Path, Idle
  <2> QED
    BY <2>1, <2>2, <2>3, <2>4 DEF TaskEffect
<1>2. ASSUME rk[s] # Idle
      PROVE  rk[s] \in Rekeying /\ mode[s] = "xfrmi"
  BY <1>2 DEF DTypeOK, Account, Course
<1>3. ASSUME NEW from \in {"del", "out", "in", "sps"},
             NEW to \in {"out", "in", "sps", "idle"}, RekeyStep(s, from, to)
      PROVE  /\ rk[s] \in Rekeying /\ rk[s].pc = from /\ mode[s] = "xfrmi"
             /\ Beside(s) /\ UNCHANGED <<mob, memVars, reverted>>
             /\ to = "idle" => rk'[s] = Idle
             /\ to # "idle" => rk'[s] \in Rekeying /\ rk'[s].pc = to
                               /\ rk'[s].a = rk[s].a /\ rk'[s].new = rk[s].new
  <2>1. rk[s] \in Rekeying /\ rk[s].pc = from /\ mode[s] = "xfrmi"
    BY <1>2, <1>3, IdleNotTask DEF RekeyStep, DTypeOK
  <2>2. rk'[s] = IF to = "idle" THEN Idle ELSE [rk[s] EXCEPT !.pc = to]
    BY <1>3 DEF RekeyStep, DTypeOK
  <2> QED
    BY <1>3, <2>1, <2>2 DEF RekeyStep, Rekeying
<1>4. ASSUME NEW from \in {"del", "out", "in", "sps"},
             NEW to \in {"out", "in", "sps", "idle"}, RekeyStep(s, from, to),
             failed[s] \subseteq failed'[s],
             TaskFrame(s) /\ SAsKnown(s) /\ Clean(s) /\ phase[s] = "ready" =>
                \A x \in sas' : x.own = s => x \in sas \/ At(s, x, rk[s].a)
      PROVE  /\ TaskFrame(s)
             /\ Clean(s)' => Settled(s)
  <2>1. TaskFrame(s)
    BY <1>3, <1>4, BesideFrame
  <2>2. ASSUME Clean(s)' PROVE Settled(s)
    <3>1. Clean(s) /\ phase[s] = "ready" /\ SAsKnown(s)
      BY <2>1, <2>2, Unspoilt
    <3>2. rk[s].a = xfrm[s] /\ rk[s] # Idle
      BY <1>3, <1>4, <3>1, IdleNotTask DEF SAsKnown
    <3> QED
      BY <1>3, <1>4, <2>1, <3>1, <3>2 DEF Settled, SAsKnown
  <2> QED
    BY <2>1, <2>2
<1>5. CASE RekeyDelete(s)
  <2>1. /\ RekeyStep(s, "del", "out") /\ \A x \in sas' : x \in sas
        /\ Accept \/ Refuse(s, "rekey")
        /\ pol' = pol
    BY <1>5 DEF RekeyDelete
  <2>2. failed[s] \subseteq failed'[s]
    BY <2>1, RefuseAdds
  <2>3. TaskFrame(s) /\ (Clean(s)' => Settled(s))
    BY <1>4, <2>1, <2>2
  <2>4. Path(s)'
    BY <1>3, <2>1, <2>3, Unspoilt, IdleNotTask DEF Path, TaskFrame
  <2> QED
    BY <1>3, <2>1, <2>3, <2>4 DEF TaskEffect
<1>6. ASSUME NEW d \in {"out", "in"}, RekeyAdd(s, d) PROVE TaskEffect(s)
  <2> DEFINE x == saOf(s, d, rk[s].new, rk[s].a)
  <2>1. /\ \E to \in {"in", "sps", "idle"} : RekeyStep(s, d, to)
        /\ sas' = sas \cup {x} \/ sas' = sas
        /\ Accept \/ Refuse(s, "rekey")
        /\ pol' = pol
    BY <1>6 DEF RekeyAdd, InstallSA
  <2>2. x.own = s /\ At(s, x, rk[s].a)
    BY DEF saOf, At
  <2>3. failed[s] \subseteq failed'[s]
    BY <2>1, RefuseAdds
  <2>4. \A y \in sas' : y.own = s => y \in sas \/ At(s, y, rk[s].a)
    BY <2>1, <2>2
  <2>5. TaskFrame(s) /\ (Clean(s)' => Settled(s))
    BY <1>4, <2>1, <2>3, <2>4
  <2>6. Path(s)'
    <3> SUFFICES ASSUME Sound(s)' PROVE Path(s)'
      BY DEF Path
    <3>1. /\ Sound(s) /\ Clean(s) /\ phase[s] = "ready" /\ Path(s) /\ SAsKnown(s)
          /\ failed'[s] = {}
      BY <2>5, Unspoilt
    <3>2. ~Refuse(s, "rekey")
      BY <3>1, RefuseAdds
    <3>3. /\ RekeyStep(s, d, IF d = "out" THEN "in" ELSE "sps")
          /\ sas' = sas \cup {x}
      BY <1>6, <3>2 DEF RekeyAdd, InstallSA
    <3>4. /\ rk[s].pc = d /\ rk[s] # Idle /\ rk[s].a = xfrm[s] /\ mode[s] = "xfrmi"
          /\ rk[s].new = cur[s]
      BY <1>3, <3>1, <3>3, IdleNotTask DEF SAsKnown, Path
    <3>5. /\ rk'[s].pc = (IF d = "out" THEN "in" ELSE "sps") /\ rk'[s] # Idle
          /\ rk'[s].new = cur[s] /\ UNCHANGED <<mode, cur, xfrm>>
      BY <1>3, <3>3, <3>4, IdleNotTask
    <3>6. phase'[s] = "ready"
      BY <2>5, <3>1 DEF TaskFrame
    <3>7. saOf(s, d, cur[s], xfrm[s]) \in sas'
      BY <3>3, <3>4
    <3>8. d = "in" => saOf(s, "out", cur[s], xfrm[s]) \in sas'
      BY <3>1, <3>3, <3>4 DEF Path
    <3> QED
      BY <3>5, <3>6, <3>7, <3>8 DEF Path
  <2> QED
    BY <1>3, <2>1, <2>5, <2>6 DEF TaskEffect
<1>7. CASE RekeySPs(s)
  <2>1. /\ RekeyStep(s, "sps", "idle") /\ sas' = sas
        /\ Rewrite(s, Policy \ {"fwd4"}, rk[s].new, rk[s].a, "rekey")
    BY <1>7 DEF RekeySPs
  <2>2. PICK D \in {Policy \ {"fwd4"}} \cup
                   {(Policy \ {"fwd4"}) \ {q} : q \in Policy \ {"fwd4"}} :
           /\ pol' = [pol EXCEPT ![s] = [p \in Policy |->
                 IF p \in D THEN template(p, rk[s].new, rk[s].a) ELSE pol[s][p]]]
           /\ IF D = Policy \ {"fwd4"} THEN Accept ELSE Refuse(s, "rekey")
    BY <2>1 DEF Rewrite
  <2>3. failed[s] \subseteq failed'[s]
    BY <2>2, RefuseAdds
  <2>4. TaskFrame(s) /\ (Clean(s)' => Settled(s))
    BY <1>4, <2>1, <2>3
  <2>5. Path(s)'
    <3> SUFFICES ASSUME Sound(s)' PROVE Path(s)'
      BY DEF Path
    <3>1. /\ Sound(s) /\ Clean(s) /\ phase[s] = "ready" /\ Path(s) /\ SAsKnown(s)
          /\ failed'[s] = {}
      BY <2>4, Unspoilt
    <3>2. ~Refuse(s, "rekey")
      BY <3>1, RefuseAdds
    <3>3. D = Policy \ {"fwd4"}
      BY <2>2, <3>2
    <3>4. /\ rk[s].pc = "sps" /\ rk[s] # Idle /\ rk[s].a = xfrm[s]
          /\ mode[s] = "xfrmi" /\ rk[s].new = cur[s]
          /\ rk'[s] = Idle /\ UNCHANGED <<mode, cur, xfrm>>
      BY <1>3, <2>1, <3>1, IdleNotTask DEF SAsKnown, Path
    <3>5. \A p \in Policy \ {"fwd4"} :
              pol'[s][p] = template(p, cur[s], xfrm[s])
      BY <2>2, <3>3, <3>4 DEF DTypeOK
    <3>6. /\ saOf(s, "out", cur[s], xfrm[s]) \in sas'
          /\ saOf(s, "in", cur[s], xfrm[s]) \in sas'
      BY <2>1, <3>1, <3>4 DEF Path
    <3>7. phase'[s] = "ready"
      BY <2>4, <3>1 DEF TaskFrame
    <3> QED
      BY <3>4, <3>5, <3>6, <3>7 DEF Path
  <2> QED
    BY <1>3, <2>1, <2>4, <2>5 DEF TaskEffect
<1> QED
  BY <1>1, <1>5, <1>6, <1>7 DEF RekeyTask

LEMMA MoveHasEffect ==
    ASSUME DTypeOK, NEW s \in Session, Account(s), MoveTask(s)
    PROVE  TaskEffect(s)
<1>1. ASSUME NEW a \in Pair, phase[s] = "ready", sock'[s] \in {sock[s]} \cup Pair,
             \/ mob'[s] = mob[s]
             \/ mode[s] = "xfrmi" /\ mob'[s] = [pc |-> "out", a |-> a],
             UNCHANGED <<kernelVars, mode, xfrm, cur, histVars, phase, todo,
                         undos, rk, failed>>
      PROVE  TaskEffect(s)
  <2>1. TaskFrame(s)
    BY <1>1 DEF TaskFrame, DTypeOK
  <2>2. Clean(s)' => Settled(s)
    BY <1>1, <2>1, Unspoilt DEF Settled, SAsKnown
  <2>3. Path(s)'
    BY <1>1, <2>1, Unspoilt DEF Path
  <2> QED
    BY <1>1, <2>1, <2>2, <2>3 DEF TaskEffect
<1>2. ASSUME NEW a \in Pair, UpdateAddresses(s, a) PROVE TaskEffect(s)
  <2>1. /\ phase[s] = "ready" /\ sock'[s] = a
        /\ UNCHANGED <<kernelVars, mode, xfrm, cur, histVars, phase, todo,
                       undos, rk, failed>>
    BY <1>2 DEF UpdateAddresses, DTypeOK
  <2>2. \/ mob'[s] = mob[s]
        \/ mode[s] = "xfrmi" /\ mob'[s] = [pc |-> "out", a |-> a]
    BY <1>2 DEF UpdateAddresses, DTypeOK
  <2> QED
    BY <1>1, <2>1, <2>2
<1>3. CASE handleUpdateSAAddresses(s)
  <2>1. /\ phase[s] = "ready" /\ mode[s] = "xfrmi"
        /\ mob'[s] = [pc |-> "out", a |-> sock[s]]
        /\ UNCHANGED <<kernelVars, memVars, histVars, phase, todo, undos, rk,
                       failed>>
    BY <1>3 DEF handleUpdateSAAddresses, DTypeOK
  <2>2. sock[s] \in Pair
    BY <2>1 DEF Account, Course
  <2> QED
    BY <1>1, <2>1, <2>2
<1>4. ASSUME NEW from \in {"out", "in", "sps"},
             NEW to \in {"in", "sps", "idle"}, MoveStep(s, from, to)
      PROVE  /\ mob[s] \in Moving /\ mob[s].pc = from /\ mode[s] = "xfrmi"
             /\ Beside(s) /\ UNCHANGED <<rk, mode, sock, cur, xfrmPolicies>>
             /\ to = "idle" => mob'[s] = Idle
             /\ to # "idle" => mob'[s] = [pc |-> to, a |-> mob[s].a]
  <2>1. mob[s] \in Moving /\ mob[s].pc = from
    BY <1>4, IdleNotTask DEF MoveStep, DTypeOK
  <2>2. mode[s] = "xfrmi"
    BY <2>1, IdleNotTask DEF DTypeOK, Account, Course
  <2>3. mob'[s] = IF to = "idle" THEN Idle ELSE [mob[s] EXCEPT !.pc = to]
    BY <1>4 DEF MoveStep, DTypeOK
  <2> QED
    BY <1>4, <2>1, <2>2, <2>3 DEF MoveStep, Moving
<1>5. ASSUME NEW d \in {"out", "in"}, UpdateSA(s, d) PROVE TaskEffect(s)
  <2> DEFINE x == saOf(s, d, cur[s], mob[s].a)
  <2>1. /\ mob[s].pc = d /\ UNCHANGED <<sas, pol, xfrm, reverted>>
        /\ \E to \in {"in", "sps", "idle"} : MoveStep(s, d, to)
        /\ \/ mob'[s] = Idle
           \/ /\ mob'[s] = [pc |-> IF d = "out" THEN "in" ELSE "sps", a |-> mob[s].a]
              /\ \E y \in sas : same(x, y)
    BY <1>4, <1>5 DEF UpdateSA
  <2>2. failed[s] \subseteq failed'[s]
    <3>1. \E c : failed' = failed \/ failed' = [failed EXCEPT ![s] = @ \cup {c}]
      BY <1>5 DEF UpdateSA, Accept, Refuse
    <3> QED
      BY <3>1 DEF DTypeOK
  <2>3. /\ TaskFrame(s) /\ mode[s] = "xfrmi" /\ UNCHANGED <<rk, mode, sock, cur>>
        /\ mob[s] \in Moving
    BY <1>4, <2>1, <2>2, BesideFrame
  <2>4. Clean(s)' => Settled(s)
    <3> SUFFICES ASSUME Clean(s)' PROVE Settled(s)
      OBVIOUS
    <3>1. Clean(s) /\ phase[s] = "ready" /\ SAsKnown(s)
      BY <2>3, Unspoilt
    <3>2. \A y \in sas : y.own = s => At(s, y, xfrm[s])
      BY <3>1 DEF SAsKnown
    <3>3. rk[s] # Idle => rk[s].a = xfrm[s]
      BY <3>1 DEF SAsKnown
    <3>4. ASSUME NEW y \in sas, same(x, y)
          PROVE  /\ d = "out" => mob[s].a.r = xfrm[s].r
                 /\ d = "in" => mob[s].a.l = xfrm[s].l
      <4>1. y.own = s /\ y.dir = d /\ y.dst = x.dst
        BY <3>4 DEF same, saOf
      <4>2. y = saOf(s, d, y.n, xfrm[s])
        BY <3>2, <4>1 DEF At
      <4> QED
        BY <4>1, <4>2 DEF saOf
    <3>5. d = "in" => mob[s].a.r = xfrm[s].r
      BY <2>1, <3>1 DEF SAsKnown
    <3>6. mob[s].a \in Pair /\ xfrm[s] \in Pair
      BY <2>3, <3>1 DEF Moving, Account, Course, Left, ToSet
    <3>7. d = "in" /\ (\E y \in sas : same(x, y)) => mob[s].a = xfrm[s]
      BY <3>4, <3>5, <3>6 DEF Pair
    <3>8. CASE mob'[s] = Idle
      BY <2>1, <2>3, <3>3, <3>8, IdleNotTask DEF Settled
    <3>9. CASE /\ mob'[s] = [pc |-> IF d = "out" THEN "in" ELSE "sps", a |-> mob[s].a]
               /\ \E y \in sas : same(x, y)
      BY <2>1, <2>3, <3>3, <3>4, <3>7, <3>9 DEF Settled
    <3> QED
      BY <2>1, <3>8, <3>9
  <2>5. Path(s)'
    BY <2>1, <2>3, Unspoilt DEF Path, TaskFrame
  <2> QED
    BY <2>1, <2>3, <2>4, <2>5 DEF TaskEffect
<1>6. CASE UpdateSPs(s)
  <2>1. /\ MoveStep(s, "sps", "idle") /\ sas' = sas
        /\ Rewrite(s, Policy, xfrmPolicies[s], mob[s].a, "move")
        /\ xfrm' = [xfrm EXCEPT ![s] = mob[s].a]
        /\ reverted' = [reverted EXCEPT ![s] = xfrmPolicies[s] # cur[s]]
    BY <1>6 DEF UpdateSPs
  <2>2. PICK D \in {Policy} \cup {Policy \ {q} : q \in Policy} :
           /\ pol' = [pol EXCEPT ![s] = [p \in Policy |->
                 IF p \in D THEN template(p, xfrmPolicies[s], mob[s].a)
                            ELSE pol[s][p]]]
           /\ IF D = Policy THEN Accept ELSE Refuse(s, "move")
    BY <2>1 DEF Rewrite
  <2>3. failed[s] \subseteq failed'[s]
    BY <2>2, RefuseAdds
  <2>4. /\ TaskFrame(s) /\ mode[s] = "xfrmi" /\ UNCHANGED <<rk, mode, sock, cur>>
        /\ mob[s] \in Moving /\ mob[s].pc = "sps" /\ mob'[s] = Idle
    BY <1>4, <2>1, <2>3, BesideFrame
  <2>5. xfrm'[s] = mob[s].a /\ xfrm'[s] \in Pair
    BY <2>1, <2>4 DEF Moving, DTypeOK
  <2>6. Clean(s)' => Settled(s) /\ mob[s].a = xfrm[s]
    BY <2>1, <2>4, <2>5, Unspoilt, IdleNotTask DEF Settled, SAsKnown
  <2>7. Path(s)'
    <3> SUFFICES ASSUME Sound(s)' PROVE Path(s)'
      BY DEF Path
    <3>1. /\ Sound(s) /\ Clean(s) /\ phase[s] = "ready" /\ Path(s) /\ SAsKnown(s)
          /\ failed'[s] = {}
      BY <2>4, Unspoilt
    <3>2. xfrm'[s] = xfrm[s] /\ mob[s].a = xfrm[s]
      BY <2>4, <2>5, <3>1 DEF SAsKnown
    <3>3. D = Policy
      <4>1. ~Refuse(s, "move")
        BY <3>1, RefuseAdds
      <4> QED
        BY <2>2, <4>1
    <3>4. \A p \in Policy : pol'[s][p] = template(p, xfrmPolicies[s], xfrm[s])
      BY <2>2, <3>2, <3>3 DEF DTypeOK
    <3>5. ~reverted'[s] => xfrmPolicies[s] = cur[s]
      BY <2>1 DEF DTypeOK
    <3>6. phase'[s] = "ready"
      BY <2>4, <3>1 DEF TaskFrame
    <3> QED
      BY <2>1, <2>4, <3>1, <3>2, <3>4, <3>5, <3>6 DEF Path
  <2> QED
    BY <2>4, <2>5, <2>6, <2>7 DEF TaskEffect
<1> QED
  BY <1>2, <1>3, <1>5, <1>6 DEF MoveTask
-----------------------------------------------------------------------------
LEMMA StepDInv == DInv /\ [Next]_vars => DInv'
<1> SUFFICES ASSUME DInv, [Next]_vars PROVE DInv'
  OBVIOUS
<1>1. DTypeOK /\ \A s \in Session : Account(s)
  BY DEF DInv
<1>2. CASE UNCHANGED vars
  <2>1. DTypeOK'
    BY <1>1, <1>2 DEF vars, DTypeOK
  <2>2. ASSUME NEW s \in Session PROVE Account(s)'
    <3>1. Elsewhere(s)
      BY <1>1, <1>2 DEF vars, Elsewhere, DTypeOK
    <3> QED
      BY <1>1, <3>1, ElsewhereKeeps
  <2> QED
    BY <2>1, <2>2 DEF DInv
<1>3. ASSUME NEW t \in Session,
             \/ SetupStep(t) \/ AbortStep(t) \/ RekeyTask(t) \/ MoveTask(t)
             \/ \E a \in Pair : StartSetup(t, a)
             \/ Leave(t) \/ UndoLast(t) \/ FlushSAs(t)
      PROVE  DInv'
  <2>1. DTypeOK /\ Account(t) /\ Course(t)
    BY <1>1 DEF Account
  <2>2. DTypeOK'
    BY <1>3, <2>1, ConnectTypes, DownTypes, TaskTypes
  <2>3. Account(t)'
    <3>1. CASE SetupStep(t)
      BY <2>1, <3>1, SetupHasEffect, SetupAccount
    <3>2. CASE AbortStep(t)
      BY <2>1, <3>2, AbortHasEffect, AbortAccount
    <3>3. CASE RekeyTask(t)
      BY <2>1, <3>3, RekeyHasEffect, TaskAccount
    <3>4. CASE MoveTask(t)
      BY <2>1, <3>4, MoveHasEffect, TaskAccount
    <3> QED
      BY <1>3, <2>1, <3>1, <3>2, <3>3, <3>4, StartAccount, LeaveAccount,
         UndoAccount, FlushAccount
  <2>4. ASSUME NEW s \in Session, s # t PROVE Account(s)'
    <3>1. Elsewhere(s)
      BY <1>3, <2>1, <2>4, SetupElsewhere, AbortElsewhere, DownElsewhere,
         TaskElsewhere
    <3> QED
      BY <1>1, <3>1, ElsewhereKeeps
  <2> QED
    BY <2>2, <2>3, <2>4 DEF DInv
<1>4. CASE Next
  BY <1>3, <1>4 DEF Next, SetupStep, AbortStep, RekeyTask, MoveTask
<1> QED
  BY <1>2, <1>4

(* The accounts hold in every behaviour: whatever the kernel refuses, and  *)
(* however sessions, rekeys and address updates interleave.                *)
THEOREM DataPlaneInvariant == Spec => []DInv
BY InitDInv, StepDInv, PTL DEF Spec

LEMMA DownIsEmpty == DInv => NothingLeftBehind
<1> SUFFICES ASSUME DInv, NEW s \in Session, phase[s] = "down", Clean(s)
             PROVE  /\ \A x \in sas : x.own # s
                    /\ \A q \in rules : q.own # s
                    /\ s \notin mainRoutes
                    /\ mode[s] = "xfrmi" => link[s] = 0
                    /\ \A p \in Policy : pol[s][p] # None => p \in failed[s]
  BY DEF NothingLeftBehind, Clean
<1>1. Account(s)
  BY DEF DInv
<1>2. Undos(s) = {}
  BY <1>1 DEF Account, Course, Undos, ToSet
<1> QED
  BY <1>1, <1>2 DEF Account, SAsKnown, Registered

(* cleanupNetworkConfig and FlushByIP: a session that is down has left     *)
(* nothing in the kernel, from whatever stage of the set-up and after any  *)
(* number of rekeys and address updates, if each deletion succeeded and    *)
(* none of them was at work beside the cleanup.                            *)
THEOREM CleanupLeavesNothing == Spec => []NothingLeftBehind
BY DataPlaneInvariant, DownIsEmpty, PTL

LEMMA PathIsThere == DInv => TrafficPathIntact
<1> SUFFICES ASSUME DInv, NEW s \in Session, NEW d \in {"out", "in"},
                    mode[s] = "xfrmi", phase[s] = "ready", rk[s] = Idle,
                    Sound(s), ~reverted[s]
             PROVE  /\ saOf(s, d, cur[s], xfrm[s]) \in sas
                    /\ \A p \in Policy \ {"fwd4"} : (p \in Outbound <=> d = "out") =>
                         pol[s][p] = [n |-> saOf(s, d, cur[s], xfrm[s]).n,
                                      src |-> saOf(s, d, cur[s], xfrm[s]).src,
                                      dst |-> saOf(s, d, cur[s], xfrm[s]).dst]
  BY DEF TrafficPathIntact, Sound
<1>1. Path(s)
  BY DEF DInv, Account
<1>2. /\ saOf(s, d, cur[s], xfrm[s]) \in sas
      /\ \A p \in Policy \ {"fwd4"} : pol[s][p] = template(p, cur[s], xfrm[s])
  BY <1>1, IdleNotTask DEF Path
<1> QED
  BY <1>2 DEF template, saOf, Outbound

(* rekeyXFRMSA and updateXFRMState: the policies of a session that is up   *)
(* name SAs the kernel has, at the addresses of the tunnel, after any      *)
(* number of rekeys and updates, outside the exceptions of the property.   *)
THEOREM TrafficKeepsItsPath == Spec => []TrafficPathIntact
BY DataPlaneInvariant, PathIsThere, PTL

-----------------------------------------------------------------------------
(* The routes.  What ipv4RangeToCIDRs returns is the solution of a         *)
(* recursion from the last address of a range down to its first.  That     *)
(* there is one, and that every part of it is covered, follows from the    *)
(* least address for which it would not.                                   *)
HIDE DataPlaneAssumption

(* The least element of a set of natural numbers: what inductions rest on  *)
(* here.                                                                   *)
Less == {p \in Nat \X Nat : p[1] < p[2]}

LEMMA LeastElement ==
    ASSUME NEW T, T \subseteq Nat, T # {}
    PROVE  \E n \in T : \A m \in T : n <= m
<1>1. IsWellFoundedOn(Less, Nat)
  BY NatLessThanWellFounded DEF OpToRel, Less
<1>2. PICK x \in T : \A y \in T : <<y, x>> \notin Less
  BY <1>1, WFMin
<1>3. ASSUME NEW y \in T PROVE x <= y
  <2>1. x \in Nat /\ y \in Nat /\ <<y, x>> \notin Less
    BY <1>2
  <2> QED
    BY <2>1 DEF Less
<1> QED
  BY <1>3

(* The powers of two, from the number of subsets of a set. *)
LEMMA Subsets ==
    ASSUME NEW n \in Nat
    PROVE  /\ IsFiniteSet(SUBSET (1..n)) /\ Cardinality(SUBSET (1..n)) = 2^n
           /\ 2^n \in Nat
<1>1. IsFiniteSet(1..n) /\ Cardinality(1..n) = n
  BY FS_Interval
<1>2. IsFiniteSet(SUBSET (1..n)) /\ Cardinality(SUBSET (1..n)) = 2^n
  BY <1>1, FS_SUBSET
<1> QED
  BY <1>2, FS_CardinalityType

(* One more element doubles the number of subsets. *)
LEMMA Doubling ==
    ASSUME NEW n \in Nat
    PROVE  2^n \in Nat /\ 2^(n + 1) = 2 * 2^n
<1> DEFINE A == SUBSET (1..n)
           B == {x \cup {n + 1} : x \in A}
<1>1. /\ IsFiniteSet(A) /\ Cardinality(A) = 2^n /\ 2^n \in Nat
      /\ Cardinality(SUBSET (1..(n + 1))) = 2^(n + 1)
  BY Subsets
<1>2. \A x \in A : n + 1 \notin x
  OBVIOUS
<1>3. IsFiniteSet(B) /\ Cardinality(B) = 2^n
  <2> DEFINE f == [x \in A |-> x \cup {n + 1}]
  <2>1. f \in [A -> B]
    OBVIOUS
  <2>2. \A x, y \in A : f[x] = f[y] => x = y
    <3> SUFFICES ASSUME NEW x \in A, NEW y \in A, x \cup {n + 1} = y \cup {n + 1}
                 PROVE  x = y
      OBVIOUS
    <3> QED
      BY <1>2
  <2>3. \A y \in B : \E x \in A : f[x] = y
    OBVIOUS
  <2>4. f \in Bijection(A, B)
    BY <2>1, <2>2, <2>3 DEF Bijection, Injection, Surjection, IsInjective
  <2>5. ExistsBijection(A, B)
    BY <2>4 DEF ExistsBijection
  <2> QED
    BY <1>1, <2>5, FS_Bijection
<1>4. A \cap B = {}
  BY <1>2
<1>5. SUBSET (1..(n + 1)) = A \cup B
  <2>1. ASSUME NEW x \in SUBSET (1..(n + 1)) PROVE x \in A \cup B
    <3>1. x \ {n + 1} \in A
      OBVIOUS
    <3>2. CASE n + 1 \in x
      <4>1. x = (x \ {n + 1}) \cup {n + 1}
        BY <3>2
      <4> QED
        BY <3>1, <4>1
    <3>3. CASE n + 1 \notin x
      BY <3>1, <3>3
    <3> QED
      BY <3>2, <3>3
  <2>2. ASSUME NEW x \in A \cup B PROVE x \in SUBSET (1..(n + 1))
    <3>1. 1..n \subseteq 1..(n + 1) /\ n + 1 \in 1..(n + 1)
      OBVIOUS
    <3> QED
      BY <3>1
  <2> QED
    BY <2>1, <2>2
<1> HIDE DEF A, B
<1>6. Cardinality(A \cup B) = 2^n + 2^n
  <2>1. Cardinality(A \cup B) = Cardinality(A) + Cardinality(B) - Cardinality({})
    BY <1>1, <1>3, <1>4, FS_Union
  <2> QED
    BY <1>1, <1>3, <2>1, FS_EmptySet
<1>7. 2^(n + 1) = 2^n + 2^n
  BY <1>1, <1>5, <1>6
<1>8. \A p \in Nat : p + p = 2 * p
  OBVIOUS
<1> QED
  BY <1>1, <1>7, <1>8

(* A smaller power of two divides a larger one. *)
LEMMA PowersDivide ==
    ASSUME NEW k \in Nat
    PROVE  \A m \in Nat : \E q \in Nat \ {0} : 2^(k + m) = q * 2^k
<1> DEFINE T == {m \in Nat : ~\E q \in Nat \ {0} : 2^(k + m) = q * 2^k}
<1> SUFFICES ASSUME T # {} PROVE FALSE
  OBVIOUS
<1>1. PICK m \in T : \A i \in T : m <= i
  BY LeastElement
<1>2. CASE m = 0
  <2>1. 2^(k + m) = 1 * 2^k
    BY <1>2, Doubling
  <2> QED
    BY <2>1
<1>3. CASE m # 0
  <2>1. m - 1 \in Nat /\ m - 1 \notin T
    BY SMTT(30), <1>1, <1>3
  <2>2. PICK q \in Nat \ {0} : 2^(k + (m - 1)) = q * 2^k
    BY <2>1
  <2>3. 2^(k + m) = 2 * 2^(k + (m - 1))
    <3>1. k + (m - 1) \in Nat /\ (k + (m - 1)) + 1 = k + m
      BY <2>1
    <3> QED
      BY <3>1, Doubling
  <2>4. 2 * (q * 2^k) = (2 * q) * 2^k
    BY Doubling
  <2>5. 2 * q \in Nat \ {0}
    OBVIOUS
  <2> QED
    BY <2>2, <2>3, <2>4, <2>5
<1> QED
  BY <1>2, <1>3

(* No power of two is zero. *)
LEMMA PowersPositive == \A n \in Nat : 2^n \in Nat \ {0}
<1> DEFINE T == {n \in Nat : 2^n \notin Nat \ {0}}
<1> SUFFICES ASSUME T # {} PROVE FALSE
  OBVIOUS
<1>1. PICK n \in T : \A i \in T : n <= i
  BY LeastElement
<1>2. CASE n = 0
  BY <1>1, <1>2
<1>3. CASE n # 0
  <2>1. n - 1 \in Nat /\ n - 1 \notin T /\ (n - 1) + 1 = n
    BY <1>1, <1>3
  <2>2. 2^(n - 1) \in Nat \ {0} /\ 2^n = 2 * 2^(n - 1)
    BY <2>1, Doubling
  <2> QED
    BY <1>1, <2>2
<1> QED
  BY <1>2, <1>3

(* A power of two is a multiple of every smaller one. *)
LEMMA PowerDivides ==
    ASSUME NEW k \in Nat, NEW j \in Nat, j <= k
    PROVE  \E p \in Nat \ {0} : 2^k = p * 2^j
<1>1. PICK m \in Nat : j + m = k
  <2>1. k - j \in Nat /\ j + (k - j) = k
    OBVIOUS
  <2> QED
    BY <2>1
<1>2. \E p \in Nat \ {0} : 2^(j + m) = p * 2^j
  BY PowersDivide
<1> QED
  BY <1>1, <1>2

(* Divisibility as the code tests it. *)
LEMMA DivMod ==
    ASSUME NEW a \in Nat, NEW b \in Nat \ {0}
    PROVE  /\ a % b \in 0..(b - 1) /\ a \div b \in Nat
           /\ a = b * (a \div b) + (a % b)
OBVIOUS

(* No rest is left of multiples, and of nothing else. *)
LEMMA Multiple ==
    ASSUME NEW a \in Nat, NEW b \in Nat \ {0}
    PROVE  a % b = 0 <=> \E q \in Nat : a = q * b
<1>1. PICK r \in 0..(b - 1) :
         a % b = r /\ a \div b \in Nat /\ a = b * (a \div b) + r
  BY DivMod
<1>2. ASSUME a % b = 0 PROVE \E q \in Nat : a = q * b
  <2>1. a = (a \div b) * b
    BY <1>1, <1>2
  <2> QED
    BY <1>1, <2>1
<1>3. ASSUME NEW q \in Nat, a = q * b PROVE a % b = 0
  <2> DEFINE d == a \div b
  <2>1. d \in Nat /\ (q - d) * b = r
    BY <1>1, <1>3
  <2> HIDE DEF d
  <2>2. q - d \in Int
    BY <2>1
  <2>3. ASSUME q - d >= 1 PROVE FALSE
    <3>1. q - d - 1 \in Nat /\ (q - d - 1) * b \in Nat
      BY <2>1, <2>3
    <3>2. (q - d) * b = (q - d - 1) * b + b
      BY <2>1
    <3> QED
      BY <2>1, <3>1, <3>2
  <2>4. ASSUME q - d <= -1 PROVE FALSE
    <3>1. d - q - 1 \in Nat /\ (d - q - 1) * b \in Nat
      BY <2>1, <2>4
    <3>2. (q - d) * b = -((d - q - 1) * b) - b
      BY <2>1
    <3> QED
      BY <2>1, <3>1, <3>2
  <2>5. q - d = 0
    BY <2>2, <2>3, <2>4
  <2> QED
    BY <1>1, <2>1, <2>5
<1> QED
  BY <1>2, <1>3

(* An address aligned to a block is aligned to the smaller ones; a block   *)
(* further on it still is; a block that is not aligned to twice its size   *)
(* is followed by one that is.                                             *)
Aligned(a, k) == a % 2^k = 0

LEMMA AlignedLess ==
    ASSUME NEW a \in Nat, NEW k \in Nat, NEW j \in Nat, j <= k, Aligned(a, k)
    PROVE  Aligned(a, j)
<1>1. PICK q \in Nat : a = q * 2^k
  BY Multiple, PowersPositive DEF Aligned
<1>2. PICK p \in Nat \ {0} : 2^k = p * 2^j
  BY PowerDivides
<1>3. a = (q * p) * 2^j /\ q * p \in Nat
  <2>1. 2^j \in Nat
    BY PowersPositive
  <2> QED
    BY <1>1, <1>2, <2>1
<1> QED
  BY <1>3, Multiple, PowersPositive DEF Aligned

LEMMA AlignedNext ==
    ASSUME NEW a \in Nat, NEW k \in Nat, Aligned(a, k)
    PROVE  /\ Aligned(a + 2^k, k)
           /\ ~Aligned(a, k + 1) => Aligned(a + 2^k, k + 1)
<1> DEFINE b == 2^k
<1>1. b \in Nat \ {0} /\ 2^(k + 1) = 2 * b /\ 2 * b \in Nat \ {0}
  BY PowersPositive, Doubling
<1>2. PICK q \in Nat : a = q * b
  BY <1>1, Multiple DEF Aligned
<1>3. a + b \in Nat
  BY <1>1
<1>4. Aligned(a + b, k)
  <2>1. a + b = (q + 1) * b /\ q + 1 \in Nat
    BY <1>1, <1>2
  <2> QED
    BY <1>1, <1>3, <2>1, Multiple DEF Aligned
<1>5. ASSUME ~Aligned(a, k + 1) PROVE Aligned(a + b, k + 1)
  <2>1. PICK h \in Nat : q = 2 * h \/ q = 2 * h + 1
    <3>1. /\ q % 2 \in 0..1 /\ q \div 2 \in Nat
          /\ q = 2 * (q \div 2) + (q % 2)
      OBVIOUS
    <3> QED
      BY <3>1
  <2>2. q # 2 * h
    <3>1. SUFFICES ASSUME q = 2 * h PROVE FALSE
      OBVIOUS
    <3>2. a = h * (2 * b)
      BY <1>1, <1>2, <3>1
    <3> QED
      BY <1>1, <1>5, <3>2, Multiple DEF Aligned
  <2>3. a + b = (h + 1) * (2 * b) /\ h + 1 \in Nat
    BY <1>1, <1>2, <2>1, <2>2
  <2>4. (a + b) % (2 * b) = 0
    BY <1>1, <1>3, <2>3, Multiple
  <2> QED
    BY <1>1, <2>4 DEF Aligned
<1> QED
  BY <1>4, <1>5 DEF b

(* The powers of two ascend. *)
LEMMA PowersAscend ==
    ASSUME NEW j \in Nat, NEW k \in Nat
    PROVE  /\ j <= k => 2^j <= 2^k
           /\ j < k => 2 * 2^j <= 2^k
<1>1. 2^j \in Nat \ {0} /\ 2^k \in Nat \ {0}
  BY PowersPositive
<1>2. ASSUME NEW i \in Nat, i <= k PROVE 2^i <= 2^k
  <2>2. PICK p \in Nat \ {0} : 2^k = p * 2^i
    BY <1>2, PowerDivides
  <2>3. 2^i \in Nat /\ (p - 1) * 2^i \in Nat
    <3>1. 2^i \in Nat /\ p - 1 \in Nat
      BY PowersPositive
    <3> QED
      BY <3>1
  <2>4. p * 2^i = (p - 1) * 2^i + 2^i
    BY <2>3
  <2> QED
    BY <1>1, <2>2, <2>3, <2>4
<1>3. ASSUME j < k PROVE 2 * 2^j <= 2^k
  <2>1. j + 1 \in Nat /\ j + 1 <= k
    BY <1>3
  <2> QED
    BY <1>2, <2>1, Doubling
<1> QED
  BY <1>2, <1>3

(* The block that is cut off a range: the largest power of two that the    *)
(* address is aligned to and that fits what is left.                       *)
Fits(first, end, k) == k \in 0..Width /\ Aligned(first, k) /\ 2^k <= end - first + 1

(* Max of a bounded set of numbers is one of them. *)
LEMMA LargestOf ==
    ASSUME NEW S, S \subseteq Nat, S # {}, NEW top \in Nat, \A x \in S : x <= top
    PROVE  Max(S) \in S /\ \A x \in S : x <= Max(S)
<1> DEFINE T == {top - x : x \in S}
<1>1. T \subseteq Nat /\ T # {}
  <2>1. ASSUME NEW t \in T PROVE t \in Nat
    <3>1. PICK x \in S : t = top - x
      OBVIOUS
    <3>2. x \in Nat /\ x <= top
      OBVIOUS
    <3> QED
      BY <3>1, <3>2
  <2> QED
    BY <2>1
<1>2. PICK t \in T : \A m \in T : t <= m
  BY <1>1, LeastElement
<1>3. PICK y \in S : t = top - y
  BY <1>2
<1>4. \A x \in S : y >= x
  <2> SUFFICES ASSUME NEW x \in S PROVE y >= x
    OBVIOUS
  <2>1. top - y <= top - x /\ x \in Nat /\ y \in Nat
    BY <1>2, <1>3
  <2> QED
    BY <2>1
<1>5. \E z \in S : \A x \in S : z >= x
  BY <1>4
<1>6. Max(S) \in S /\ \A x \in S : Max(S) >= x
  BY <1>5 DEF Max
<1> QED
  BY <1>6

(* The loop that halves maxBlock ends at the largest block that fits. *)
LEMMA BlockFits ==
    ASSUME NEW first \in Nat, NEW end \in Nat, first <= end
    PROVE  \E k \in 0..Width :
              /\ block(first, end) = 2^k /\ Fits(first, end, k)
              /\ \A j \in 0..Width : Fits(first, end, j) => j <= k
<1> DEFINE J == {j \in 0..Width : first % 2^j = 0 /\ 2^j <= end - first + 1}
           S == {2^k : k \in J}
<1>1. \A j : j \in J <=> Fits(first, end, j)
  BY DEF Fits, Aligned
<1>2. 0 \in J
  <2>1. 2^0 = 1 /\ first % 1 = 0 /\ 1 <= end - first + 1
    OBVIOUS
  <2> QED
    BY <2>1, WidthAssumption
<1>3. block(first, end) = Max(S)
  BY DEF block
<1>4. /\ S \subseteq Nat /\ S # {} /\ end - first + 1 \in Nat
      /\ \A x \in S : x <= end - first + 1
  <2>1. \A k \in 0..Width : 2^k \in Nat
    BY PowersPositive, WidthAssumption
  <2>2. 2^0 \in S
    BY <1>2
  <2> QED
    BY <2>1, <2>2
<1> DEFINE top == end - first + 1
<1> HIDE DEF S, top
<1>5. Max(S) \in S /\ \A x \in S : x <= Max(S)
  <2>1. top \in Nat /\ \A x \in S : x <= top
    BY <1>4 DEF top
  <2> QED
    BY <1>4, <2>1, LargestOf
<1>6. PICK k \in J : Max(S) = 2^k
  BY <1>5 DEF S
<1>7. ASSUME NEW j \in 0..Width, Fits(first, end, j) PROVE j <= k
  <2>1. 2^j \in S
    BY <1>1, <1>7 DEF S
  <2>2. 2^j <= 2^k
    BY <1>5, <1>6, <2>1
  <2>3. j \in Nat /\ k \in Nat /\ 2^k \in Nat \ {0}
    BY WidthAssumption, PowersPositive
  <2>4. k < j => 2 * 2^k <= 2^j
    BY <2>3, PowersAscend
  <2>5. 2^j \in Nat
    BY <2>3, PowersPositive
  <2> QED
    BY <2>2, <2>3, <2>4, <2>5
<1> QED
  BY <1>1, <1>3, <1>6, <1>7

-----------------------------------------------------------------------------
(* The blocks of a range, from its last address down. *)
Cut(first, end) == [family |-> "v4", base |-> first, size |-> block(first, end)]

Cuts(g, low, end) ==
    g = [first \in low..(2^Width) |->
            IF first > end THEN <<>>
            ELSE <<Cut(first, end)>> \o g[first + block(first, end)]]

(* A block does not pass the end of the range. *)
LEMMA BlockEnds ==
    ASSUME NEW first \in Nat, NEW end \in Nat, first <= end
    PROVE  block(first, end) \in Nat \ {0} /\ first + block(first, end) <= end + 1
<1>1. PICK k \in 0..Width : block(first, end) = 2^k /\ Fits(first, end, k)
  BY BlockFits
<1>2. 2^k \in Nat \ {0} /\ 2^k <= end - first + 1
  BY <1>1, PowersPositive, WidthAssumption DEF Fits
<1> QED
  BY <1>1, <1>2

(* The recursion over the addresses of a range has a solution. *)
LEMMA RangeIsCut ==
    ASSUME NEW end \in Nat, end < 2^Width
    PROVE  \E g : Cuts(g, 0, end)
<1> DEFINE N == 2^Width
           T == {d \in Nat : d <= N /\ ~\E g : Cuts(g, N - d, end)}
<1>1. N \in Nat \ {0}
  BY PowersPositive, WidthAssumption
<1>2. T = {}
  <2> SUFFICES ASSUME T # {} PROVE FALSE
    OBVIOUS
  <2>1. PICK d \in T : \A m \in T : d <= m
    BY LeastElement
  <2> DEFINE low == N - d
  <2>2. d \in Nat /\ low \in 0..N
    BY <1>1, <2>1
  <2>3. PICK g : d = 0 \/ Cuts(g, low + 1, end)
    <3>1. CASE d = 0
      BY <3>1
    <3>2. CASE d # 0
      <4>1. d - 1 \in Nat /\ d - 1 <= N /\ d - 1 \notin T /\ N - (d - 1) = low + 1
        BY <1>1, <2>1, <2>2, <3>2
      <4> QED
        BY <4>1
    <3> QED
      BY <3>1, <3>2
  <2> DEFINE e == IF low > end THEN <<>>
                  ELSE <<Cut(low, end)>> \o g[low + block(low, end)]
             f == [x \in low..N |-> IF x = low THEN e ELSE g[x]]
  <2> HIDE DEF N
  <2>4. ASSUME NEW x \in low..N
        PROVE  f[x] = IF x > end THEN <<>>
                      ELSE <<Cut(x, end)>> \o f[x + block(x, end)]
    <3>1. CASE x > end
      <4>1. CASE x = low
        BY <3>1, <4>1
      <4>2. CASE x # low
        <5>1. d # 0 /\ x \in (low + 1)..N
          BY <1>1, <2>2, <4>2
        <5> QED
          BY <2>3, <3>1, <4>2, <5>1 DEF Cuts, N
      <4> QED
        BY <4>1, <4>2
    <3>2. CASE ~(x > end)
      <4> DEFINE next == x + block(x, end)
      <4>1. x \in Nat /\ x <= end /\ low \in Nat
        BY <2>2, <3>2, <1>1
      <4>2. next \in (low + 1)..N /\ next # low
        <5>1. block(x, end) \in Nat \ {0} /\ next <= end + 1
          BY <4>1, BlockEnds
        <5>2. end < N
          BY DEF N
        <5> QED
          BY <1>1, <4>1, <5>1, <5>2
      <4>3. f[next] = g[next]
        BY <4>2, <2>2, <1>1
      <4>4. CASE x = low
        <5>1. f[x] = <<Cut(x, end)>> \o g[next]
          BY <3>2, <4>4
        <5> QED
          BY <3>2, <4>3, <5>1
      <4>5. CASE x # low
        <5>1. d # 0 /\ x \in (low + 1)..N
          BY <1>1, <2>2, <4>5
        <5>2. g[x] = <<Cut(x, end)>> \o g[next]
          BY <2>3, <3>2, <5>1 DEF Cuts, N
        <5>3. f[x] = g[x]
          BY <4>5
        <5> QED
          BY <3>2, <4>3, <5>2, <5>3
      <4> QED
        BY <4>4, <4>5
    <3> QED
      BY <3>1, <3>2
  <2>5. Cuts(f, low, end)
    <3> HIDE DEF e
    <3>1. f = [x \in low..N |-> f[x]]
      OBVIOUS
    <3> QED
      BY <2>4, <3>1 DEF Cuts, N
  <2> QED
    BY <2>1, <2>5 DEF N
<1>3. N \notin T /\ N - N = 0
  BY <1>1, <1>2
<1> QED
  BY <1>1, <1>3

(* What the blocks from first on are: networks, one for every address up   *)
(* to the end, and no more than the alignment and the room that is left    *)
(* allow.                                                                  *)
Network == [family : {"v4"}, base : Nat, size : Nat \ {0}]
Holds(route, a) == a \in route.base..(route.base + route.size - 1)
Holding(routes, a) == {i \in 1..Len(routes) : Holds(routes[i], a)}

Covering(first, end, routes) ==
    /\ routes \in Seq(Network)
    /\ \A i \in 1..Len(routes) : routes[i].base % routes[i].size = 0
    /\ \A a \in Nat :
        IF a \in first..end THEN \E i \in Nat : Holding(routes, a) = {i}
        ELSE Holding(routes, a) = {}

Counting(first, end, routes) ==
    \A m \in 0..Width : Aligned(first, m) =>
        /\ Len(routes) <= 2 * Width - m
        /\ end - first + 1 < 2^m => Len(routes) <= m

(* Behind the end nothing is cut off. *)
LEMMA NoBlocks ==
    ASSUME NEW first \in Nat, NEW end \in Nat, first > end
    PROVE  Covering(first, end, <<>>) /\ Counting(first, end, <<>>)
<1>1. Len(<<>>) = 0 /\ <<>> \in Seq(Network) /\ 1..0 = {}
  OBVIOUS
<1>2. Covering(first, end, <<>>)
  BY <1>1 DEF Covering, Holding
<1>3. Counting(first, end, <<>>)
  BY <1>1, WidthAssumption DEF Counting
<1> QED
  BY <1>2, <1>3

(* A sequence with one more element before it. *)
LEMMA OneMore ==
    ASSUME NEW S, NEW c \in S, NEW rest \in Seq(S)
    PROVE  /\ <<c>> \o rest \in Seq(S) /\ Len(<<c>> \o rest) = Len(rest) + 1
           /\ (<<c>> \o rest)[1] = c
           /\ \A i \in 2..(Len(rest) + 1) : (<<c>> \o rest)[i] = rest[i - 1]
<1>1. <<c>> \in Seq(S) /\ Len(<<c>>) = 1 /\ <<c>>[1] = c
  OBVIOUS
<1>2. /\ <<c>> \o rest \in Seq(S) /\ Len(<<c>> \o rest) = Len(<<c>>) + Len(rest)
      /\ \A i \in 1..(Len(<<c>>) + Len(rest)) :
            (<<c>> \o rest)[i] = IF i <= Len(<<c>>) THEN <<c>>[i] ELSE rest[i - Len(<<c>>)]
  BY <1>1, ConcatProperties
<1>3. Len(rest) \in Nat
  OBVIOUS
<1> QED
  BY <1>1, <1>2, <1>3

(* A block before a covering makes a covering. *)
LEMMA CutCovers ==
    ASSUME NEW first \in Nat, NEW end \in Nat, first <= end, NEW rest,
           Covering(first + block(first, end), end, rest)
    PROVE  Covering(first, end, <<Cut(first, end)>> \o rest)
<1> DEFINE b == block(first, end)
           c == Cut(first, end)
           all == <<c>> \o rest
<1>1. PICK k \in 0..Width : b = 2^k /\ Fits(first, end, k)
  BY BlockFits
<1>2. b \in Nat \ {0} /\ first + b <= end + 1
  BY BlockEnds
<1>3. c \in Network /\ c.base = first /\ c.size = b
  BY <1>2 DEF Cut, Network
<1>4. first % b = 0
  BY <1>1 DEF Fits, Aligned
<1>5. rest \in Seq(Network)
  BY DEF Covering
<1> DEFINE n == Len(rest)
<1>6. n \in Nat
  BY <1>5
<1>7. /\ all \in Seq(Network) /\ Len(all) = n + 1 /\ all[1] = c
      /\ \A i \in 2..(n + 1) : all[i] = rest[i - 1]
  BY <1>3, <1>5, OneMore
<1> HIDE DEF b, c, all, n
<1>8. ASSUME NEW i \in 1..(n + 1) PROVE all[i].base % all[i].size = 0
  <2>1. CASE i = 1
    BY <1>3, <1>4, <1>7, <2>1
  <2>2. CASE i # 1
    <3>1. i \in 2..(n + 1) /\ i - 1 \in 1..n
      BY <1>6, <2>2
    <3>2. \A j \in 1..n : rest[j].base % rest[j].size = 0
      BY DEF Covering, n
    <3> QED
      BY <1>7, <3>1, <3>2
  <2> QED
    BY <2>1, <2>2
<1>9. ASSUME NEW a \in Nat
      PROVE  IF a \in first..end THEN \E i \in Nat : Holding(all, a) = {i}
             ELSE Holding(all, a) = {}
  <2>1. Holds(c, a) <=> a \in first..(first + b - 1)
    BY <1>3 DEF Holds
  <2>2. /\ a \in (first + b)..end => \E i \in Nat : Holding(rest, a) = {i}
        /\ a \notin (first + b)..end => Holding(rest, a) = {}
    BY DEF Covering, b
  <2>3. Holding(rest, a) = {j \in 1..n : Holds(rest[j], a)}
    BY DEF Holding, n
  <2>4. Holding(all, a) = {i \in 1..(n + 1) : Holds(all[i], a)}
    BY <1>7 DEF Holding
  <2>5. 1 \in Holding(all, a) <=> Holds(c, a)
    BY <1>6, <1>7, <2>4
  <2>6. ASSUME NEW i, i # 1
        PROVE  i \in Holding(all, a) <=> i \in 2..(n + 1) /\ i - 1 \in Holding(rest, a)
    <3>1. CASE i \in 2..(n + 1)
      <4>1. all[i] = rest[i - 1] /\ i \in 1..(n + 1) /\ i - 1 \in 1..n
        BY <1>6, <1>7, <3>1
      <4> QED
        BY <2>3, <2>4, <3>1, <4>1
    <3>2. CASE i \notin 2..(n + 1)
      <4>1. i \notin 1..(n + 1)
        BY <1>6, <2>6, <3>2
      <4> QED
        BY <2>4, <3>2, <4>1
    <3> QED
      BY <3>1, <3>2
  <2>7. CASE a \in first..(first + b - 1)
    <3>1. a \notin (first + b)..end /\ a \in first..end
      BY <1>2, <2>7
    <3>2. Holding(all, a) = {1}
      BY <2>1, <2>2, <2>5, <2>6, <2>7, <3>1
    <3> QED
      BY <3>1, <3>2
  <2>8. CASE a \in (first + b)..end
    <3>1. a \notin first..(first + b - 1) /\ a \in first..end
      BY <1>2, <2>8
    <3>2. PICK j \in Nat : Holding(rest, a) = {j}
      BY <2>2, <2>8
    <3>3. j \in 1..n /\ j + 1 \in 2..(n + 1) /\ j + 1 # 1 /\ (j + 1) - 1 = j
      BY <1>6, <2>3, <3>2
    <3>4. \A i : i \in Holding(all, a) => i = j + 1
      <4> SUFFICES ASSUME NEW i, i \in Holding(all, a) PROVE i = j + 1
        OBVIOUS
      <4>1. i # 1
        BY <2>1, <2>5, <3>1
      <4>2. i \in 2..(n + 1) /\ i - 1 = j
        BY <2>6, <3>2, <4>1
      <4> QED
        BY <1>6, <4>2
    <3>5. j + 1 \in Holding(all, a)
      BY <2>6, <3>2, <3>3
    <3>6. Holding(all, a) = {j + 1}
      BY <3>4, <3>5
    <3> QED
      BY <3>1, <3>6
  <2>9. CASE a \notin first..(first + b - 1) /\ a \notin (first + b)..end
    <3>1. a \notin first..end
      BY <1>2, <2>9
    <3>2. Holding(all, a) = {}
      BY <2>1, <2>2, <2>5, <2>6, <2>9
    <3> QED
      BY <3>1, <3>2
  <2> QED
    BY <2>7, <2>8, <2>9
<1>10. Covering(first, end, all)
  BY <1>7, <1>8, <1>9 DEF Covering
<1> QED
  BY <1>10 DEF all, c

(* The sizes of the blocks first grow, as long as the alignment of the     *)
(* address limits them, and then shrink with the room that is left.        *)
LEMMA CutCounts ==
    ASSUME NEW first \in Nat, NEW end \in Nat, first <= end, end < 2^Width,
           NEW rest \in Seq(Network),
           Counting(first + block(first, end), end, rest)
    PROVE  Counting(first, end, <<Cut(first, end)>> \o rest)
<1> DEFINE b == block(first, end)
           all == <<Cut(first, end)>> \o rest
           n == Len(rest)
           room == end - first + 1
<1>1. PICK k \in 0..Width : /\ b = 2^k /\ Fits(first, end, k)
                            /\ \A j \in 0..Width : Fits(first, end, j) => j <= k
  BY BlockFits
<1>2. k \in Nat /\ Width \in Nat \ {0} /\ b \in Nat \ {0} /\ b <= room /\ room \in Nat
  BY <1>1, WidthAssumption, PowersPositive DEF Fits
<1>3. n \in Nat /\ Len(all) = n + 1
  <2>1. Cut(first, end) \in Network
    BY <1>2 DEF Cut, Network
  <2> QED
    BY <2>1, OneMore
<1>4. ASSUME NEW m \in 0..Width, Aligned(first + b, m)
      PROVE  /\ n <= 2 * Width - m
             /\ room - b < 2^m => n <= m
  <2>1. end - (first + b) + 1 = room - b
    BY <1>2
  <2> QED
    BY <1>4, <2>1 DEF Counting
<1>5. Aligned(first, k)
  BY <1>1 DEF Fits
<1>6. Aligned(first + b, k) /\ (~Aligned(first, k + 1) => Aligned(first + b, k + 1))
  BY <1>1, <1>2, <1>5, AlignedNext
<1>7. 2^(k + 1) = 2 * b
  BY <1>1, <1>2, Doubling
<1>8. ASSUME room < 2^(k + 1) PROVE n <= k
  <2>1. room - b < b
    BY <1>2, <1>7, <1>8
  <2> QED
    BY <1>1, <1>4, <1>6, <2>1
<1>9. ASSUME k = Width PROVE n = 0
  <2>1. room < 2 * b
    BY <1>1, <1>2, <1>9
  <2>2. room - b = 0
    <3>1. room <= b
      BY <1>1, <1>2, <1>9
    <3> QED
      BY <1>2, <3>1
  <2>3. 2^0 = 1 /\ Aligned(first + b, 0)
    BY <1>2, <1>6, AlignedLess
  <2>4. n <= 0
    <3>1. 0 \in 0..Width /\ room - b < 2^0
      BY <1>2, <2>2, <2>3
    <3> QED
      BY <1>4, <2>3, <3>1
  <2> QED
    BY <1>3, <2>4
<1>10. ASSUME NEW m \in 0..Width, Aligned(first, m), room < 2^m PROVE n + 1 <= m
  <2>1. m \in Nat /\ 2^m \in Nat
    BY <1>2, PowersPositive
  <2>2. k < m
    <3>1. m <= k => 2^m <= 2^k
      BY <1>2, <2>1, PowersAscend
    <3> QED
      BY <1>1, <1>2, <1>10, <2>1, <3>1
  <2>3. room < 2^(k + 1)
    <3>1. k + 1 \in 0..Width /\ k + 1 \in Nat /\ k + 1 <= m
      BY <1>2, <2>1, <2>2
    <3>2. Aligned(first, k + 1)
      BY <1>10, <2>1, <3>1, AlignedLess
    <3>3. ~Fits(first, end, k + 1)
      BY <1>1, <1>2, <3>1
    <3>4. ~(2^(k + 1) <= room)
      BY <3>1, <3>2, <3>3 DEF Fits
    <3> QED
      BY <1>2, <1>7, <3>4
  <2> QED
    BY <1>2, <1>3, <1>8, <2>1, <2>2, <2>3
<1>11. ASSUME NEW m \in 0..Width, Aligned(first, m) PROVE n + 1 <= 2 * Width - m
  <2>1. m \in Nat /\ m <= Width /\ k <= Width
    BY <1>2
  <2>2. CASE k = Width
    BY <1>2, <1>9, <2>1, <2>2
  <2>3. CASE k # Width /\ room < 2^(k + 1)
    BY <1>2, <1>3, <1>8, <2>1, <2>3
  <2>4. CASE k # Width /\ ~(room < 2^(k + 1))
    <3>1. k + 1 \in 0..Width /\ k + 1 \in Nat /\ 2^(k + 1) <= room
      BY <1>2, <1>7, <2>1, <2>4
    <3>2. ~Aligned(first, k + 1)
      BY <1>1, <1>2, <3>1 DEF Fits
    <3>3. n <= 2 * Width - (k + 1)
      BY <1>4, <1>6, <3>1, <3>2
    <3>4. m <= k
      <4>1. ASSUME k + 1 <= m PROVE FALSE
        BY <1>11, <2>1, <3>1, <3>2, <4>1, AlignedLess
      <4> QED
        BY <1>2, <2>1, <4>1
    <3> QED
      BY <1>2, <1>3, <2>1, <3>3, <3>4
  <2> QED
    BY <2>2, <2>3, <2>4
<1> HIDE DEF n, room, b, all
<1>12. \A m \in 0..Width : Aligned(first, m) =>
          /\ Len(all) <= 2 * Width - m
          /\ end - first + 1 < 2^m => Len(all) <= m
  BY <1>3, <1>10, <1>11 DEF room
<1> QED
  BY <1>12 DEF Counting, all

(* ipv4RangeToCIDRs, for every range of every width: every block is        *)
(* aligned to its size, every address of the range is in exactly one of    *)
(* them, and there are at most two blocks for each bit of an address.      *)
THEOREM RangesAreCovered ==
    ASSUME NEW start \in Nat, NEW end \in Nat, start <= end, end < 2^Width
    PROVE  /\ Covering(start, end, ipv4RangeToCIDRs(start, end))
           /\ Counting(start, end, ipv4RangeToCIDRs(start, end))
<1> DEFINE N == 2^Width
           from == CHOOSE g : Cuts(g, 0, end)
           T == {d \in Nat : d <= N /\ ~(/\ Covering(N - d, end, from[N - d])
                                         /\ Counting(N - d, end, from[N - d]))}
<1>1. N \in Nat \ {0} /\ end < N
  BY PowersPositive, WidthAssumption
<1>2. Cuts(from, 0, end)
  BY RangeIsCut
<1>3. ipv4RangeToCIDRs(start, end) = from[start]
  BY DEF ipv4RangeToCIDRs, Cuts, Cut
<1> HIDE DEF from
<1>4. \A first \in 0..N :
        from[first] = IF first > end THEN <<>>
                      ELSE <<Cut(first, end)>> \o from[first + block(first, end)]
  <2>1. from = [first \in 0..N |->
                    IF first > end THEN <<>>
                    ELSE <<Cut(first, end)>> \o from[first + block(first, end)]]
    BY <1>2 DEF Cuts
  <2> HIDE DEF N
  <2> QED
    BY <2>1
<1> HIDE DEF N
<1>5. T = {}
  <2> SUFFICES ASSUME T # {} PROVE FALSE
    OBVIOUS
  <2>1. PICK d \in T : \A m \in T : d <= m
    <3>1. T \subseteq Nat
      OBVIOUS
    <3> QED
      BY <3>1, LeastElement
  <2> DEFINE first == N - d
  <2>2. d \in Nat /\ first \in 0..N /\ first \in Nat
    BY <1>1, <2>1
  <2>3. CASE first > end
    BY <1>4, <2>1, <2>2, <2>3, NoBlocks
  <2>4. CASE ~(first > end)
    <3> DEFINE b == block(first, end)
               next == first + b
    <3>1. b \in Nat \ {0} /\ next <= end + 1
      BY <2>2, <2>4, BlockEnds
    <3> HIDE DEF b
    <3>2. d - b \in Nat /\ d - b <= N /\ d - b < d /\ N - (d - b) = next
      BY <1>1, <2>2, <3>1
    <3>3. d - b \notin T
      BY <2>1, <2>2, <3>2
    <3>4. Covering(next, end, from[next]) /\ Counting(next, end, from[next])
      BY <3>2, <3>3
    <3>5. from[next] \in Seq(Network)
      BY <3>4 DEF Covering
    <3>6. from[first] = <<Cut(first, end)>> \o from[next]
      BY <1>4, <2>2, <2>4 DEF b
    <3> HIDE DEF first
    <3>7. first <= end /\ end < 2^Width /\ first \in Nat
      BY <1>1, <2>2, <2>4 DEF N
    <3>8. Covering(first, end, <<Cut(first, end)>> \o from[next])
      BY <3>4, <3>7, CutCovers DEF b
    <3>9. Counting(first, end, <<Cut(first, end)>> \o from[next])
      BY <3>4, <3>5, <3>7, CutCounts DEF b
    <3> QED
      BY <2>1, <3>6, <3>8, <3>9 DEF first
  <2> QED
    BY <2>3, <2>4
<1>6. N - start \in Nat /\ N - start <= N /\ N - start \notin T /\ N - (N - start) = start
  BY <1>1, <1>5
<1>7. Covering(start, end, from[start]) /\ Counting(start, end, from[start])
  BY <1>6
<1> QED
  BY <1>3, <1>7

(* The addresses of a range: its routes hold these and no others. *)
LEMMA RangeHolds ==
    ASSUME NEW start \in Nat, NEW end \in Nat, start <= end, end < 2^Width,
           NEW a \in Nat
    PROVE  LET cidrs == ipv4RangeToCIDRs(start, end)
               holding == {i \in DOMAIN cidrs : covers(cidrs[i], "v4", a)}
           IN IF a \in start..end THEN \E i \in Nat : holding = {i} ELSE holding = {}
<1> DEFINE cidrs == ipv4RangeToCIDRs(start, end)
<1>1. Covering(start, end, cidrs)
  BY RangesAreCovered
<1> HIDE DEF cidrs
<1>2. cidrs \in Seq(Network)
  BY <1>1 DEF Covering
<1>3. DOMAIN cidrs = 1..Len(cidrs) /\ \A i \in 1..Len(cidrs) : cidrs[i] \in Network
  BY <1>2
<1>4. \A i \in 1..Len(cidrs) : covers(cidrs[i], "v4", a) <=> Holds(cidrs[i], a)
  BY <1>3 DEF covers, Holds, Network
<1>5. {i \in DOMAIN cidrs : covers(cidrs[i], "v4", a)} = Holding(cidrs, a)
  BY <1>3, <1>4 DEF Holding
<1>6. IF a \in start..end THEN \E i \in Nat : Holding(cidrs, a) = {i}
      ELSE Holding(cidrs, a) = {}
  BY <1>1 DEF Covering
<1> QED
  BY <1>5, <1>6 DEF cidrs

(* Every range of IPv4 addresses is covered exactly. *)
LEMMA RangeIsExact ==
    ASSUME NEW start \in Nat, NEW end \in Nat, start <= end, end < 2^Width
    PROVE  ExactCover(start, end)
<1> DEFINE cidrs == ipv4RangeToCIDRs(start, end)
<1>1. Covering(start, end, cidrs) /\ Counting(start, end, cidrs)
  BY RangesAreCovered
<1>2. ASSUME NEW a \in Address("v4")
      PROVE  Cardinality({i \in DOMAIN cidrs : covers(cidrs[i], "v4", a)})
                = IF a \in start..end THEN 1 ELSE 0
  <2> DEFINE holding == {i \in DOMAIN cidrs : covers(cidrs[i], "v4", a)}
  <2>1. a \in Nat
    <3>1. 2^Width \in Nat
      BY PowersPositive, WidthAssumption
    <3> QED
      BY <3>1 DEF Address, Bits
  <2>2. IF a \in start..end THEN \E i \in Nat : holding = {i} ELSE holding = {}
    BY <2>1, RangeHolds
  <2> HIDE DEF holding
  <2>3. Cardinality(holding) = IF a \in start..end THEN 1 ELSE 0
    BY <2>2, FS_EmptySet, FS_Singleton
  <2> QED
    BY <2>3 DEF holding
<1>3. Len(cidrs) <= 2 * Width
  <2>1. 0 \in 0..Width /\ Aligned(start, 0)
    <3>1. 2^0 = 1 /\ start % 1 = 0
      OBVIOUS
    <3> QED
      BY <3>1, WidthAssumption DEF Aligned
  <2>2. Len(cidrs) <= 2 * Width - 0
    BY <1>1, <2>1 DEF Counting
  <2> QED
    BY <2>2, WidthAssumption
<1>4. \A i \in DOMAIN cidrs : cidrs[i].base % cidrs[i].size = 0
  <2> HIDE DEF cidrs
  <2>1. cidrs \in Seq(Network)
    BY <1>1 DEF Covering
  <2>2. DOMAIN cidrs = 1..Len(cidrs)
    BY <2>1
  <2> QED
    BY <1>1, <2>2 DEF Covering
<1> QED
  BY <1>2, <1>3, <1>4 DEF ExactCover

(* The ends of a selector are addresses of its family. *)
LEMMA SelectorBounds ==
    ASSUME NEW ts \in Selector
    PROVE  /\ ts.family \in Family /\ ts.start \in Nat /\ ts.end \in Nat
           /\ ts.start < 2^Bits(ts.family) /\ ts.end < 2^Bits(ts.family)
           /\ ts.family = "v4" => ts.start < 2^Width /\ ts.end < 2^Width
<1>1. PICK f \in Family :
         ts \in [family : {f}, start : Address(f), end : Address(f),
                 proto : {0, 1, 17}, startPort : Port, endPort : Port]
  BY DEF Selector
<1>2. ts.family = f /\ ts.start \in Address(f) /\ ts.end \in Address(f)
  BY <1>1
<1>3. 2^Bits(f) \in Nat
  BY PowersPositive, WidthAssumption DEF Bits
<1> DEFINE top == 2^Bits(f)
<1>4. Address(f) = 0..(top - 1) /\ top \in Nat
  BY <1>3 DEF Address
<1>5. f = "v4" => top = 2^Width
  BY DEF Bits
<1> HIDE DEF top
<1>6. /\ ts.start \in Nat /\ ts.end \in Nat /\ ts.start < top /\ ts.end < top
  BY <1>2, <1>4
<1> QED
  BY <1>2, <1>5, <1>6 DEF top

(* A range that ends before it starts has no routes. *)
LEMMA EmptyRange ==
    ASSUME NEW start \in Nat, NEW end \in Nat, start > end, start < 2^Width, end < 2^Width
    PROVE  ipv4RangeToCIDRs(start, end) = <<>>
<1> DEFINE N == 2^Width
           from == CHOOSE g : Cuts(g, 0, end)
<1>1. N \in Nat
  BY PowersPositive, WidthAssumption
<1>2. Cuts(from, 0, end)
  BY RangeIsCut
<1>3. ipv4RangeToCIDRs(start, end) = from[start]
  BY DEF ipv4RangeToCIDRs, Cuts, Cut
<1> HIDE DEF from
<1>4. from = [first \in 0..N |->
                    IF first > end THEN <<>>
                    ELSE <<Cut(first, end)>> \o from[first + block(first, end)]]
  BY <1>2 DEF Cuts
<1>5. start \in 0..N
  BY <1>1
<1> HIDE DEF N
<1>6. from[start] = <<>>
  BY <1>4, <1>5
<1> QED
  BY <1>3, <1>6

(* What one selector routes: its addresses, unless it is left out. *)
LEMMA Routed ==
    ASSUME NEW ts \in Selector, NEW policy \in BOOLEAN, NEW family \in Family,
           NEW dst \in Address(family)
    PROVE  routed(<<ts>>, policy, family, dst) <=>
                family = ts.family /\ dst \in ts.start..ts.end /\ ~LeftOut(ts, policy)
<1> DEFINE routes == routesFor(ts, policy)
           held == \E j \in DOMAIN routes : covers(routes[j], family, dst)
<1>1. routed(<<ts>>, policy, family, dst) <=> held
  <2>1. DOMAIN <<ts>> = {1} /\ <<ts>>[1] = ts
    OBVIOUS
  <2> QED
    BY <2>1 DEF routed
<1>2. /\ ts.family \in Family /\ ts.start \in Nat /\ ts.end \in Nat
      /\ ts.start < 2^Bits(ts.family) /\ ts.end < 2^Bits(ts.family)
      /\ ts.family = "v4" => ts.start < 2^Width /\ ts.end < 2^Width
  BY SelectorBounds
<1>3. dst \in Nat
  <2>1. 2^Bits(family) \in Nat
    BY PowersPositive, WidthAssumption DEF Bits
  <2> QED
    BY <2>1 DEF Address
<1>4. 2^Bits(ts.family) \in Nat
  BY PowersPositive, WidthAssumption DEF Bits
<1>5. ASSUME NEW r, routes = <<r>> PROVE held <=> covers(r, family, dst)
  <2>1. DOMAIN <<r>> = {1} /\ <<r>>[1] = r
    OBVIOUS
  <2> QED
    BY <1>5, <2>1
<1>6. ASSUME routes = <<>> PROVE ~held
  <2>1. DOMAIN <<>> = {}
    OBVIOUS
  <2> QED
    BY <1>6, <2>1
<1> HIDE DEF held, routes
<1>7. CASE full(ts)
  <2>1. CASE policy
    <3> DEFINE r == [family |-> ts.family, base |-> 0, size |-> 2^Bits(ts.family)]
    <3>1. routes = <<r>>
      BY <1>7, <2>1 DEF routes, routesFor
    <3>2. covers(r, family, dst) <=> ts.family = family /\ dst \in 0..(0 + 2^Bits(ts.family) - 1)
      BY DEF covers
    <3>3. 0..(0 + 2^Bits(ts.family) - 1) = ts.start..ts.end
      BY <1>4, <1>7 DEF full
    <3>4. ~LeftOut(ts, policy)
      BY <1>7, <2>1 DEF LeftOut
    <3> HIDE DEF r
    <3> QED
      BY <1>1, <1>5, <3>1, <3>2, <3>3, <3>4
  <2>2. CASE ~policy
    <3>1. routes = <<>>
      BY <1>7, <2>2 DEF routes, routesFor
    <3>2. LeftOut(ts, policy)
      BY <1>7, <2>2 DEF LeftOut
    <3> QED
      BY <1>1, <1>6, <3>1, <3>2
  <2> QED
    BY <2>1, <2>2
<1>8. CASE ~full(ts) /\ ts.family = "v4"
  <2> DEFINE cidrs == ipv4RangeToCIDRs(ts.start, ts.end)
  <2>1. routes = cidrs
    BY <1>8 DEF routes, routesFor
  <2>2. ~LeftOut(ts, policy)
    BY <1>8 DEF LeftOut
  <2>3. CASE ts.start > ts.end
    <3>1. cidrs = <<>>
      BY <1>2, <1>8, <2>3, EmptyRange
    <3>2. dst \notin ts.start..ts.end
      BY <1>2, <1>3, <2>3
    <3> QED
      BY <1>1, <1>6, <2>1, <3>1, <3>2
  <2>4. CASE ts.start <= ts.end
    <3> DEFINE holding == {i \in DOMAIN cidrs : covers(cidrs[i], "v4", dst)}
    <3>1. IF dst \in ts.start..ts.end THEN \E i \in Nat : holding = {i} ELSE holding = {}
      BY <1>2, <1>3, <1>8, <2>4, RangeHolds
    <3>2. CASE family = "v4"
      <4>1. held <=> holding # {}
        BY <2>1, <3>2 DEF held
      <4> HIDE DEF holding
      <4> QED
        BY <1>1, <1>8, <2>2, <3>1, <3>2, <4>1
    <3>3. CASE family # "v4"
      <4>1. Covering(ts.start, ts.end, cidrs)
        BY <1>2, <1>8, <2>4, RangesAreCovered
      <4> HIDE DEF cidrs
      <4>2. cidrs \in Seq(Network)
        BY <4>1 DEF Covering
      <4>3. \A i \in DOMAIN cidrs : cidrs[i] \in Network
        BY <4>2
      <4>4. \A i \in DOMAIN cidrs : cidrs[i].family = "v4"
        BY <4>3 DEF Network
      <4>5. ~held
        BY <2>1, <3>3, <4>4 DEF held, covers
      <4> QED
        BY <1>1, <1>8, <3>3, <4>5
    <3> QED
      BY <3>2, <3>3
  <2> QED
    BY <1>2, <2>3, <2>4
<1>9. CASE ~full(ts) /\ ts.family = "v6" /\ ts.start = ts.end
  <2> DEFINE r == [family |-> IF IsMapped(ts.start) THEN "invalid" ELSE "v6",
                   base |-> ts.start, size |-> 1]
  <2>1. routes = <<r>>
    BY <1>9 DEF routes, routesFor
  <2>2. LeftOut(ts, policy) <=> IsMapped(ts.start)
    BY <1>9 DEF LeftOut
  <2>3. covers(r, family, dst) <=> r.family = family /\ dst \in ts.start..(ts.start + 1 - 1)
    BY DEF covers
  <2>4. ts.start..(ts.start + 1 - 1) = ts.start..ts.end
    BY <1>2, <1>9
  <2>5. r.family = family <=> family = ts.family /\ ~IsMapped(ts.start)
    BY <1>9 DEF Family
  <2> HIDE DEF r
  <2> QED
    BY <1>1, <1>5, <2>1, <2>2, <2>3, <2>4, <2>5
<1>10. CASE ~full(ts) /\ ts.family = "v6" /\ ts.start # ts.end
  <2>1. routes = <<>>
    BY <1>10 DEF routes, routesFor
  <2>2. LeftOut(ts, policy)
    BY <1>10 DEF LeftOut
  <2> QED
    BY <1>1, <1>6, <2>1, <2>2
<1> QED
  BY <1>2, <1>7, <1>8, <1>9, <1>10 DEF Family

(* Whatever selectors the ePDG assigns, what routesFor makes of them holds *)
(* the destinations that matchSelectors lets through, and no others.       *)
THEOREM SelectorsAreRouted == EverySelectorRouted
<1> SUFFICES ASSUME NEW ts \in Selector
             PROVE  /\ ts.family = "v4" /\ ts.start <= ts.end => ExactCover(ts.start, ts.end)
                    /\ \A policy \in BOOLEAN, family \in Family : \A dst \in Address(family) :
                        /\ routed(<<ts>>, policy, family, dst) =>
                            family = ts.family /\ dst \in ts.start..ts.end
                        /\ (\E proto \in {1, 17}, dstPort \in Port :
                                matchSelectors(<<ts>>, family, dst, proto, dstPort))
                            => \/ family # ts.family \/ LeftOut(ts, policy)
                               \/ routed(<<ts>>, policy, family, dst)
  BY DEF EverySelectorRouted
<1>1. ASSUME ts.family = "v4", ts.start <= ts.end PROVE ExactCover(ts.start, ts.end)
  BY <1>1, SelectorBounds, RangeIsExact
<1>2. ASSUME NEW policy \in BOOLEAN, NEW family \in Family, NEW dst \in Address(family)
      PROVE  routed(<<ts>>, policy, family, dst) =>
                family = ts.family /\ dst \in ts.start..ts.end
  BY <1>2, Routed
<1>3. ASSUME NEW policy \in BOOLEAN, NEW family \in Family, NEW dst \in Address(family),
             NEW proto \in {1, 17}, NEW dstPort \in Port,
             matchSelectors(<<ts>>, family, dst, proto, dstPort),
             family = ts.family, ~LeftOut(ts, policy)
      PROVE  routed(<<ts>>, policy, family, dst)
  <2>1. DOMAIN <<ts>> = {1} /\ <<ts>>[1] = ts
    OBVIOUS
  <2>2. matchSelector(ts, family, dst, proto, dstPort)
    BY <1>3, <2>1 DEF matchSelectors
  <2>3. dst \in ts.start..ts.end
    BY <1>3, <2>2 DEF matchSelector
  <2> QED
    BY <1>3, <2>3, Routed
<1> QED
  BY <1>1, <1>2, <1>3

(* The routes of a session whose data plane is up agree with its           *)
(* selectors on what goes into the tunnel, for addresses of any width.     *)
THEOREM RoutesMatchSelectorsAlways == Spec => []RoutesMatchSelectors
<1>1. RoutesMatchSelectors
  BY SelectorsAreRouted DEF RoutesMatchSelectors
<1> QED
  BY <1>1, SelectorsAreRouted, PTL DEF RoutesMatchSelectors
=============================================================================
