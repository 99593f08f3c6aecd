--------------------------- MODULE ConnectProofs ---------------------------
(***************************************************************************)
(* TLAPS proofs about connection establishment, for any DH groups, any     *)
(* number of attempts, demands of the ePDG, retransmissions, tickets, EAP  *)
(* rounds and AKA vectors.                                                 *)
(***************************************************************************)
EXTENDS MCConnect, TLAPS, SequenceTheorems, WellFoundedInduction

(* The least element of a set of natural numbers: what inductions rest on  *)
(* here.                                                                   *)
Less == {p \in Nat \X Nat : p[1] < p[2]}

LEMMA LeastElement ==
    ASSUME NEW T, T \subseteq Nat, T # {}
    PROVE  \E n \in T : \A m \in T : n <= m
<1>1. IsWellFoundedOn(Less, Nat)
  BY NatLessThanWellFounded DEF OpToRel, Less
<1>2. PICK x \in T : \A y \in T : <<y, x>> \notin Less
  BY <1>1, WFMin
<1>3. ASSUME NEW y \in T PROVE x <= y
  <2>1. x \in Nat /\ y \in Nat /\ <<y, x>> \notin Less
    BY <1>2
  <2> QED
    BY <2>1 DEF Less
<1> QED
  BY <1>3
-----------------------------------------------------------------------------
(* The socket. *)
USE SocketAssumption

Server == 1..Servers
SocketState ==
    [remoteIPs : Seq(Server), idx : Nat, ip : Server, port : Ports,
     sent : Seq([ip : Server, port : Ports, marked : BOOLEAN]),
     received : Seq(Server)]

(* g runs through the first n steps of history h. *)
Goes(g, h, n) ==
    g = [i \in 0..n |->
            IF i = 0 THEN NewSocketManager ELSE handle(g[i - 1], h[i])]

(* The recursion in states has a solution. *)
LEMMA HistoryGoes ==
    ASSUME NEW h
    PROVE  \A n \in Nat : \E g : Goes(g, h, n)
<1> DEFINE T == {n \in Nat : ~\E g : Goes(g, h, n)}
<1> SUFFICES ASSUME T # {} PROVE FALSE
  OBVIOUS
<1>1. PICK n \in T : \A m \in T : n <= m
  BY LeastElement
<1>2. CASE n = 0
  <2> DEFINE f == [i \in 0..0 |-> NewSocketManager]
  <2>1. Goes(f, h, 0)
    BY DEF Goes
  <2> QED
    BY <1>2, <2>1
<1>3. CASE n # 0
  <2>1. n - 1 \in Nat /\ n - 1 \notin T
    BY <1>1, <1>3
  <2>2. PICK g : Goes(g, h, n - 1)
    BY <2>1
  <2> DEFINE f == [i \in 0..n |-> IF i = n THEN handle(g[n - 1], h[n]) ELSE g[i]]
  <2>3. ASSUME NEW i \in 0..n
        PROVE  f[i] = IF i = 0 THEN NewSocketManager ELSE handle(f[i - 1], h[i])
    <3>1. CASE i = n
      BY <1>3, <3>1
    <3>2. CASE i # n
      <4>1. f[i] = g[i] /\ (i # 0 => f[i - 1] = g[i - 1])
        BY <3>2
      <4>2. g[i] = IF i = 0 THEN NewSocketManager ELSE handle(g[i - 1], h[i])
        BY <2>2, <3>2 DEF Goes
      <4> HIDE DEF f
      <4> QED
        BY <4>1, <4>2
    <3> QED
      BY <3>1, <3>2
  <2>4. f = [i \in 0..n |-> f[i]]
    OBVIOUS
  <2> HIDE DEF f
  <2>5. Goes(f, h, n)
    BY <2>3, <2>4 DEF Goes
  <2> QED
    BY <2>5
<1> QED
  BY <1>2, <1>3

(* The states of a history: the first one, and one turn after another. *)
LEMMA StatesGo ==
    ASSUME NEW h \in Seq(Event)
    PROVE  /\ states(h)[0] = NewSocketManager
           /\ \A n \in 1..Len(h) : states(h)[n] = handle(states(h)[n - 1], h[n])
<1>1. PICK g : Goes(g, h, Len(h))
  BY HistoryGoes
<1>2. states(h) = [i \in 0..Len(h) |->
            IF i = 0 THEN NewSocketManager ELSE handle(states(h)[i - 1], h[i])]
  BY <1>1 DEF states, Goes
<1> QED
  BY <1>2

(* Before the first answer the requests go to the addresses in turn, after *)
(* it to the one that answered.                                            *)
Turn(i) == IF Servers > 1 THEN ((i - 1) % Servers) + 1 ELSE 1

Asking(s) ==
    /\ s.remoteIPs = [i \in Server |-> i]
    /\ s.idx = IF Servers > 1 THEN Len(s.sent) ELSE 0
    /\ Servers = 1 => s.ip = 1
    /\ \A i \in 1..Len(s.sent) : s.sent[i].ip = Turn(i)

Heard(s) ==
    /\ s.remoteIPs = <<s.ip>>
    /\ \A i \in 1..Len(s.received) : s.received[i] = s.ip

(* The port has been 4500, and is no longer, because of what was read last *)
(* from the address in use.                                                *)
Port(h, n, s) ==
    \A i \in 1..n :
        h[i].op = "SetRemotePort" /\ s.port # 4500 =>
            /\ s.received # <<>>
            /\ \E j \in (i + 1)..n :
                h[j].op = "read" /\ h[j].from = [ip |-> s.ip, port |-> s.port]

SocketInv(h, n, s) ==
    /\ s \in SocketState
    /\ s.received = <<>> => Asking(s)
    /\ s.received # <<>> => Heard(s)
    /\ Port(h, n, s)

(* A new socket, before anything happened. *)
LEMMA SocketStarts ==
    ASSUME NEW h PROVE SocketInv(h, 0, NewSocketManager)
<1> DEFINE s == NewSocketManager
<1>1. /\ s.remoteIPs = [i \in Server |-> i] /\ s.idx = 0 /\ s.ip = 1
      /\ s.port = 500 /\ s.sent = <<>> /\ s.received = <<>>
  BY DEF NewSocketManager, Server
<1>2. s \in SocketState
  <2>1. [i \in Server |-> i] \in Seq(Server)
    BY DEF Server
  <2>2. 1 \in Server /\ 500 \in Ports /\ \A S : <<>> \in Seq(S)
    BY EmptySeq DEF Server, Ports
  <2> QED
    BY <2>1, <2>2 DEF NewSocketManager, SocketState, Server
<1>3. Asking(s)
  <2>1. Len(s.sent) = 0
    BY <1>1
  <2> HIDE DEF s
  <2> QED
    BY <1>1, <2>1 DEF Asking
<1>4. Port(h, 0, s)
  BY DEF Port
<1> HIDE DEF s
<1>5. SocketInv(h, 0, s)
  BY <1>1, <1>2, <1>3, <1>4 DEF SocketInv
<1> QED
  BY <1>5 DEF s

(* Servers are taken in turn: none comes again before the others did. *)
LEMMA TurnFacts ==
    /\ \A i \in Nat \ {0} : Turn(i) \in Server
    /\ \A i, j \in Nat \ {0} :
         i < j /\ j < i + Servers => Turn(i) # Turn(j)
<1>1. ASSUME NEW i \in Nat \ {0} PROVE Turn(i) \in Server
  BY DEF Turn, Server
<1>2. ASSUME NEW i \in Nat \ {0}, NEW j \in Nat \ {0}, i < j, j < i + Servers
      PROVE  Turn(i) # Turn(j)
  <2>1. Servers > 1
    BY <1>2
  <2>2. SUFFICES ASSUME (i - 1) % Servers = (j - 1) % Servers PROVE FALSE
    BY <2>1 DEF Turn
  <2> DEFINE p == (i - 1) \div Servers
             q == (j - 1) \div Servers
             r == (i - 1) % Servers
  <2>3. /\ p \in Int /\ q \in Int /\ r \in Int
        /\ i - 1 = Servers * p + r /\ j - 1 = Servers * q + r
    BY <2>2
  <2> HIDE DEF p, q, r
  <2>4. j - i = Servers * (q - p)
    BY <2>3
  <2>5. q - p >= 1
    <3> SUFFICES ASSUME q - p <= 0 PROVE FALSE
      BY <2>3
    <3>1. Servers * (q - p) <= 0
      BY <2>3
    <3> QED
      BY <1>2, <2>4, <3>1, <2>3
  <2>6. Servers * (q - p) >= Servers
    BY <2>5, <2>3
  <2> QED
    BY <1>2, <2>4, <2>6, <2>3
<1> QED
  BY <1>1, <1>2

(* What SendIKE leaves alone. *)
LEMMA PortKept ==
    ASSUME NEW h \in Seq(Event), NEW n \in 1..Len(h), NEW s, NEW t,
           Port(h, n - 1, s), h[n].op # "SetRemotePort",
           t.port = s.port,
           s.received # <<>> => t.ip = s.ip /\ t.received # <<>>
    PROVE  Port(h, n, t)
<1> SUFFICES ASSUME NEW i \in 1..n, h[i].op = "SetRemotePort", t.port # 4500
             PROVE  /\ t.received # <<>>
                    /\ \E j \in (i + 1)..n :
                        h[j].op = "read" /\ h[j].from = [ip |-> t.ip, port |-> t.port]
  BY DEF Port
<1>1. i \in 1..(n - 1)
  OBVIOUS
<1>2. /\ s.received # <<>>
      /\ \E j \in (i + 1)..(n - 1) :
            h[j].op = "read" /\ h[j].from = [ip |-> s.ip, port |-> s.port]
  BY <1>1 DEF Port
<1>3. PICK j \in (i + 1)..(n - 1) :
            h[j].op = "read" /\ h[j].from = [ip |-> s.ip, port |-> s.port]
  BY <1>2
<1>4. j \in (i + 1)..n
  OBVIOUS
<1> QED
  BY <1>2, <1>3, <1>4

(* SendIKE keeps the turns. *)
LEMMA SendKeeps ==
    ASSUME NEW h \in Seq(Event), NEW n \in 1..Len(h), NEW s, SocketInv(h, n - 1, s),
           h[n].op = "SendIKE"
    PROVE  SocketInv(h, n, SendIKE(s))
<1> DEFINE ip == IF Len(s.remoteIPs) > 1
                 THEN s.remoteIPs[(s.idx % Len(s.remoteIPs)) + 1] ELSE s.ip
           new == [ip |-> ip, port |-> s.port, marked |-> s.port = 4500]
           t == SendIKE(s)
<1>1. s \in SocketState
  BY DEF SocketInv
<1>2. /\ t.remoteIPs = s.remoteIPs /\ t.port = s.port /\ t.received = s.received
      /\ t.ip = ip /\ t.sent = Append(s.sent, new)
      /\ t.idx = IF Len(s.remoteIPs) > 1 THEN s.idx + 1 ELSE s.idx
      /\ t = [remoteIPs |-> t.remoteIPs, idx |-> t.idx, ip |-> t.ip, port |-> t.port,
              sent |-> t.sent, received |-> t.received]
  <2> DEFINE n0 == Len(s.remoteIPs)
  <2>1. t = [s EXCEPT !.idx = IF n0 > 1 THEN s.idx + 1 ELSE s.idx,
                      !.ip = ip, !.sent = Append(s.sent, new)]
    BY <1>1 DEF SendIKE, SocketState
  <2> HIDE DEF t, n0, ip, new
  <2>2. /\ t.remoteIPs = s.remoteIPs /\ t.port = s.port /\ t.received = s.received
        /\ t.ip = ip /\ t.sent = Append(s.sent, new)
        /\ t.idx = IF n0 > 1 THEN s.idx + 1 ELSE s.idx
        /\ t = [remoteIPs |-> t.remoteIPs, idx |-> t.idx, ip |-> t.ip, port |-> t.port,
                sent |-> t.sent, received |-> t.received]
    BY <1>1, <2>1 DEF SocketState
  <2> QED
    BY <2>2 DEF n0
<1>3. ip \in Server
  <2>1. CASE Len(s.remoteIPs) > 1
    <3> DEFINE k == (s.idx % Len(s.remoteIPs)) + 1
    <3>1. Len(s.remoteIPs) \in Nat /\ s.idx \in Nat /\ s.remoteIPs \in Seq(Server)
      BY <1>1 DEF SocketState
    <3>2. k \in 1..Len(s.remoteIPs)
      BY <2>1, <3>1
    <3> HIDE DEF k
    <3>3. s.remoteIPs[k] \in Server
      BY <3>1, <3>2
    <3> QED
      BY <2>1, <3>3 DEF k
  <2>2. CASE ~(Len(s.remoteIPs) > 1)
    BY <1>1, <2>2 DEF SocketState
  <2> QED
    BY <2>1, <2>2
<1> HIDE DEF ip
<1>4. Len(t.sent) = Len(s.sent) + 1 /\ t.sent[Len(s.sent) + 1] = new
      /\ \A i \in 1..Len(s.sent) : t.sent[i] = s.sent[i]
  BY <1>1, <1>2 DEF SocketState
<1>5. t \in SocketState
  <2>1. new \in [ip : Server, port : Ports, marked : BOOLEAN]
    BY <1>1, <1>3 DEF SocketState
  <2>2. t.sent \in Seq([ip : Server, port : Ports, marked : BOOLEAN])
    BY <1>1, <1>2, <2>1 DEF SocketState
  <2>3. t.idx \in Nat
    BY <1>1, <1>2 DEF SocketState
  <2> HIDE DEF t
  <2>4. /\ t.remoteIPs \in Seq(Server) /\ t.ip \in Server /\ t.port \in Ports
        /\ t.received \in Seq(Server)
    BY <1>1, <1>2, <1>3 DEF SocketState
  <2> QED
    BY Zenon, <1>2, <2>2, <2>3, <2>4 DEF SocketState
<1> HIDE DEF t
<1>6. ASSUME s.received = <<>> PROVE Asking(t)
  <2>1. Asking(s)
    BY <1>6 DEF SocketInv
  <2>2. Len(s.remoteIPs) = Servers /\ \A i \in Server : s.remoteIPs[i] = i
    BY <2>1 DEF Asking, Server
  <2>3. Len(s.sent) \in Nat
    BY <1>1 DEF SocketState
  <2>4. ip = Turn(Len(s.sent) + 1)
    <3>1. CASE Servers > 1
      <4>1. s.idx = Len(s.sent)
        BY <2>1, <3>1 DEF Asking
      <4>2. ip = s.remoteIPs[(Len(s.sent) % Servers) + 1]
        BY <2>2, <3>1, <4>1 DEF ip
      <4>3. (Len(s.sent) % Servers) + 1 \in Server
        <5>1. Len(s.sent) + 1 \in Nat \ {0} /\ (Len(s.sent) + 1) - 1 = Len(s.sent)
          BY <2>3
        <5>2. Turn(Len(s.sent) + 1) \in Server
          BY <5>1, TurnFacts
        <5> QED
          BY <3>1, <5>1, <5>2 DEF Turn
      <4>4. ip = (Len(s.sent) % Servers) + 1
        BY <2>2, <4>2, <4>3
      <4> QED
        BY <2>3, <3>1, <4>4 DEF Turn
    <3>2. CASE Servers = 1
      BY <2>1, <2>2, <3>2 DEF Asking, ip, Turn
    <3> QED
      BY <3>1, <3>2
  <2>5. \A i \in 1..Len(t.sent) : t.sent[i].ip = Turn(i)
    <3>1. t.sent[Len(s.sent) + 1].ip = Turn(Len(s.sent) + 1)
      BY <1>4, <2>4
    <3>2. \A i \in 1..Len(s.sent) : t.sent[i].ip = Turn(i)
      <4>1. \A i \in 1..Len(s.sent) : s.sent[i].ip = Turn(i)
        BY <2>1 DEF Asking
      <4>2. \A i \in 1..Len(s.sent) : t.sent[i] = s.sent[i]
        BY <1>4
      <4> QED
        BY ONLY <4>1, <4>2
    <3> QED
      BY <1>4, <2>3, <3>1, <3>2
  <2>6. t.idx = IF Servers > 1 THEN Len(t.sent) ELSE 0
    BY <1>2, <1>4, <2>1, <2>2, <2>3 DEF Asking
  <2>7. Servers = 1 => t.ip = 1
    BY <1>2, <2>4 DEF Turn
  <2>8. t.remoteIPs = [i \in Server |-> i]
    BY <1>2, <2>1 DEF Asking
  <2> QED
    BY <2>5, <2>6, <2>7, <2>8 DEF Asking
<1>7. ASSUME s.received # <<>> PROVE Heard(t) /\ t.ip = s.ip
  <2>1. Heard(s) /\ Len(s.remoteIPs) = 1
    BY <1>7 DEF SocketInv, Heard
  <2>2. ip = s.ip
    BY <2>1 DEF ip
  <2> QED
    BY <1>2, <2>1, <2>2 DEF Heard
<1>8. Port(h, n, t)
  BY SMTT(30), <1>2, <1>7, PortKept DEF SocketInv
<1>9. SocketInv(h, n, t)
  BY <1>2, <1>5, <1>6, <1>7, <1>8 DEF SocketInv
<1> QED
  BY <1>9 DEF t

(* SetRemotePort asks for nothing of the datagrams before it. *)
LEMMA SetPortKeeps ==
    ASSUME NEW h \in Seq(Event), NEW n \in 1..Len(h), NEW s, SocketInv(h, n - 1, s)
    PROVE  SocketInv(h, n, SetRemotePort(s))
<1> DEFINE t == SetRemotePort(s)
<1>1. s \in SocketState
  BY DEF SocketInv
<1>2. /\ t \in SocketState /\ t.port = 4500
      /\ t.remoteIPs = s.remoteIPs /\ t.idx = s.idx /\ t.ip = s.ip
      /\ t.sent = s.sent /\ t.received = s.received
  <2>1. t = [s EXCEPT !.port = 4500] /\ 4500 \in Ports
    BY DEF SetRemotePort, Ports
  <2> HIDE DEF t
  <2>4. s = [remoteIPs |-> s.remoteIPs, idx |-> s.idx, ip |-> s.ip,
             port |-> s.port, sent |-> s.sent, received |-> s.received]
    BY <1>1 DEF SocketState
  <2>2. /\ t.port = 4500 /\ t.remoteIPs = s.remoteIPs /\ t.idx = s.idx
        /\ t.ip = s.ip /\ t.sent = s.sent /\ t.received = s.received
        /\ t = [remoteIPs |-> t.remoteIPs, idx |-> t.idx, ip |-> t.ip, port |-> t.port,
                sent |-> t.sent, received |-> t.received]
    BY <2>1, <2>4
  <2>3. /\ s.remoteIPs \in Seq(Server) /\ s.idx \in Nat /\ s.ip \in Server
        /\ s.sent \in Seq([ip : Server, port : Ports, marked : BOOLEAN])
        /\ s.received \in Seq(Server)
    BY <1>1 DEF SocketState
  <2> QED
    BY <2>1, <2>2, <2>3 DEF SocketState
<1> HIDE DEF t
<1>3. SocketInv(h, n, t)
  BY <1>2 DEF SocketInv, Asking, Heard, Port
<1> QED
  BY <1>3 DEF t

(* readLoop keeps the first address it hears from. *)
LEMMA ReadKeeps ==
    ASSUME NEW h \in Seq(Event), NEW n \in 1..Len(h), NEW s, SocketInv(h, n - 1, s),
           h[n].op = "read"
    PROVE  SocketInv(h, n, readLoop(s, h[n].from))
<1> DEFINE from == h[n].from
           t == readLoop(s, from)
<1>1. s \in SocketState
  BY DEF SocketInv
<1>2. from \in Source
  <2>1. h[n] \in Event
    OBVIOUS
  <2> QED
    BY <2>1 DEF Event
<1>3. CASE ~allowed(s, from)
  <2>1. t = s
    BY <1>3 DEF readLoop
  <2>2. Port(h, n, s)
    BY PortKept DEF SocketInv
  <2>3. SocketInv(h, n, s)
    BY <2>2 DEF SocketInv
  <2> QED
    BY <2>1, <2>3
<1>4. CASE allowed(s, from)
  <2>1. /\ t.ip = IF Len(s.remoteIPs) > 1 THEN from.ip ELSE s.ip
        /\ t.idx = IF Len(s.remoteIPs) > 1 THEN 0 ELSE s.idx
        /\ t.remoteIPs = <<from.ip>> /\ t.port = from.port
        /\ t.received = Append(s.received, from.ip) /\ t.sent = s.sent
        /\ t = [remoteIPs |-> t.remoteIPs, idx |-> t.idx, ip |-> t.ip,
                port |-> t.port, sent |-> t.sent, received |-> t.received]
    BY <1>1, <1>4 DEF readLoop, SocketState
  <2>2. PICK i \in DOMAIN s.remoteIPs : s.remoteIPs[i] = from.ip
    BY <1>4 DEF allowed
  <2>3. s.remoteIPs \in Seq(Server) /\ s.received \in Seq(Server)
    BY <1>1 DEF SocketState
  <2>4. from.ip \in Server /\ i \in 1..Len(s.remoteIPs)
    BY <2>2, <2>3
  <2>5. s.received # <<>> => from.ip = s.ip
    <3> SUFFICES ASSUME s.received # <<>> PROVE from.ip = s.ip
      OBVIOUS
    <3>1. s.remoteIPs = <<s.ip>>
      BY DEF SocketInv, Heard
    <3> HIDE DEF from
    <3> QED
      BY <2>2, <2>4, <3>1
  <2>6. t.ip = from.ip
    <3>1. CASE s.received # <<>>
      BY <2>1, <2>5, <3>1
    <3>2. CASE s.received = <<>> /\ Servers = 1
      <4>1. s.ip = 1 /\ s.remoteIPs = [k \in Server |-> k]
        BY <3>2 DEF SocketInv, Asking
      <4>2. from.ip = 1
        BY <2>4, <3>2 DEF Server
      <4> HIDE DEF t, from
      <4> QED
        BY <2>1, <4>1, <4>2
    <3>3. CASE s.received = <<>> /\ Servers > 1
      <4>1. s.remoteIPs = [k \in Server |-> k]
        BY <3>3 DEF SocketInv, Asking
      <4>2. Len(s.remoteIPs) > 1
        BY <3>3, <4>1 DEF Server
      <4> QED
        BY <2>1, <4>2
    <3> QED
      BY <3>1, <3>2, <3>3
  <2> HIDE DEF t
  <2>7. t.received \in Seq(Server) /\ t.received # <<>>
        /\ \A k \in 1..Len(t.received) : t.received[k] = from.ip
    <3>1. /\ Len(t.received) = Len(s.received) + 1
          /\ t.received[Len(s.received) + 1] = from.ip
          /\ \A k \in 1..Len(s.received) : t.received[k] = s.received[k]
          /\ t.received \in Seq(Server)
      BY <2>1, <2>3, <2>4
    <3>2. \A k \in 1..Len(s.received) : s.received[k] = from.ip
      <4>1. CASE s.received = <<>>
        BY <4>1
      <4>2. CASE s.received # <<>>
        BY <2>5, <4>2 DEF SocketInv, Heard
      <4> QED
        BY <4>1, <4>2
    <3>3. t.received # <<>>
      BY <3>1, <2>3
    <3> HIDE DEF from
    <3>4. \A k \in 1..Len(t.received) : t.received[k] = from.ip
      <4>1. Len(s.received) \in Nat
        BY <2>3
      <4> QED
        BY SMTT(30), <3>1, <3>2, <4>1
    <3> QED
      BY <3>1, <3>3, <3>4
  <2>8. t \in SocketState
    <3>1. t.remoteIPs \in Seq(Server)
      BY <2>1, <2>4
    <3>2. t.idx \in Nat /\ t.sent = s.sent /\ t.ip \in Server /\ t.port \in Ports
      BY <1>1, <1>2, <2>1, <2>4, <2>6 DEF SocketState, Source
    <3> QED
      BY <1>1, <2>1, <2>7, <3>1, <3>2 DEF SocketState
  <2>9. Port(h, n, t)
    <3> SUFFICES ASSUME NEW k \in 1..n, h[k].op = "SetRemotePort"
                 PROVE  \E j \in (k + 1)..n :
                          h[j].op = "read" /\ h[j].from = [ip |-> t.ip, port |-> t.port]
      BY <2>7 DEF Port
    <3>1. n \in (k + 1)..n
      <4>1. k # n
        OBVIOUS
      <4> QED
        BY <4>1
    <3>2. from = [ip |-> t.ip, port |-> t.port]
      BY <1>2, <2>1, <2>6 DEF Source
    <3> QED
      BY <3>1, <3>2
  <2>10. SocketInv(h, n, t)
    BY <2>1, <2>6, <2>7, <2>8, <2>9 DEF SocketInv, Heard
  <2> QED
    BY <2>10 DEF t
<1> QED
  BY <1>3, <1>4

(* Every state of every history keeps the turns and the one address. *)
LEMMA SocketAlways ==
    ASSUME NEW h \in Seq(Event)
    PROVE  \A n \in 0..Len(h) : SocketInv(h, n, states(h)[n])
<1> DEFINE T == {n \in 0..Len(h) : ~SocketInv(h, n, states(h)[n])}
<1> SUFFICES ASSUME T # {} PROVE FALSE
  OBVIOUS
<1>1. PICK n \in T : \A m \in T : n <= m
  <2>1. T \subseteq Nat
    OBVIOUS
  <2> HIDE DEF T
  <2> QED
    BY <2>1, LeastElement
<1>2. n # 0
  BY StatesGo, SocketStarts
<1>3. SocketInv(h, n - 1, states(h)[n - 1])
  <2>1. n - 1 \in 0..Len(h) /\ n - 1 \notin T
    BY <1>1, <1>2
  <2> QED
    BY <2>1
<1>4. n \in 1..Len(h) /\ states(h)[n] = handle(states(h)[n - 1], h[n])
  BY <1>2, StatesGo
<1>5. SocketInv(h, n, handle(states(h)[n - 1], h[n]))
  <2>1. CASE h[n].op = "SendIKE"
    BY <1>3, <1>4, <2>1, SendKeeps DEF handle
  <2>2. CASE h[n].op = "SetRemotePort"
    BY <1>3, <1>4, <2>2, SetPortKeeps DEF handle
  <2>3. CASE h[n].op = "read"
    BY <1>3, <1>4, <2>3, ReadKeeps DEF handle
  <2>4. h[n] \in Event
    BY <1>4
  <2> QED
    BY <2>1, <2>2, <2>3, <2>4 DEF Event
<1> QED
  BY <1>1, <1>4, <1>5

(* However many addresses the ePDG has and however long the history: the  *)
(* session hears one address and from then on talks to it, before it asks  *)
(* them all in turn, and the port follows only what it hears.              *)
THEOREM TalksToOneServer == OneServerInEveryHistory
<1> SUFFICES ASSUME NEW h \in Histories
             PROVE
        LET s == after(h)
            next == SendIKE(s)
        IN /\ \A i \in DOMAIN s.received : s.received[i] = s.received[1]
           /\ s.received # <<>> => next.sent[Len(next.sent)].ip = s.received[1]
           /\ s.received = <<>> =>
                \A i, j \in DOMAIN s.sent :
                    i < j /\ j < i + Servers => s.sent[i].ip # s.sent[j].ip
           /\ PortFollows(h, s)
  BY DEF OneServerInEveryHistory
<1> DEFINE s == after(h)
           next == SendIKE(s)
<1>1. h \in Seq(Event)
  BY DEF Histories
<1>2. SocketInv(h, Len(h), s)
  BY <1>1, SocketAlways DEF after
<1> HIDE DEF s
<1>3. s \in SocketState /\ s.received \in Seq(Server) /\ DOMAIN s.received = 1..Len(s.received)
      /\ DOMAIN s.sent = 1..Len(s.sent) /\ Len(s.sent) \in Nat /\ Len(s.received) \in Nat
  BY <1>2 DEF SocketInv, SocketState
<1>4. \A i \in DOMAIN s.received : s.received[i] = s.received[1]
  <2>1. s.received # <<>> => Heard(s)
    BY <1>2 DEF SocketInv
  <2> QED
    BY <1>3, <2>1 DEF Heard
<1>5. ASSUME s.received # <<>> PROVE next.sent[Len(next.sent)].ip = s.received[1]
  <2>1. Heard(s) /\ s.remoteIPs = <<s.ip>> /\ Len(s.remoteIPs) = 1
    BY <1>2, <1>5 DEF SocketInv, Heard
  <2>2. next.sent = Append(s.sent, [ip |-> s.ip, port |-> s.port,
                                    marked |-> s.port = 4500])
    BY <1>3, <2>1 DEF SendIKE, SocketState
  <2>3. next.sent[Len(next.sent)].ip = s.ip
    BY <1>3, <2>2 DEF SocketState
  <2>4. Len(s.received) > 0
    BY <1>3, <1>5
  <2> QED
    BY <1>3, <2>1, <2>3, <2>4 DEF Heard
<1>6. ASSUME s.received = <<>>
      PROVE  \A i, j \in DOMAIN s.sent :
                i < j /\ j < i + Servers => s.sent[i].ip # s.sent[j].ip
  BY <1>2, <1>3, <1>6, TurnFacts DEF SocketInv, Asking
<1>7. PortFollows(h, s)
  BY <1>1, <1>2 DEF SocketInv, Port, PortFollows
<1> QED
  BY <1>4, <1>5, <1>6, <1>7 DEF s

HIDE SocketAssumption
-----------------------------------------------------------------------------
(* The proposals, by the set of their transforms. *)
Transforms(p) == {p[i] : i \in DOMAIN p}
Of(p, type) == {t \in Transforms(p) : t.type = type}

(* What a peer may pick of one type, in terms of sets. *)
LEMMA PicksAre ==
    ASSUME NEW p, NEW type
    PROVE  Picks(p, type) = IF Of(p, type) = {} THEN {NoTransform(type)} ELSE Of(p, type)
<1>1. ofType(p, type) = {} <=> Of(p, type) = {}
  BY DEF ofType, Of, Transforms
<1>2. {p[i] : i \in ofType(p, type)} = Of(p, type)
  BY DEF ofType, Of, Transforms
<1> QED
  BY <1>1, <1>2 DEF Picks

(* The transforms of two proposals put together, ... *)
LEMMA Concatenated ==
    ASSUME NEW S, NEW a \in Seq(S), NEW b \in Seq(S)
    PROVE  a \o b \in Seq(S) /\ Transforms(a \o b) = Transforms(a) \cup Transforms(b)
<1>1. /\ a \o b \in Seq(S) /\ DOMAIN (a \o b) = 1..(Len(a) + Len(b))
      /\ DOMAIN a = 1..Len(a) /\ DOMAIN b = 1..Len(b)
      /\ Len(a) \in Nat /\ Len(b) \in Nat
  OBVIOUS
<1>2. \A i \in DOMAIN (a \o b) :
        (a \o b)[i] = IF i <= Len(a) THEN a[i] ELSE b[i - Len(a)]
  OBVIOUS
<1>3. ASSUME NEW i \in DOMAIN a PROVE a[i] \in Transforms(a \o b)
  BY <1>1, <1>2 DEF Transforms
<1>4. ASSUME NEW i \in DOMAIN b PROVE b[i] \in Transforms(a \o b)
  <2>1. Len(a) + i \in DOMAIN (a \o b) /\ ~(Len(a) + i <= Len(a)) /\ Len(a) + i - Len(a) = i
    BY <1>1
  <2>2. (a \o b)[Len(a) + i] = b[i]
    BY <1>2, <2>1
  <2> QED
    BY <2>1, <2>2 DEF Transforms
<1>5. ASSUME NEW i \in DOMAIN (a \o b)
      PROVE  (a \o b)[i] \in Transforms(a) \cup Transforms(b)
  <2>1. CASE i <= Len(a)
    BY <1>1, <1>2, <2>1 DEF Transforms
  <2>2. CASE ~(i <= Len(a))
    <3>1. i - Len(a) \in DOMAIN b
      BY <1>1, <2>2
    <3> QED
      BY <1>2, <2>2, <3>1 DEF Transforms
  <2> QED
    BY <2>1, <2>2
<1> HIDE DEF Transforms
<1>6. Transforms(a) \subseteq Transforms(a \o b) /\ Transforms(b) \subseteq Transforms(a \o b)
  BY <1>3, <1>4 DEF Transforms
<1>7. Transforms(a \o b) \subseteq Transforms(a) \cup Transforms(b)
  <2>1. Transforms(a \o b) = {(a \o b)[i] : i \in DOMAIN (a \o b)}
    BY DEF Transforms
  <2> QED
    BY <1>5, <2>1
<1> QED
  BY <1>1, <1>6, <1>7

(* ... of one more transform, ... *)
LEMMA Appended ==
    ASSUME NEW S, NEW a \in Seq(S), NEW t \in S
    PROVE  Append(a, t) \in Seq(S) /\ Transforms(Append(a, t)) = Transforms(a) \cup {t}
<1> DEFINE b == Append(a, t)
<1>1. /\ b \in Seq(S) /\ DOMAIN b = 1..(Len(a) + 1) /\ b[Len(a) + 1] = t
      /\ \A i \in 1..Len(a) : b[i] = a[i]
      /\ DOMAIN a = 1..Len(a) /\ Len(a) \in Nat
  OBVIOUS
<1> HIDE DEF b
<1>2. Transforms(b) = Transforms(a) \cup {t}
  BY <1>1 DEF Transforms
<1> QED
  BY <1>1, <1>2 DEF b

(* ... and of a literal list. *)
LEMMA Listed ==
    /\ Transforms(<<>>) = {}
    /\ \A x : Transforms(<<x>>) = {x}
    /\ \A x, y : Transforms(<<x, y>>) = {x, y}
    /\ \A x, y, z : Transforms(<<x, y, z>>) = {x, y, z}
    /\ \A x, y, z, u : Transforms(<<x, y, z, u>>) = {x, y, z, u}
BY DEF Transforms

(* The transforms kept by the loop of ParseIKEProposals are those that are *)
(* no PRF.                                                                 *)
Keep(kept, t) == IF t.type = "prf" THEN kept ELSE Append(kept, t)
Filters(g, p, n) ==
    g = [i \in 0..n |-> IF i = 0 THEN <<>> ELSE Keep(g[i - 1], p[i])]

(* The loop has a solution for every number of turns. *)
LEMMA LoopFilters ==
    ASSUME NEW p
    PROVE  \A n \in Nat : \E g : Filters(g, p, n)
<1> DEFINE T == {n \in Nat : ~\E g : Filters(g, p, n)}
<1> SUFFICES ASSUME T # {} PROVE FALSE
  OBVIOUS
<1>1. PICK n \in T : \A m \in T : n <= m
  BY LeastElement
<1>2. CASE n = 0
  <2> DEFINE f == [i \in 0..0 |-> <<>>]
  <2>1. Filters(f, p, 0)
    BY DEF Filters
  <2> QED
    BY <1>2, <2>1
<1>3. CASE n # 0
  <2>1. n - 1 \in Nat /\ n - 1 \notin T
    BY <1>1, <1>3
  <2>2. PICK g : Filters(g, p, n - 1)
    BY <2>1
  <2> DEFINE f == [i \in 0..n |-> IF i = n THEN Keep(g[n - 1], p[n]) ELSE g[i]]
  <2>3. ASSUME NEW i \in 0..n
        PROVE  f[i] = IF i = 0 THEN <<>> ELSE Keep(f[i - 1], p[i])
    <3>1. CASE i = n
      BY <1>3, <3>1
    <3>2. CASE i # n
      <4>1. f[i] = g[i] /\ (i # 0 => f[i - 1] = g[i - 1])
        BY <3>2
      <4>2. g[i] = IF i = 0 THEN <<>> ELSE Keep(g[i - 1], p[i])
        BY <2>2, <3>2 DEF Filters
      <4> HIDE DEF f
      <4> QED
        BY <4>1, <4>2
    <3> QED
      BY <3>1, <3>2
  <2>4. f = [i \in 0..n |-> f[i]]
    OBVIOUS
  <2> HIDE DEF f
  <2>5. Filters(f, p, n)
    BY <2>3, <2>4 DEF Filters
  <2> QED
    BY <2>5
<1> QED
  BY <1>2, <1>3

(* What is left is in the proposal and is no PRF, and nothing else is      *)
(* lost.                                                                   *)
LEMMA WithoutPRF ==
    ASSUME NEW S, NEW p \in Seq(S)
    PROVE  /\ withoutPRF(p) \in Seq(S)
           /\ Transforms(withoutPRF(p)) = {t \in Transforms(p) : t.type # "prf"}
<1> DEFINE filtered == CHOOSE g : Filters(g, p, Len(p))
<1>1. Filters(filtered, p, Len(p))
  BY LoopFilters
<1>2. withoutPRF(p) = filtered[Len(p)]
  BY DEF withoutPRF, Filters, Keep
<1> HIDE DEF filtered
<1>3. /\ filtered[0] = <<>>
      /\ \A n \in 1..Len(p) : filtered[n] = Keep(filtered[n - 1], p[n])
  <2>1. filtered = [i \in 0..Len(p) |-> IF i = 0 THEN <<>>
                                        ELSE Keep(filtered[i - 1], p[i])]
    BY <1>1 DEF Filters
  <2>2. Len(p) \in Nat
    OBVIOUS
  <2> QED
    BY <2>1, <2>2
<1> DEFINE Kept(n) == {p[i] : i \in {j \in 1..n : p[j].type # "prf"}}
           Good(n) == filtered[n] \in Seq(S) /\ Transforms(filtered[n]) = Kept(n)
           T == {n \in 0..Len(p) : ~Good(n)}
<1>4. ASSUME NEW n \in 1..Len(p), Good(n - 1) PROVE Good(n)
  <2>1. p[n] \in S /\ filtered[n] = Keep(filtered[n - 1], p[n])
    BY <1>3
  <2>2. Kept(n) = Kept(n - 1) \cup (IF p[n].type = "prf" THEN {} ELSE {p[n]})
    OBVIOUS
  <2> HIDE DEF Kept
  <2>3. filtered[n - 1] \in Seq(S) /\ Transforms(filtered[n - 1]) = Kept(n - 1)
    BY <1>4
  <2>4. CASE p[n].type = "prf"
    BY <2>1, <2>2, <2>3, <2>4 DEF Keep
  <2>5. CASE p[n].type # "prf"
    <3> DEFINE q == filtered[n - 1]
               t == p[n]
    <3>1. q \in Seq(S) /\ t \in S /\ filtered[n] = Append(q, t)
      BY <2>1, <2>3, <2>5 DEF Keep
    <3> HIDE DEF q, t, Good
    <3>3. filtered[n] \in Seq(S) /\ Transforms(filtered[n]) = Transforms(q) \cup {t}
      BY <3>1, Appended
    <3>4. Transforms(filtered[n]) = Kept(n)
      BY <2>2, <2>3, <2>5, <3>3 DEF q, t
    <3> QED
      BY <3>3, <3>4 DEF Good
  <2> QED
    BY <2>4, <2>5
<1>5. Good(0)
  BY <1>3, Listed
<1>6. Kept(Len(p)) = {t \in Transforms(p) : t.type # "prf"}
  BY DEF Transforms
<1>7. T \subseteq Nat /\ Len(p) \in Nat
  OBVIOUS
<1> HIDE DEF Good
<1>8. T = {}
  <2> SUFFICES ASSUME T # {} PROVE FALSE
    OBVIOUS
  <2>1. PICK n \in T : \A m \in T : n <= m
    <3> HIDE DEF T
    <3> QED
      BY <1>7, LeastElement
  <2>2. n \in 1..Len(p)
    BY <1>5, <1>7, <2>1
  <2>3. n - 1 \in 0..Len(p) /\ n - 1 \notin T
    BY <1>7, <2>1, <2>2
  <2>4. Good(n - 1)
    BY <2>3
  <2> QED
    BY <1>4, <2>1, <2>2, <2>4
<1>9. Good(Len(p))
  BY <1>7, <1>8
<1> QED
  BY <1>2, <1>6, <1>9 DEF Good

(* Any proposals that may be configured: any number, any words N, among     *)
(* which are those of the presets.                                         *)
PresetNames == {"gcm16", "cbc", "sha1", "sha256", "sha384"}
AnyEncr(N) == {Encr(a, k) : a \in N, k \in Nat}
Named(N) == {Integ(a) : a \in N} \cup {PRF(a) : a \in N \ {"none"}}
AnySpec(N) == [encr : AnyEncr(N), middle : Seq(Named(N)), dh : Nat]
AnyTransform(N) ==
    AnyEncr(N) \cup Named(N) \cup {DH(g) : g \in Nat} \cup {ESN(i) : i \in Nat}

(* The fields of each kind of transform. *)
LEMMA Tags ==
    /\ \A g : DH(g).type = "dh" /\ DH(g).id = g
    /\ \A i : ESN(i).type = "esn" /\ ESN(i).id = i
    /\ \A a : Integ(a).type = "integ" /\ Integ(a).id = a
    /\ \A a : PRF(a).type = "prf" /\ PRF(a).id = a
    /\ \A a, k : Encr(a, k).type = "encr" /\ Encr(a, k).id = a /\ Encr(a, k).keyLen = k
BY DEF DH, ESN, Integ, PRF, Encr, Transform

(* What a word of a configured proposal can stand for. *)
LEMMA Words ==
    ASSUME NEW N
    PROVE  /\ \A e \in AnyEncr(N) : e.type = "encr" /\ e = Encr(e.id, e.keyLen)
           /\ \A t \in Named(N) : t.type \in {"integ", "prf"}
           /\ \A t \in Named(N) : t.type = "prf" => t.id # "none"
BY DEF AnyEncr, Named, Integ, PRF, Encr, Transform

(* The last of the middle words is one of them. *)
LEMMA MiddleLast ==
    ASSUME NEW N, NEW m \in Seq(Named(N)), m # <<>>
    PROVE  m[Len(m)] \in Named(N)
OBVIOUS

(* What a configured proposal holds. *)
LEMMA ParsedIKE ==
    ASSUME NEW N, PresetNames \subseteq N, NEW spec \in AnySpec(N), NEW autoPRF \in BOOLEAN
    PROVE  LET p == parseIKEProposal(spec, autoPRF)
           IN /\ Of(p, "dh") = {DH(spec.dh)}
              /\ \A t \in Of(p, "prf") : t.id # "none"
              /\ autoPRF => Of(p, "prf") # {}
<1> DEFINE m == spec.middle
           derived == IF ofType(m, "prf") # {} THEN <<>>
                      ELSE IF m = <<>> THEN <<PRF("sha256")>>
                      ELSE IF autoPRF THEN <<PRF(defaultPRFFromInteg(m[Len(m)].id))>>
                      ELSE <<>>
           p == parseIKEProposal(spec, autoPRF)
<1>1. p = <<spec.encr>> \o m \o derived \o <<DH(spec.dh)>>
  BY DEF parseIKEProposal
<1>2. m \in Seq(Named(N)) /\ spec.encr \in AnyEncr(N) /\ spec.dh \in Nat
  BY DEF AnySpec
<1>3. /\ derived = <<>> \/ \E a \in N \ {"none"} : derived = <<PRF(a)>>
      /\ autoPRF /\ ofType(m, "prf") = {} => derived # <<>>
  <2>1. CASE m = <<>>
    <3>1. "sha256" \in N \ {"none"}
      BY DEF PresetNames
    <3> QED
      BY <2>1, <3>1
  <2>2. CASE m # <<>>
    <3>1. m[Len(m)] \in Named(N)
      BY <1>2, <2>2, MiddleLast
    <3>2. m[Len(m)].id \in N
      BY <3>1 DEF Named, Integ, PRF, Transform
    <3>3. defaultPRFFromInteg(m[Len(m)].id) \in N \ {"none"}
      <4>1. "sha256" \in N
        BY DEF PresetNames
      <4> QED
        BY <3>2, <4>1 DEF defaultPRFFromInteg
    <3> QED
      BY <2>2, <3>3
  <2> QED
    BY <2>1, <2>2
<1> HIDE DEF m, derived, p
<1>4. /\ <<spec.encr>> \in Seq(AnyTransform(N)) /\ m \in Seq(AnyTransform(N))
      /\ <<DH(spec.dh)>> \in Seq(AnyTransform(N)) /\ derived \in Seq(AnyTransform(N))
  <2>1. spec.encr \in AnyTransform(N) /\ DH(spec.dh) \in AnyTransform(N)
    BY <1>2 DEF AnyTransform
  <2>2. \A a \in N \ {"none"} : PRF(a) \in AnyTransform(N)
    BY DEF AnyTransform, Named
  <2>3. Named(N) \subseteq AnyTransform(N)
    BY DEF AnyTransform
  <2>4. \A t \in AnyTransform(N) : <<t>> \in Seq(AnyTransform(N))
    OBVIOUS
  <2>5. m \in Seq(AnyTransform(N))
    BY <1>2, <2>3
  <2>6. derived \in Seq(AnyTransform(N))
    <3>1. CASE derived = <<>>
      BY <3>1
    <3>2. CASE derived # <<>>
      <4>1. PICK a \in N \ {"none"} : derived = <<PRF(a)>>
        BY <1>3, <3>2
      <4>2. PRF(a) \in AnyTransform(N)
        BY <2>2
      <4> QED
        BY <2>4, <4>1, <4>2
    <3> QED
      BY <3>1, <3>2
  <2> QED
    BY <2>1, <2>4, <2>5, <2>6
<1>5. Transforms(p) = {spec.encr} \cup Transforms(m) \cup Transforms(derived)
                        \cup {DH(spec.dh)}
  <2> DEFINE first == <<spec.encr>>
             head == first \o m
             body == head \o derived
             last == <<DH(spec.dh)>>
  <2>0. first \in Seq(AnyTransform(N)) /\ m \in Seq(AnyTransform(N))
    BY <1>4
  <2> HIDE DEF first
  <2>1. /\ head \in Seq(AnyTransform(N))
        /\ Transforms(head) = Transforms(first) \cup Transforms(m)
    BY <2>0, Concatenated
  <2> HIDE DEF head
  <2>2. /\ body \in Seq(AnyTransform(N))
        /\ Transforms(body) = Transforms(head) \cup Transforms(derived)
    BY <1>4, <2>1, Concatenated
  <2>3. p = body \o last /\ last \in Seq(AnyTransform(N))
    BY <1>1, <1>4 DEF head, first
  <2>5. Transforms(first) = {spec.encr} /\ Transforms(last) = {DH(spec.dh)}
    BY Listed DEF first
  <2> HIDE DEF body, last
  <2>4. Transforms(p) = Transforms(body) \cup Transforms(last)
    BY <2>2, <2>3, Concatenated
  <2> QED
    BY <2>1, <2>2, <2>4, <2>5
<1>6. Transforms(m) \subseteq Named(N) /\ (ofType(m, "prf") # {} => Of(m, "prf") # {})
  BY <1>2 DEF Transforms, ofType, Of
<1>7. /\ derived = <<>> => Transforms(derived) = {}
      /\ \A a : derived = <<PRF(a)>> => Transforms(derived) = {PRF(a)}
  BY Listed
<1>8. Of(p, "dh") = {DH(spec.dh)}
  <2>1. \A t \in Transforms(derived) : t.type = "prf"
    BY <1>3, <1>7, Words, Tags
  <2>2. \A t \in Transforms(m) : t.type \in {"integ", "prf"}
    <3>1. \A t \in Named(N) : t.type \in {"integ", "prf"}
      BY Words
    <3> QED
      BY <1>6, <3>1
  <2>3. spec.encr.type = "encr" /\ DH(spec.dh).type = "dh"
    BY <1>2, Words, Tags
  <2>4. \A t \in Transforms(p) : t.type = "dh" <=> t = DH(spec.dh)
    BY <1>5, <2>1, <2>2, <2>3
  <2> QED
    BY <1>5, <2>4 DEF Of
<1>9. \A t \in Of(p, "prf") : t.id # "none"
  BY <1>2, <1>3, <1>5, <1>6, <1>7, Words, Tags DEF Of
<1>10. autoPRF => Of(p, "prf") # {}
  BY <1>3, <1>5, <1>6, <1>7, Words, Tags DEF Of
<1> QED
  BY <1>8, <1>9, <1>10 DEF p

(* What the presets hold. *)
LEMMA Presets ==
    ASSUME NEW N, PresetNames \subseteq N
    PROVE
    /\ DOMAIN defaultIKE = 1..5
    /\ \A i \in 1..5 :
        /\ defaultIKE[i] \in Seq(AnyTransform(N))
        /\ \E g \in {2, 14, 15} : Of(defaultIKE[i], "dh") = {DH(g)}
        /\ Of(defaultIKE[i], "prf") # {}
        /\ \A t \in Of(defaultIKE[i], "prf") : t.id # "none"
<1> DEFINE Preset(p) ==
        /\ p \in Seq(AnyTransform(N))
        /\ \E g \in {2, 14, 15} : Of(p, "dh") = {DH(g)}
        /\ Of(p, "prf") # {}
        /\ \A t \in Of(p, "prf") : t.id # "none"
<1>1. ASSUME NEW e \in AnyEncr(N), NEW a \in N \ {"none"}, NEW g \in {2, 14, 15}
      PROVE  Preset(<<e, PRF(a), DH(g)>>)
  <2>1. <<e, PRF(a), DH(g)>> \in Seq(AnyTransform(N))
    BY DEF AnyTransform, Named
  <2>2. Transforms(<<e, PRF(a), DH(g)>>) = {e, PRF(a), DH(g)}
    BY Listed
  <2>3. Of(<<e, PRF(a), DH(g)>>, "dh") = {DH(g)}
        /\ Of(<<e, PRF(a), DH(g)>>, "prf") = {PRF(a)}
    BY <2>2, Words, Tags DEF Of
  <2> QED
    BY <2>1, <2>3, Words, Tags
<1>2. ASSUME NEW e \in AnyEncr(N), NEW b \in N, NEW a \in N \ {"none"},
             NEW g \in {2, 14, 15}
      PROVE  Preset(<<e, Integ(b), PRF(a), DH(g)>>)
  <2>1. <<e, Integ(b), PRF(a), DH(g)>> \in Seq(AnyTransform(N))
    BY DEF AnyTransform, Named
  <2>2. Transforms(<<e, Integ(b), PRF(a), DH(g)>>) = {e, Integ(b), PRF(a), DH(g)}
    BY Listed
  <2>3. Of(<<e, Integ(b), PRF(a), DH(g)>>, "dh") = {DH(g)}
        /\ Of(<<e, Integ(b), PRF(a), DH(g)>>, "prf") = {PRF(a)}
    BY <2>2, Words, Tags DEF Of
  <2> QED
    BY <2>1, <2>3, Words, Tags
<1>3. \A a \in N, k \in Nat : Encr(a, k) \in AnyEncr(N)
  BY DEF AnyEncr
<1> HIDE DEF Preset
<1>4. /\ Preset(defaultIKE[1]) /\ Preset(defaultIKE[2]) /\ Preset(defaultIKE[3])
      /\ Preset(defaultIKE[4]) /\ Preset(defaultIKE[5])
  <2>1. /\ defaultIKE[1] = <<Encr("gcm16", 256), PRF("sha384"), DH(15)>>
        /\ defaultIKE[2] = <<Encr("gcm16", 128), PRF("sha256"), DH(14)>>
        /\ defaultIKE[3] = <<Encr("cbc", 256), Integ("sha256"), PRF("sha256"), DH(14)>>
        /\ defaultIKE[4] = <<Encr("cbc", 128), Integ("sha256"), PRF("sha256"), DH(14)>>
        /\ defaultIKE[5] = <<Encr("cbc", 128), Integ("sha1"), PRF("sha1"), DH(2)>>
    BY DEF defaultIKE
  <2>2. {"sha1", "sha256", "sha384"} \subseteq N \ {"none"}
    BY DEF PresetNames
  <2>3. /\ \A k \in {128, 256} : Encr("gcm16", k) \in AnyEncr(N)
        /\ \A k \in {128, 256} : Encr("cbc", k) \in AnyEncr(N)
    BY <1>3 DEF PresetNames
  <2>4. /\ "sha1" \in N /\ "sha256" \in N
        /\ {2, 14, 15} = {2} \cup {14} \cup {15}
    BY <2>2
  <2>5. Preset(<<Encr("gcm16", 256), PRF("sha384"), DH(15)>>)
    BY ZenonT(60), <1>1, <2>2, <2>3, <2>4
  <2>6. Preset(<<Encr("gcm16", 128), PRF("sha256"), DH(14)>>)
    BY ZenonT(60), <1>1, <2>2, <2>3, <2>4
  <2>7. Preset(<<Encr("cbc", 256), Integ("sha256"), PRF("sha256"), DH(14)>>)
    BY ZenonT(60), <1>2, <2>2, <2>3, <2>4
  <2>8. Preset(<<Encr("cbc", 128), Integ("sha256"), PRF("sha256"), DH(14)>>)
    BY ZenonT(60), <1>2, <2>2, <2>3, <2>4
  <2>9. Preset(<<Encr("cbc", 128), Integ("sha1"), PRF("sha1"), DH(2)>>)
    BY ZenonT(60), <1>2, <2>2, <2>3, <2>4
  <2> QED
    BY <2>1, <2>5, <2>6, <2>7, <2>8, <2>9
<1>5. DOMAIN defaultIKE = 1..5
  BY DEF defaultIKE
<1> QED
  BY <1>4, <1>5 DEF Preset

(* What every proposal of IKE_SA_INIT holds: one group, and a PRF unless   *)
(* the configuration leaves it to the ePDG.                                *)
GroupsOffered(specs) ==
    {2, 14, 15} \cup {specs[i].dh : i \in {j \in DOMAIN specs : parses(specs[j])}}

(* An IKE proposal has one group, and a PRF if those are filled in. *)
LEMMA OfferedIKE ==
    ASSUME NEW N, PresetNames \subseteq N, NEW specs \in Seq(AnySpec(N)),
           NEW autoPRF \in BOOLEAN, NEW i \in DOMAIN offerIKE(specs, autoPRF)
    PROVE  LET p == offerIKE(specs, autoPRF)[i]
           IN /\ \E g \in GroupsOffered(specs) : Of(p, "dh") = {DH(g)}
              /\ \A t \in Of(p, "prf") : t.id # "none"
              /\ autoPRF => Of(p, "prf") # {}
<1> DEFINE Offered(p) == /\ \E g \in GroupsOffered(specs) : Of(p, "dh") = {DH(g)}
                         /\ \A t \in Of(p, "prf") : t.id # "none"
                         /\ autoPRF => Of(p, "prf") # {}
<1>1. ASSUME NEW j \in 1..5 PROVE Offered(defaultIKE[j])
  BY Presets DEF GroupsOffered
<1>2. ASSUME NEW j \in 1..5, ~autoPRF PROVE Offered(withoutPRF(defaultIKE[j]))
  <2> DEFINE p == defaultIKE[j]
             q == withoutPRF(p)
  <2>1. p \in Seq(AnyTransform(N)) /\ \E g \in GroupsOffered(specs) : Of(p, "dh") = {DH(g)}
    BY Presets DEF GroupsOffered
  <2> HIDE DEF p
  <2>2. Transforms(q) = {t \in Transforms(p) : t.type # "prf"}
    BY <2>1, WithoutPRF
  <2> HIDE DEF q
  <2>3. Of(q, "dh") = Of(p, "dh") /\ Of(q, "prf") = {}
    BY <2>2 DEF Of
  <2>4. Offered(q)
    BY <1>2, <2>1, <2>3
  <2> QED
    BY <2>4 DEF p, q
<1>3. CASE specs = <<>>
  <2>1. /\ i \in 1..5
        /\ offerIKE(specs, autoPRF)[i] =
             IF autoPRF THEN defaultIKE[i] ELSE withoutPRF(defaultIKE[i])
    BY <1>3, Presets DEF offerIKE
  <2> QED
    BY <1>1, <1>2, <2>1
<1>4. CASE specs # <<>> /\ \E j \in DOMAIN specs : ~parses(specs[j])
  <2>1. offerIKE(specs, autoPRF) = defaultIKE
    BY <1>4 DEF offerIKE
  <2>2. i \in 1..5
    BY <2>1, Presets
  <2> QED
    BY <1>1, <2>1, <2>2
<1>5. CASE specs # <<>> /\ \A j \in DOMAIN specs : parses(specs[j])
  <2>1. offerIKE(specs, autoPRF) =
            [j \in DOMAIN specs |-> parseIKEProposal(specs[j], autoPRF)]
    BY <1>5 DEF offerIKE
  <2>2. i \in DOMAIN specs /\ offerIKE(specs, autoPRF)[i] = parseIKEProposal(specs[i], autoPRF)
    BY <2>1
  <2>3. specs[i] \in AnySpec(N)
    BY <2>2
  <2>4. specs[i].dh \in GroupsOffered(specs)
    BY <1>5, <2>2 DEF GroupsOffered
  <2>5. Offered(parseIKEProposal(specs[i], autoPRF))
    BY <2>3, <2>4, ParsedIKE
  <2> QED
    BY <2>2, <2>5
<1> QED
  BY <1>3, <1>4, <1>5

(* The same of what the ePDG picks from it. *)
LEMMA PickedIKE ==
    ASSUME NEW N, PresetNames \subseteq N, NEW specs \in Seq(AnySpec(N)),
           NEW autoPRF \in BOOLEAN, NEW c \in Responses(offerIKE(specs, autoPRF))
    PROVE  /\ c.dh.id \in GroupsOffered(specs)
           /\ c.prf.id = "none" => ~autoPRF
<1> DEFINE offer == offerIKE(specs, autoPRF)
<1>1. PICK i \in DOMAIN offer :
        c \in [encr : Picks(offer[i], "encr"), integ : Picks(offer[i], "integ"),
               prf : Picks(offer[i], "prf"), dh : Picks(offer[i], "dh"),
               esn : Picks(offer[i], "esn")]
  BY DEF Responses
<1> DEFINE p == offer[i]
<1>2. /\ \E g \in GroupsOffered(specs) : Of(p, "dh") = {DH(g)}
      /\ \A t \in Of(p, "prf") : t.id # "none"
      /\ autoPRF => Of(p, "prf") # {}
  BY OfferedIKE
<1>3. c.dh \in Picks(p, "dh") /\ c.prf \in Picks(p, "prf")
  BY <1>1
<1> HIDE DEF p
<1>4. c.dh.id \in GroupsOffered(specs)
  <2>1. PICK g \in GroupsOffered(specs) : Of(p, "dh") = {DH(g)}
    BY <1>2
  <2>2. c.dh = DH(g)
    BY <1>3, <2>1, PicksAre
  <2> QED
    BY <2>2, Tags
<1>5. c.prf.id = "none" => ~autoPRF
  <2> SUFFICES ASSUME autoPRF PROVE c.prf.id # "none"
    OBVIOUS
  <2>1. c.prf \in Of(p, "prf")
    BY <1>2, <1>3, PicksAre
  <2> QED
    BY <1>2, <2>1
<1> QED
  BY <1>4, <1>5

(* The IKE rekey offers what was picked, whatever that was. *)
LEMMA SuiteOffered ==
    ASSUME NEW c, ikeAccepted(c)
    PROVE  \E d \in Responses(rekeyIKEOffer(ikeSuite(c))) :
                ikeAccepted(d) /\ ikeSuite(d) = ikeSuite(c)
<1> DEFINE e == Encr(c.encr.id, c.encr.keyLen)
           f == PRF(c.prf.id)
           g == DH(c.dh.id)
           aead == isAEAD(c.encr.id)
           h == Integ(c.integ.id)
           middle == IF aead THEN <<>> ELSE <<h>>
           p == <<e>> \o middle \o <<f, g>>
           i == IF aead THEN NoTransform("integ") ELSE h
           d == [encr |-> e, integ |-> i, prf |-> f, dh |-> g, esn |-> NoTransform("esn")]
<1>1. rekeyIKEOffer(ikeSuite(c)) = <<p>>
  <2> DEFINE s == ikeSuite(c)
  <2>1. /\ s.encr = c.encr.id /\ s.keyLen = c.encr.keyLen
        /\ s.prf = c.prf.id /\ s.dh = c.dh.id
        /\ ~aead => s.integ = c.integ.id
    BY DEF ikeSuite
  <2> HIDE DEF s
  <2>2. rekeyIKEOffer(s) = << <<e>> \o (IF aead THEN <<>> ELSE <<Integ(s.integ)>>)
                              \o <<f, g>> >>
    BY <2>1 DEF rekeyIKEOffer
  <2>3. (IF aead THEN <<>> ELSE <<Integ(s.integ)>>) = middle
    BY <2>1
  <2> HIDE DEF e, f, g, middle
  <2> QED
    BY <2>2, <2>3 DEF s
<1>2. Transforms(p) = {e, f, g} \cup (IF aead THEN {} ELSE {h})
  <2> DEFINE S == {e, f, g, h}
  <2>1. /\ <<e>> \in Seq(S) /\ <<f, g>> \in Seq(S) /\ middle \in Seq(S)
        /\ Transforms(<<e>>) = {e} /\ Transforms(<<f, g>>) = {f, g}
        /\ Transforms(middle) = IF aead THEN {} ELSE {h}
    <3> HIDE DEF e, f, g, h, aead
    <3>1. /\ <<e>> \in Seq(S) /\ <<f, g>> \in Seq(S) /\ <<h>> \in Seq(S)
          /\ <<>> \in Seq(S)
      OBVIOUS
    <3>2. /\ Transforms(<<e>>) = {e} /\ Transforms(<<f, g>>) = {f, g}
          /\ Transforms(<<h>>) = {h} /\ Transforms(<<>>) = {}
      BY Listed
    <3> QED
      BY <3>1, <3>2
  <2> DEFINE left == <<e>>
             right == <<f, g>>
  <2>2. left \in Seq(S) /\ right \in Seq(S) /\ p = (left \o middle) \o right
    BY <2>1
  <2> HIDE DEF left, right, middle, p, S
  <2> DEFINE head == left \o middle
  <2>3. head \in Seq(S) /\ Transforms(head) = Transforms(left) \cup Transforms(middle)
    BY <2>1, <2>2, Concatenated
  <2>4. p = head \o right
    BY <2>2
  <2> HIDE DEF head
  <2>5. Transforms(p) = Transforms(head) \cup Transforms(right)
    BY <2>2, <2>3, <2>4, Concatenated
  <2>6. Transforms(left) = {e} /\ Transforms(right) = {f, g}
    BY <2>1 DEF left, right
  <2> QED
    BY <2>1, <2>3, <2>5, <2>6
<1>3. /\ e.type = "encr" /\ e.id = c.encr.id /\ e.keyLen = c.encr.keyLen
      /\ f.type = "prf" /\ f.id = c.prf.id /\ g.type = "dh" /\ g.id = c.dh.id
      /\ h.type = "integ" /\ h.id = c.integ.id
  BY Tags
<1> HIDE DEF e, f, g, h, p
<1>4. /\ Of(p, "encr") = {e} /\ Of(p, "prf") = {f} /\ Of(p, "dh") = {g}
      /\ Of(p, "esn") = {}
      /\ Of(p, "integ") = IF aead THEN {} ELSE {h}
  BY <1>2, <1>3 DEF Of
<1>5. /\ Picks(p, "encr") = {e} /\ Picks(p, "prf") = {f} /\ Picks(p, "dh") = {g}
      /\ Picks(p, "esn") = {NoTransform("esn")} /\ Picks(p, "integ") = {i}
  BY <1>4, PicksAre
<1>6. d \in Responses(<<p>>)
  <2>1. d \in [encr : Picks(p, "encr"), integ : Picks(p, "integ"), prf : Picks(p, "prf"),
               dh : Picks(p, "dh"), esn : Picks(p, "esn")]
    BY <1>5
  <2>2. 1 \in DOMAIN <<p>> /\ <<p>>[1] = p
    OBVIOUS
  <2> QED
    BY <2>1, <2>2 DEF Responses
<1>7. ikeAccepted(d) /\ ikeSuite(d) = ikeSuite(c)
  <2>1. ikeAccepted(d)
    BY <1>3 DEF ikeAccepted
  <2>2. ~aead => i.id = c.integ.id
    BY <1>3
  <2>3. ikeSuite(d) = ikeSuite(c)
    BY <1>3, <2>2 DEF ikeSuite
  <2> QED
    BY <2>1, <2>3
<1> QED
  BY <1>1, <1>6, <1>7

-----------------------------------------------------------------------------
(* The child SAs. *)
ESNs(enableESN) == {ESN(0)} \cup (IF enableESN THEN {ESN(1)} ELSE {})

(* The four ESP proposals offered by default. *)
LEMMA PresetsESP ==
    ASSUME NEW N, PresetNames \subseteq N
    PROVE  /\ DOMAIN defaultESP = 1..4
           /\ \A i \in 1..4 :
                /\ defaultESP[i] \in Seq(AnyTransform(N))
                /\ \E e \in AnyEncr(N) : Of(defaultESP[i], "encr") = {e}
                /\ Of(defaultESP[i], "esn") = {ESN(0)}
<1> DEFINE Preset(p) ==
        /\ p \in Seq(AnyTransform(N))
        /\ \E e \in AnyEncr(N) : Of(p, "encr") = {e}
        /\ Of(p, "esn") = {ESN(0)}
<1>1. ASSUME NEW e \in AnyEncr(N) PROVE Preset(<<e, ESN(0)>>)
  <2>1. <<e, ESN(0)>> \in Seq(AnyTransform(N))
    BY DEF AnyTransform
  <2>2. Transforms(<<e, ESN(0)>>) = {e, ESN(0)}
    BY Listed
  <2>3. Of(<<e, ESN(0)>>, "encr") = {e} /\ Of(<<e, ESN(0)>>, "esn") = {ESN(0)}
    BY <2>2, Words, Tags DEF Of
  <2> QED
    BY <2>1, <2>3
<1>2. ASSUME NEW e \in AnyEncr(N), NEW a \in N PROVE Preset(<<e, Integ(a), ESN(0)>>)
  <2>1. <<e, Integ(a), ESN(0)>> \in Seq(AnyTransform(N))
    BY DEF AnyTransform, Named
  <2>2. Transforms(<<e, Integ(a), ESN(0)>>) = {e, Integ(a), ESN(0)}
    BY Listed
  <2>3. /\ Of(<<e, Integ(a), ESN(0)>>, "encr") = {e}
        /\ Of(<<e, Integ(a), ESN(0)>>, "esn") = {ESN(0)}
    BY <2>2, Words, Tags DEF Of
  <2> QED
    BY <2>1, <2>3
<1>3. /\ Encr("gcm16", 256) \in AnyEncr(N) /\ Encr("gcm16", 128) \in AnyEncr(N)
      /\ Encr("cbc", 128) \in AnyEncr(N) /\ "sha256" \in N /\ "sha1" \in N
  BY DEF AnyEncr, PresetNames
<1> HIDE DEF Preset
<1>4. /\ Preset(defaultESP[1]) /\ Preset(defaultESP[2]) /\ Preset(defaultESP[3])
      /\ Preset(defaultESP[4])
  <2>1. /\ defaultESP[1] = <<Encr("gcm16", 256), ESN(0)>>
        /\ defaultESP[2] = <<Encr("gcm16", 128), ESN(0)>>
        /\ defaultESP[3] = <<Encr("cbc", 128), Integ("sha256"), ESN(0)>>
        /\ defaultESP[4] = <<Encr("cbc", 128), Integ("sha1"), ESN(0)>>
    BY DEF defaultESP
  <2>2. /\ Preset(<<Encr("gcm16", 256), ESN(0)>>)
        /\ Preset(<<Encr("gcm16", 128), ESN(0)>>)
    BY <1>1, <1>3
  <2>3. /\ Preset(<<Encr("cbc", 128), Integ("sha256"), ESN(0)>>)
        /\ Preset(<<Encr("cbc", 128), Integ("sha1"), ESN(0)>>)
    BY <1>2, <1>3
  <2> QED
    BY <2>1, <2>2, <2>3
<1>5. DOMAIN defaultESP = 1..4
  BY DEF defaultESP
<1> QED
  BY <1>4, <1>5 DEF Preset

(* A configured ESP proposal: one cipher, no group, no PRF, no ESN yet. *)
LEMMA ParsedESP ==
    ASSUME NEW N, NEW spec \in AnySpec(N)
    PROVE  LET p == parseESPProposal(spec)
           IN /\ p \in Seq(AnyTransform(N))
              /\ \E e \in AnyEncr(N) : Of(p, "encr") = {e}
              /\ Of(p, "esn") = {ESN(0)}
<1> DEFINE e == spec.encr
           middle == IF spec.middle = <<>> THEN <<>> ELSE <<spec.middle[1]>>
           left == <<e>>
           head == left \o middle
           right == <<ESN(0)>>
           p == parseESPProposal(spec)
           S == AnyTransform(N)
<1>1. p = head \o right
  BY DEF parseESPProposal
<1>2. e \in AnyEncr(N) /\ spec.middle \in Seq(Named(N))
  BY DEF AnySpec
<1>3. \A t \in S : <<t>> \in Seq(S)
  OBVIOUS
<1>4. middle \in Seq(S) /\ Transforms(middle) \subseteq Named(N)
  <2>1. CASE spec.middle = <<>>
    BY <2>1, Listed
  <2>2. CASE spec.middle # <<>>
    <3> DEFINE t == spec.middle[1]
    <3>1. t \in Named(N)
      BY <1>2, <2>2
    <3>2. t \in S
      BY <3>1 DEF AnyTransform
    <3>3. middle = <<t>>
      BY <2>2
    <3> HIDE DEF t, middle
    <3> QED
      BY <1>3, <3>1, <3>2, <3>3, Listed
  <2> QED
    BY <2>1, <2>2
<1>5. left \in Seq(S) /\ right \in Seq(S)
  <2>1. e \in S /\ ESN(0) \in S
    BY <1>2 DEF AnyTransform
  <2> QED
    BY <1>3, <2>1
<1>6. Transforms(left) = {e} /\ Transforms(right) = {ESN(0)}
  BY Listed
<1> HIDE DEF e, middle, left, right, p, S
<1>7. head \in Seq(S) /\ Transforms(head) = Transforms(left) \cup Transforms(middle)
  BY <1>4, <1>5, Concatenated
<1> HIDE DEF head
<1>8. p \in Seq(S) /\ Transforms(p) = Transforms(head) \cup Transforms(right)
  BY <1>1, <1>5, <1>7, Concatenated
<1>9. Transforms(p) = {e} \cup Transforms(middle) \cup {ESN(0)}
  BY <1>6, <1>7, <1>8
<1>10. /\ \A t \in Transforms(middle) : t.type \in {"integ", "prf"}
       /\ e.type = "encr" /\ ESN(0).type = "esn"
  <2>1. \A t \in Named(N) : t.type \in {"integ", "prf"}
    BY Words
  <2> QED
    BY <1>2, <1>4, <2>1, Words, Tags
<1>11. Of(p, "encr") = {e} /\ Of(p, "esn") = {ESN(0)}
  BY <1>9, <1>10 DEF Of
<1> QED
  BY <1>2, <1>8, <1>11 DEF p, S

(* An ESP proposal as offered, with its ESN transforms. *)
LEMMA OfferedESP ==
    ASSUME NEW N, PresetNames \subseteq N, NEW specs \in Seq(AnySpec(N)),
           NEW enableESN \in BOOLEAN, NEW i \in DOMAIN offerESP(specs, enableESN)
    PROVE  LET p == offerESP(specs, enableESN)[i]
           IN /\ \E e \in AnyEncr(N) : Of(p, "encr") = {e}
              /\ Of(p, "esn") = ESNs(enableESN)
<1> DEFINE Offered(p) == /\ p \in Seq(AnyTransform(N))
                         /\ \E e \in AnyEncr(N) : Of(p, "encr") = {e}
                         /\ Of(p, "esn") = {ESN(0)}
           known == ~(specs = <<>> \/ \E j \in DOMAIN specs : ~parsesESP(specs[j]))
           proposals == IF ~known THEN defaultESP
                        ELSE [j \in DOMAIN specs |-> parseESPProposal(specs[j])]
           more == IF enableESN THEN <<ESN(1)>> ELSE <<>>
           p == proposals[i] \o more
           S == AnyTransform(N)
<1>1. i \in DOMAIN proposals /\ offerESP(specs, enableESN)[i] = p
  <2>1. offerESP(specs, enableESN) = [j \in DOMAIN proposals |-> proposals[j] \o more]
    BY DEF offerESP
  <2> HIDE DEF proposals, more
  <2> QED
    BY <2>1
<1>2. Offered(proposals[i])
  <2>1. CASE ~known
    <3>1. proposals = defaultESP
      BY <2>1
    <3>2. i \in 1..4
      BY <1>1, <3>1, PresetsESP
    <3> HIDE DEF proposals
    <3> QED
      BY <3>1, <3>2, PresetsESP
  <2>2. CASE known
    <3>1. proposals = [j \in DOMAIN specs |-> parseESPProposal(specs[j])]
      BY <2>2
    <3>2. i \in DOMAIN specs /\ proposals[i] = parseESPProposal(specs[i])
      BY <1>1, <3>1
    <3>3. specs[i] \in AnySpec(N)
      BY <3>2
    <3> HIDE DEF proposals
    <3> QED
      BY <3>2, <3>3, ParsedESP
  <2> QED
    BY <2>1, <2>2
<1>3. more \in Seq(S) /\ Transforms(more) = IF enableESN THEN {ESN(1)} ELSE {}
  <2>1. ESN(1) \in S
    BY DEF AnyTransform
  <2> HIDE DEF S, known, proposals, Offered, p
  <2>2. <<ESN(1)>> \in Seq(S) /\ <<>> \in Seq(S)
    BY <2>1
  <2>3. Transforms(<<ESN(1)>>) = {ESN(1)} /\ Transforms(<<>>) = {}
    BY Listed
  <2> QED
    BY <2>2, <2>3
<1> DEFINE q == proposals[i]
<1>4. q \in Seq(S) /\ p = q \o more
  BY <1>2
<1> HIDE DEF proposals, more, p, q, S
<1>5. Transforms(p) = Transforms(q) \cup Transforms(more)
  BY <1>3, <1>4, Concatenated
<1>6. ESN(1).type = "esn"
  BY Tags
<1>7. Of(p, "encr") = Of(q, "encr")
  BY <1>3, <1>5, <1>6 DEF Of
<1>8. Of(p, "esn") = Of(q, "esn") \cup (IF enableESN THEN {ESN(1)} ELSE {})
  BY <1>3, <1>5, <1>6 DEF Of
<1> QED
  BY <1>1, <1>2, <1>7, <1>8 DEF q, ESNs

(* The same of what the ePDG picks from it. *)
LEMMA PickedESP ==
    ASSUME NEW N, PresetNames \subseteq N, NEW specs \in Seq(AnySpec(N)),
           NEW enableESN \in BOOLEAN, NEW c \in Responses(offerESP(specs, enableESN))
    PROVE  c.encr \in AnyEncr(N) /\ c.esn \in ESNs(enableESN)
<1> DEFINE offer == offerESP(specs, enableESN)
<1>1. PICK i \in DOMAIN offer :
        c \in [encr : Picks(offer[i], "encr"), integ : Picks(offer[i], "integ"),
               prf : Picks(offer[i], "prf"), dh : Picks(offer[i], "dh"),
               esn : Picks(offer[i], "esn")]
  BY DEF Responses
<1> DEFINE p == offer[i]
<1>2. (\E e \in AnyEncr(N) : Of(p, "encr") = {e}) /\ Of(p, "esn") = ESNs(enableESN)
  BY OfferedESP
<1>3. c.encr \in Picks(p, "encr") /\ c.esn \in Picks(p, "esn")
  BY <1>1
<1> HIDE DEF p
<1>4. ESNs(enableESN) # {}
  BY DEF ESNs
<1> QED
  BY <1>2, <1>3, <1>4, PicksAre

(* What an ePDG can make of the two proposals of a child rekey. *)
ChildPick(encr, integ, esn) ==
    [encr |-> encr, integ |-> integ, prf |-> NoTransform("prf"),
     dh |-> NoTransform("dh"), esn |-> esn]

ESNWords(enableESN) == (IF enableESN THEN <<ESN(1)>> ELSE <<>>) \o <<ESN(0)>>

(* One of the two proposals of a child rekey. *)
LEMMA ChildProposal ==
    ASSUME NEW enableESN \in BOOLEAN, NEW S, NEW head \in Seq(S),
           \A t \in Transforms(head) : t.type \in {"encr", "integ"}
    PROVE  LET p == head \o ESNWords(enableESN)
           IN /\ Of(p, "encr") = Of(head, "encr") /\ Of(p, "integ") = Of(head, "integ")
              /\ Of(p, "esn") = ESNs(enableESN)
              /\ Of(p, "prf") = {} /\ Of(p, "dh") = {}
<1> DEFINE p == head \o ESNWords(enableESN)
           more == IF enableESN THEN <<ESN(1)>> ELSE <<>>
           last == <<ESN(0)>>
           esn == more \o last
           S2 == {ESN(0), ESN(1)} \cup S
<1>1. /\ more \in Seq(S2) /\ last \in Seq(S2)
      /\ Transforms(more) = IF enableESN THEN {ESN(1)} ELSE {}
      /\ Transforms(last) = {ESN(0)}
  <2>1. /\ \A t \in S2 : <<t>> \in Seq(S2)
        /\ <<>> \in Seq(S2)
    OBVIOUS
  <2>2. ESN(0) \in S2 /\ ESN(1) \in S2
    OBVIOUS
  <2> HIDE DEF S2
  <2> QED
    BY <2>1, <2>2, Listed
<1>2. head \in Seq(S2) /\ p = head \o esn
  BY DEF ESNWords
<1> HIDE DEF more, last, S2, p
<1>3. esn \in Seq(S2) /\ Transforms(esn) = Transforms(more) \cup Transforms(last)
  BY <1>1, Concatenated
<1> HIDE DEF esn
<1>4. Transforms(p) = Transforms(head) \cup Transforms(esn)
  BY <1>2, <1>3, Concatenated
<1>5. Transforms(p) = Transforms(head) \cup ESNs(enableESN)
  BY <1>1, <1>3, <1>4 DEF ESNs
<1>6. \A t \in ESNs(enableESN) : t.type = "esn"
  BY Tags DEF ESNs
<1>7. /\ Of(p, "encr") = Of(head, "encr") /\ Of(p, "integ") = Of(head, "integ")
      /\ Of(p, "esn") = ESNs(enableESN)
      /\ Of(p, "prf") = {} /\ Of(p, "dh") = {}
  BY <1>5, <1>6 DEF Of
<1> QED
  BY <1>7 DEF p

(* What the ePDG picks from those two, and that it can pick either. *)
LEMMA ChildRekeyPicks ==
    ASSUME NEW enableESN \in BOOLEAN
    PROVE  LET responses == Responses(rekeyChildOffer(enableESN))
           IN /\ \A d \in responses :
                    \/ d.encr = Encr("cbc", 128) /\ d.integ = Integ("sha256")
                    \/ d.encr = Encr("gcm16", 128)
              /\ \A s \in ESNs(enableESN) :
                    /\ ChildPick(Encr("cbc", 128), Integ("sha256"), s) \in responses
                    /\ ChildPick(Encr("gcm16", 128), NoTransform("integ"), s) \in responses
<1> DEFINE e1 == Encr("cbc", 128)
           e2 == Encr("gcm16", 128)
           h == Integ("sha256")
           head1 == <<e1, h>>
           head2 == <<e2>>
           esn == ESNWords(enableESN)
           p1 == head1 \o esn
           p2 == head2 \o esn
           Picked(p) == [encr : Picks(p, "encr"), integ : Picks(p, "integ"),
                         prf : Picks(p, "prf"), dh : Picks(p, "dh"), esn : Picks(p, "esn")]
           E == ESNs(enableESN)
           responses == Responses(rekeyChildOffer(enableESN))
<1>1. rekeyChildOffer(enableESN) = <<p1, p2>>
  BY DEF rekeyChildOffer, ESNWords
<1>2. e1.type = "encr" /\ e2.type = "encr" /\ h.type = "integ"
  BY Tags
<1> HIDE DEF e1, e2, h
<1> DEFINE S == {e1, e2, h}
<1>3. /\ head1 \in Seq(S) /\ Transforms(head1) = {e1, h}
      /\ head2 \in Seq(S) /\ Transforms(head2) = {e2}
  BY Listed
<1> HIDE DEF S, head1, head2, esn
<1>4. /\ Of(head1, "encr") = {e1} /\ Of(head1, "integ") = {h}
      /\ Of(head2, "encr") = {e2} /\ Of(head2, "integ") = {}
  BY <1>2, <1>3 DEF Of
<1>5. /\ \A t \in Transforms(head1) : t.type \in {"encr", "integ"}
      /\ \A t \in Transforms(head2) : t.type \in {"encr", "integ"}
  BY <1>2, <1>3
<1> HIDE DEF E, Picked, responses
<1>7. /\ Of(p1, "encr") = {e1} /\ Of(p1, "integ") = {h} /\ Of(p1, "esn") = E
      /\ Of(p1, "prf") = {} /\ Of(p1, "dh") = {}
  <2>1. /\ Of(p1, "encr") = Of(head1, "encr") /\ Of(p1, "integ") = Of(head1, "integ")
        /\ Of(p1, "esn") = ESNs(enableESN) /\ Of(p1, "prf") = {} /\ Of(p1, "dh") = {}
    BY <1>3, <1>5, ChildProposal DEF esn
  <2> QED
    BY <1>4, <2>1 DEF E
<1>8. /\ Of(p2, "encr") = {e2} /\ Of(p2, "integ") = {} /\ Of(p2, "esn") = E
      /\ Of(p2, "prf") = {} /\ Of(p2, "dh") = {}
  <2>1. /\ Of(p2, "encr") = Of(head2, "encr") /\ Of(p2, "integ") = Of(head2, "integ")
        /\ Of(p2, "esn") = ESNs(enableESN) /\ Of(p2, "prf") = {} /\ Of(p2, "dh") = {}
    BY <1>3, <1>5, ChildProposal DEF esn
  <2> QED
    BY <1>4, <2>1 DEF E
<1> HIDE DEF p1, p2
<1>9. E # {}
  BY DEF E, ESNs
<1>10. /\ Picks(p1, "encr") = {e1} /\ Picks(p1, "integ") = {h} /\ Picks(p1, "esn") = E
       /\ Picks(p1, "prf") = {NoTransform("prf")} /\ Picks(p1, "dh") = {NoTransform("dh")}
  BY <1>7, <1>9, PicksAre
<1>11. /\ Picks(p2, "encr") = {e2} /\ Picks(p2, "integ") = {NoTransform("integ")}
       /\ Picks(p2, "esn") = E
       /\ Picks(p2, "prf") = {NoTransform("prf")} /\ Picks(p2, "dh") = {NoTransform("dh")}
  BY <1>8, <1>9, PicksAre
<1>12. \A d \in Picked(p1) : d.encr = e1 /\ d.integ = h
  BY <1>10 DEF Picked
<1>13. \A d \in Picked(p2) : d.encr = e2
  BY <1>11 DEF Picked
<1>14. ASSUME NEW s \in E
       PROVE  /\ ChildPick(e1, h, s) \in Picked(p1)
              /\ ChildPick(e2, NoTransform("integ"), s) \in Picked(p2)
  BY <1>10, <1>11 DEF ChildPick, Picked
<1>15. responses = Picked(p1) \cup Picked(p2)
  <2> DEFINE o == <<p1, p2>>
  <2>1. responses = UNION {Picked(o[i]) : i \in DOMAIN o}
    BY <1>1 DEF responses, Picked, Responses
  <2>2. DOMAIN o = {1, 2} /\ o[1] = p1 /\ o[2] = p2
    OBVIOUS
  <2> HIDE DEF o
  <2> QED
    BY <2>1, <2>2
<1>16. /\ \A d \in responses : (d.encr = e1 /\ d.integ = h) \/ d.encr = e2
       /\ \A s \in E : /\ ChildPick(e1, h, s) \in responses
                       /\ ChildPick(e2, NoTransform("integ"), s) \in responses
  BY <1>12, <1>13, <1>14, <1>15
<1> QED
  BY <1>16 DEF e1, e2, h, E, responses

-----------------------------------------------------------------------------
(* Whatever words are configured, in any number of proposals, and whatever *)
(* the ePDG picks from the offer: IKE_SA_INIT can use the pick unless its  *)
(* group is not implemented or the configuration left the PRF out, and     *)
(* RekeyIKESA offers the suite it installs again.                          *)
THEOREM IKESuiteOfferedAgain ==
    ASSUME NEW N, PresetNames \subseteq N, NEW specs \in Seq(AnySpec(N)),
           NEW autoPRF \in BOOLEAN, NEW c \in Responses(offerIKE(specs, autoPRF))
    PROVE  /\ ~ikeAccepted(c) =>
                c.dh.id \in GroupsOffered(specs) \ groups \/ (~autoPRF /\ c.prf.id = "none")
           /\ ikeAccepted(c) =>
                \E d \in Responses(rekeyIKEOffer(ikeSuite(c))) :
                    ikeAccepted(d) /\ ikeSuite(d) = ikeSuite(c)
<1>1. ~ikeAccepted(c) =>
        c.dh.id \in GroupsOffered(specs) \ groups \/ (~autoPRF /\ c.prf.id = "none")
  BY PickedIKE DEF ikeAccepted
<1> QED
  BY <1>1, SuiteOffered

(* Whatever is configured for the child SA and whatever the ePDG picked,   *)
(* RekeyChildSA offers the suite in use again if and only if it is one of  *)
(* the two with 128-bit keys that it knows, although the comment at        *)
(* state_rekey.go:48 has it offer what IKE_AUTH did.                       *)
THEOREM ChildSuiteOfferedAgain ==
    ASSUME NEW N, PresetNames \subseteq N, NEW specs \in Seq(AnySpec(N)),
           NEW enableESN \in BOOLEAN, NEW c \in Responses(offerESP(specs, enableESN))
    PROVE  (\E d \in Responses(rekeyChildOffer(enableESN)) : childSuite(d) = childSuite(c))
            <=> \/ c.encr = Encr("gcm16", 128)
                \/ c.encr = Encr("cbc", 128) /\ c.integ.id = "sha256"
<1> DEFINE responses == Responses(rekeyChildOffer(enableESN))
<1>1. c.encr \in AnyEncr(N) /\ c.esn \in ESNs(enableESN)
  BY PickedESP
<1>2. /\ c.encr = Encr(c.encr.id, c.encr.keyLen)
      /\ Encr("cbc", 128).id = "cbc" /\ Encr("cbc", 128).keyLen = 128
      /\ Encr("gcm16", 128).id = "gcm16" /\ Encr("gcm16", 128).keyLen = 128
      /\ Integ("sha256").id = "sha256"
  BY <1>1, Words, Tags
<1>3. ~isAEAD("cbc") /\ isAEAD("gcm16")
  BY DEF isAEAD
<1>4. ASSUME NEW d \in responses, childSuite(d) = childSuite(c)
      PROVE  \/ c.encr = Encr("gcm16", 128)
             \/ c.encr = Encr("cbc", 128) /\ c.integ.id = "sha256"
  <2>1. d.encr.id = c.encr.id /\ d.encr.keyLen = c.encr.keyLen
    BY <1>4 DEF childSuite
  <2>2. CASE d.encr = Encr("cbc", 128) /\ d.integ = Integ("sha256")
    <3>1. c.encr = Encr("cbc", 128) /\ c.encr.id = "cbc"
      BY <1>2, <2>1, <2>2
    <3>2. c.integ.id = d.integ.id
      BY <1>2, <1>3, <1>4, <2>2, <3>1 DEF childSuite
    <3> QED
      BY <1>2, <2>2, <3>1, <3>2
  <2>3. CASE d.encr = Encr("gcm16", 128)
    BY <1>2, <2>1, <2>3
  <2> QED
    BY <2>2, <2>3, ChildRekeyPicks
<1>5. ASSUME c.encr = Encr("gcm16", 128)
      PROVE  \E d \in responses : childSuite(d) = childSuite(c)
  <2> DEFINE d == ChildPick(Encr("gcm16", 128), NoTransform("integ"), c.esn)
  <2>1. d \in responses
    BY <1>1, ChildRekeyPicks
  <2>2. childSuite(d) = childSuite(c)
    BY <1>2, <1>3, <1>5 DEF childSuite, ChildPick
  <2> QED
    BY <2>1, <2>2
<1>6. ASSUME c.encr = Encr("cbc", 128), c.integ.id = "sha256"
      PROVE  \E d \in responses : childSuite(d) = childSuite(c)
  <2> DEFINE d == ChildPick(Encr("cbc", 128), Integ("sha256"), c.esn)
  <2>1. d \in responses
    BY <1>1, ChildRekeyPicks
  <2>2. childSuite(d) = childSuite(c)
    BY <1>2, <1>3, <1>6 DEF childSuite, ChildPick
  <2> QED
    BY <2>1, <2>2
<1> QED
  BY <1>4, <1>5, <1>6

(* The configurations of the run are among them. *)
ConfigNames == PresetNames \cup {Unknown, "none", "sha512"}

(* The configurations of the run are among those reasoned about here. *)
LEMMA ConfigsAreSpecs ==
    /\ PresetNames \subseteq ConfigNames
    /\ \A specs \in Configs :
        /\ specs \in Seq(AnySpec(ConfigNames))
        /\ GroupsOffered(specs) \subseteq {2, 14, 15}
<1> DEFINE N == ConfigNames
<1>1. PresetNames \subseteq N
  BY DEF ConfigNames
<1>2. Ciphers \subseteq AnyEncr(N)
  BY DEF Ciphers, AnyEncr, ConfigNames, PresetNames, Unknown
<1>3. Middles \subseteq Seq(Named(N))
  <2>1. /\ Integ("sha1") \in Named(N) /\ Integ("none") \in Named(N)
        /\ Integ("sha256") \in Named(N)
    BY DEF Named, ConfigNames, PresetNames
  <2>2. PRF("sha384") \in Named(N) /\ PRF("sha512") \in Named(N)
    BY DEF Named, ConfigNames, PresetNames
  <2> HIDE DEF N
  <2>3. /\ <<>> \in Seq(Named(N))
        /\ \A x \in Named(N) : <<x>> \in Seq(Named(N))
        /\ \A x, y \in Named(N) : <<x, y>> \in Seq(Named(N))
    OBVIOUS
  <2> QED
    BY <2>1, <2>2, <2>3 DEF Middles
<1>4. Specs \subseteq AnySpec(N)
  BY <1>2, <1>3 DEF Specs, AnySpec
<1>5. ASSUME NEW specs \in Configs PROVE specs \in Seq(Specs)
  <2>1. CASE specs = <<>>
    BY <2>1
  <2>2. CASE specs # <<>>
    <3>1. PICK s \in Specs : specs = <<s>>
      BY <2>2 DEF Configs
    <3> QED
      BY <3>1
  <2> QED
    BY <2>1, <2>2
<1>6. ASSUME NEW specs \in Configs PROVE GroupsOffered(specs) \subseteq {2, 14, 15}
  <2>1. ASSUME NEW i \in DOMAIN specs, parses(specs[i])
        PROVE  specs[i].dh \in {2, 14, 15}
    <3>1. specs[i] \in Specs
      BY <1>5
    <3> QED
      BY <2>1, <3>1 DEF Specs, parses
  <2> QED
    BY <2>1 DEF GroupsOffered
<1>7. \A specs \in Configs : specs \in Seq(AnySpec(N))
  BY <1>4, <1>5
<1> QED
  BY <1>1, <1>6, <1>7

(* For every configuration of the run: the handshake can use what the ePDG *)
(* picks, and the IKE rekey offers it again.                               *)
LEMMA EveryIKESuiteIsOfferedAgain == EveryIKESuiteOfferedAgain
<1>1. ASSUME NEW specs \in Configs, NEW autoPRF \in BOOLEAN,
             NEW c \in Responses(offerIKE(specs, autoPRF))
      PROVE  /\ ~ikeAccepted(c) =>
                    c.dh.id = 15 \/ (~autoPRF /\ c.prf.id = "none")
             /\ ikeAccepted(c) =>
                    \E d \in Responses(rekeyIKEOffer(ikeSuite(c))) :
                        ikeAccepted(d) /\ ikeSuite(d) = ikeSuite(c)
  <2>1. /\ PresetNames \subseteq ConfigNames /\ specs \in Seq(AnySpec(ConfigNames))
        /\ GroupsOffered(specs) \subseteq {2, 14, 15}
    BY ConfigsAreSpecs
  <2>2. /\ ~ikeAccepted(c) =>
            c.dh.id \in GroupsOffered(specs) \ groups \/ (~autoPRF /\ c.prf.id = "none")
        /\ ikeAccepted(c) =>
            \E d \in Responses(rekeyIKEOffer(ikeSuite(c))) :
                ikeAccepted(d) /\ ikeSuite(d) = ikeSuite(c)
    BY <2>1, IKESuiteOfferedAgain
  <2> QED
    BY <2>1, <2>2 DEF groups
<1> QED
  BY <1>1 DEF EveryIKESuiteOfferedAgain

-----------------------------------------------------------------------------
(* The attempts. *)
Resuming == {"resumeWait", "resumeAuth"}

(* Tickets are numbered in the order in which they were issued; one is     *)
(* burnt only when it is given up.                                         *)
Tickets ==
    /\ tickets \in Nat
    /\ resumeTicket \in 0..tickets
    /\ burnt \subseteq 0..tickets
    /\ resumeTicket \notin burnt \/ resumeTicket = Nil
    /\ pc \in Resuming => resumeTicket # Nil
-----------------------------------------------------------------------------
USE ConnectAssumption, EAPAssumption
    DEF saVars, netVars, localVars, keyVars, ticketVars, connVars, clientEAP,
        eapVars

LEMMA InitTickets == Init => Tickets
BY DEF Init, Tickets, Resuming, Nil

(* A ticket that comes with a response was never burnt. *)
LEMMA KeepTicketLemma ==
    ASSUME Tickets, KeepTicket
    PROVE  /\ tickets' \in Nat /\ resumeTicket' \in 0..tickets'
           /\ burnt' \subseteq 0..tickets'
           /\ resumeTicket' \notin burnt' \/ resumeTicket' = Nil
BY DEF Tickets, KeepTicket

(* FallBack and Cancel burn the ticket and forget it in one step. *)
LEMMA StepTickets ==
    ASSUME Tickets, [Next]_vars
    PROVE  Tickets'
<1>1. CASE StartAttempt
  BY <1>1 DEF StartAttempt, BeginResumption, BeginSAInit, Enqueue, Tickets,
              Resuming, Nil
<1>2. CASE ResumeFails
  BY <1>2 DEF ResumeFails, FallBack, BeginSAInit, Tickets, Resuming, Nil
<1>3. CASE ResumeAuthTimeout
  BY <1>3 DEF ResumeAuthTimeout, FallBack, BeginSAInit, Tickets, Resuming,
              Nil
<1>4. CASE ResumeAuth
  <2>1. CASE Goto("up") /\ KeepTicket
    BY <2>1, KeepTicketLemma DEF Tickets, Resuming, Goto
  <2>2. CASE FallBack
    BY <2>2 DEF FallBack, BeginSAInit, Tickets, Resuming, Nil
  <2> QED
    BY <1>4, <2>1, <2>2 DEF ResumeAuth
<1>5. CASE AuthRound
  <2>1. pc' \notin Resuming
    BY <1>5
       DEF AuthRound, FirstFinalResp, Established, Goto, ReturnError, Leave,
           Resuming
  <2>2. KeepTicket \/ UNCHANGED ticketVars
    BY <1>5 DEF AuthRound, FirstFinalResp, Established
  <2> QED
    BY <2>1, <2>2, KeepTicketLemma DEF Tickets
<1>6. CASE Final
  <2>1. pc' \notin Resuming
    BY <1>6
       DEF Final, Established, Goto, ReturnError, Redirected, Leave, Resuming
  <2>2. KeepTicket
    BY <1>6 DEF Final, Established
  <2> QED
    BY <2>1, <2>2, KeepTicketLemma DEF Tickets
<1>7. CASE Cancel
  <2>1. pc' = "returned" /\ UNCHANGED tickets
    BY <1>7 DEF Cancel, ReturnError, Leave
  <2>2. CASE pc \in Resuming
    <3>1. burnt' = burnt \cup {resumeTicket} /\ resumeTicket' = Nil
      BY <1>7, <2>2 DEF Cancel, Resuming
    <3> QED
      BY <2>1, <3>1 DEF Tickets, Resuming, Nil
  <2>3. CASE pc \notin Resuming
    <3>1. UNCHANGED <<resumeTicket, burnt>>
      BY <1>7, <2>3 DEF Cancel, Resuming
    <3> QED
      BY <2>1, <3>1 DEF Tickets, Resuming
  <2> QED
    BY <2>2, <2>3
<1>8. CASE \/ BindFails \/ SendSAInit \/ HandleCookie \/ HandleInvalidKE
           \/ HandleInitRefused \/ HandleSAInitResp \/ InitTimeout
           \/ ResumeAnswered \/ AuthTimeout
  BY <1>8 DEF BindFails, Goto, SendSAInit, Enqueue, HandleCookie,
              ReturnError, Leave, HandleInvalidKE, HandleInitRefused,
              Redirected, HandleSAInitResp, NewKeys, InitTimeout,
              ResumeAnswered, AuthTimeout, Tickets, Resuming, Nil
<1>9. CASE \/ Retransmit \/ Dispatch \/ Rearm \/ DispatcherExit \/ PeerReplies
           \/ ServePacket \/ Reauth \/ Shutdown
  BY <1>9 DEF Retransmit, Dispatch, Rearm, DispatcherExit, PeerReplies,
              ServePacket, Exchange, Reauth, CloseDone, Leave, Shutdown,
              Tickets, Resuming, Nil
<1>10. CASE UNCHANGED vars
  BY <1>10 DEF vars, Tickets, Resuming, Nil
<1> QED
  BY <1>1, <1>2, <1>3, <1>4, <1>5, <1>6, <1>7, <1>8, <1>9, <1>10
     DEF Next, ClientStep

(* A ticket with which performSessionResumption failed is never presented  *)
(* again, however tickets, redirects and reauthentications follow each     *)
(* other.                                                                  *)
THEOREM BurntTicketsStayAway == Spec => []BurntTicketNotPresented
<1>1. Tickets => BurntTicketNotPresented
  BY DEF Tickets, BurntTicketNotPresented, Resuming
<1> QED
  BY <1>1, InitTickets, StepTickets, PTL DEF Spec
-----------------------------------------------------------------------------
(* EAP. *)

EAPRequest ==
    [kind : {"idle", "challenge", "reauth"}, method : Method,
     vector : {None} \cup Vector, nextID : BOOLEAN]

Key == [prf : Method, mk : {None} \cup MK, nonceS : BOOLEAN]

AAA ==
    [order : tryOrders, drawn : Vector, request : EAPRequest, ident : {None} \cup MK,
     key : {None} \cup Key, pseudonym : {None} \cup MK,
     accepted : BOOLEAN, full : BOOLEAN, rounds : Nat]

Answer ==
    [kind : {"none", "identity", "result", "other"}, id : {None} \cup MK,
     res : {None} \cup Vector]

EAPTypeOK ==
    /\ aaa \in AAA /\ answered \in Answer
    /\ aaa.request.kind = "challenge" => aaa.request.vector \in Vector
    /\ msk \in {None} \cup Key
    /\ fastReauthCtx \in {None} \cup MK /\ cfgReauthID \in {None} \cup MK
    /\ eapRand \in {None} \cup Vector /\ eapRES \in {None} \cup Vector

(* The server once it will have taken in the client's last answer. *)
Taken == aaaReceives(aaa)

(* With the answers that are still on their way taken in: a client that    *)
(* the server has accepted on a challenge has its key; RAND is of another  *)
(* vector than RES, CK and IK only between a challenge the SIM did not     *)
(* answer and the next one.                                                *)
EAPSync ==
    /\ Taken.accepted /\ Taken.full => msk = Taken.key
    /\ \/ eapRand = eapRES
       \/ Taken.full /\ ~Taken.accepted /\ answered.kind # "result"

EAPInv ==
    /\ EAPTypeOK
    /\ pc # "returned" =>
        /\ EAPSync
        /\ pc # "auth" => answered = NoAnswer
        /\ pc \notin {"auth", "final"} => eapRand = eapRES

LEMMA MKTypes ==
    ASSUME NEW m \in Method, NEW v \in Vector, NEW order \in tryOrders
    PROVE  /\ derive(m, order, v) \in MK /\ savedMK(m, v) \in MK
           /\ expand(m, derive(m, order, v)) \in Key
BY DEF derive, savedMK, tryOrders, MK, expand, Key, Method

(* An answer changes the identity, or the key, or nothing. *)
LEMMA Receives ==
    ASSUME EAPTypeOK
    PROVE  /\ Taken \in AAA
           /\ Taken.drawn = aaa.drawn /\ Taken.full = aaa.full
           /\ Taken.order = aaa.order
           /\ Taken.request = aaa.request
           /\ answered.kind \notin {"identity", "result"} => Taken = aaa
<1> DEFINE r == aaa.request
<1>1. r \in EAPRequest /\ aaa.pseudonym \in {None} \cup MK /\ aaa.order \in tryOrders
  BY DEF EAPTypeOK, AAA
<1>2. CASE answered.kind = "identity"
  <2>1. Taken = [aaa EXCEPT !.ident = answered.id]
    BY <1>2 DEF Taken, aaaReceives
  <2> QED
    BY <1>2, <2>1 DEF EAPTypeOK, AAA, Answer
<1>3. CASE /\ answered.kind = "result" /\ r.kind = "challenge"
           /\ answered.res = r.vector
  <2> DEFINE mk == derive(r.method, aaa.order, r.vector)
             k == expand(r.method, mk)
  <2>1. Taken = [aaa EXCEPT !.key = k, !.accepted = TRUE,
                            !.pseudonym = IF r.nextID THEN mk ELSE @]
    BY <1>3 DEF Taken, aaaReceives
  <2>2. r.method \in Method /\ r.vector \in Vector
    BY <1>1, <1>3 DEF EAPTypeOK, EAPRequest
  <2>3. mk \in MK /\ k \in Key
    BY <1>1, <2>2, MKTypes
  <2> HIDE DEF mk, k
  <2>4. Taken = [aaa EXCEPT !.key = k, !.accepted = TRUE,
                            !.pseudonym = IF r.nextID THEN mk ELSE @]
    BY <2>1 DEF mk, k
  <2> QED
    BY <1>3, <2>3, <2>4 DEF EAPTypeOK, AAA
<1>4. CASE /\ answered.kind = "result" /\ r.kind = "reauth"
           /\ samePseudonym(answered.id, aaa.pseudonym)
  <2>1. Taken = [aaa EXCEPT !.key = reauthKey(r.method, aaa.pseudonym),
                            !.accepted = TRUE]
    BY <1>4 DEF Taken, aaaReceives
  <2>2. reauthKey(r.method, aaa.pseudonym) \in Key
    BY <1>1 DEF reauthKey, expand, Key, EAPRequest
  <2> QED
    BY <1>4, <2>1, <2>2 DEF EAPTypeOK, AAA
<1>5. CASE Taken = aaa
  BY <1>5 DEF EAPTypeOK
<1> QED
  BY <1>2, <1>3, <1>4, <1>5 DEF Taken, aaaReceives

LEMMA ServerSendsLemma ==
    ASSUME EAPTypeOK, NEW r \in EAPRequest, ServerSends(r)
    PROVE  /\ aaa' = [Taken EXCEPT !.request = r, !.rounds = @ + 1]
           /\ aaa' \in AAA /\ aaa'.request = r
           /\ aaa'.ident = Taken.ident /\ aaa'.key = Taken.key
           /\ aaa'.pseudonym = Taken.pseudonym
           /\ aaa'.accepted = Taken.accepted /\ aaa'.full = Taken.full
           /\ aaa'.order = Taken.order /\ cfgReauthID' = cfgReauthID
<1>1. aaa' = [Taken EXCEPT !.request = r, !.rounds = @ + 1]
  BY DEF ServerSends, Taken
<1>2. Taken \in AAA
  BY Receives
<1>3. Taken.rounds + 1 \in Nat
  BY <1>2 DEF AAA
<1>4. aaa' = [order |-> Taken.order, drawn |-> Taken.drawn, request |-> r, ident |-> Taken.ident,
              key |-> Taken.key, pseudonym |-> Taken.pseudonym,
              accepted |-> Taken.accepted, full |-> Taken.full,
              rounds |-> Taken.rounds + 1]
  BY <1>1, <1>2 DEF AAA
<1>5. aaa' \in AAA
  BY <1>2, <1>3, <1>4 DEF AAA
<1> QED
  BY <1>1, <1>4, <1>5 DEF ServerSends

LEMMA SendChallengeLemma ==
    ASSUME EAPTypeOK, NEW m \in Method, NEW w \in BOOLEAN, SendChallenge(m, w)
    PROVE  /\ aaa.drawn + 1 \in Vector
           /\ aaa' \in AAA /\ aaa'.request = challenge(m, w)
           /\ aaa'.request.kind = "challenge" /\ aaa'.request.method = m
           /\ aaa'.request.vector = aaa.drawn + 1 /\ aaa'.request.nextID = w
           /\ aaa'.pseudonym = Taken.pseudonym
           /\ ~aaa'.accepted /\ aaa'.full
           /\ aaa'.order = aaa.order /\ cfgReauthID' = cfgReauthID
<1>1. aaa' = [Taken EXCEPT !.request = challenge(m, w), !.drawn = @ + 1,
                           !.rounds = @ + 1, !.full = TRUE,
                           !.accepted = FALSE, !.key = None]
  BY DEF SendChallenge, Taken
<1>2. aaa.drawn + 1 \in Vector /\ Taken.drawn = aaa.drawn
  BY Receives DEF SendChallenge, EAPTypeOK, AAA, Vector
<1>3. challenge(m, w) \in EAPRequest
  BY <1>2 DEF challenge, EAPRequest
<1>4. Taken \in AAA
  BY Receives
<1>5. Taken.rounds + 1 \in Nat /\ Taken.drawn + 1 \in Vector
  BY <1>2, <1>4 DEF AAA
<1>6. aaa' = [order |-> aaa.order, drawn |-> Taken.drawn + 1, request |-> challenge(m, w),
              ident |-> Taken.ident, key |-> None, pseudonym |-> Taken.pseudonym,
              accepted |-> FALSE, full |-> TRUE, rounds |-> Taken.rounds + 1]
  BY <1>1, <1>4, Receives DEF AAA
<1>7. aaa' \in AAA
  BY <1>3, <1>4, <1>5, <1>6, Receives DEF AAA
<1>8. cfgReauthID' = cfgReauthID
  BY DEF SendChallenge
<1>9. /\ aaa'.request = challenge(m, w) /\ aaa'.pseudonym = Taken.pseudonym
      /\ ~aaa'.accepted /\ aaa'.full /\ aaa'.order = aaa.order
  BY <1>6
<1>10. /\ challenge(m, w).kind = "challenge" /\ challenge(m, w).method = m
       /\ challenge(m, w).vector = aaa.drawn + 1 /\ challenge(m, w).nextID = w
  BY DEF challenge
<1> QED
  BY <1>2, <1>7, <1>8, <1>9, <1>10

(* An answer without a result changes neither key nor pseudonym. *)
LEMMA NoResult ==
    ASSUME aaa' \in AAA, answered'.kind # "result"
    PROVE  /\ Taken'.key = aaa'.key /\ Taken'.pseudonym = aaa'.pseudonym
           /\ Taken'.accepted = aaa'.accepted /\ Taken'.full = aaa'.full
BY DEF Taken, aaaReceives, AAA

LEMMA IdleType == Idle \in EAPRequest /\ Idle.kind = "idle" /\ NoAnswer \in Answer
BY DEF Idle, EAPRequest, Method, NoAnswer, answer, Answer

(* Both methods: the client has answered a challenge.  The server accepts  *)
(* the answer if it is a result, keyed in the server's order.              *)
LEMMA ChallengeAnswered ==
    ASSUME EAPTypeOK, EAPSync, NEW m \in Method, NEW w \in BOOLEAN,
           NEW order \in tryOrders, NEW kind \in {"result", "other"},
           SendChallenge(m, w),
           eapRand' = aaa.drawn + 1, eapRES' = aaa.drawn + 1,
           msk' = expand(m, derive(m, order, aaa.drawn + 1)),
           kind = "result" => derive(m, order, aaa.drawn + 1)
                                = derive(m, aaa.order, aaa.drawn + 1),
           fastReauthCtx' = IF w THEN savedMK(m, aaa.drawn + 1) ELSE fastReauthCtx,
           Respond(answer(kind, None, aaa.drawn + 1))
    PROVE  EAPTypeOK' /\ EAPSync'
<1> DEFINE v == aaa.drawn + 1
           mk == derive(m, aaa.order, v)
           k == expand(m, mk)
<1>1. /\ v \in Vector /\ aaa' \in AAA
      /\ aaa'.request.kind = "challenge" /\ aaa'.request.method = m
      /\ aaa'.request.vector = v /\ aaa'.request.nextID = w
      /\ ~aaa'.accepted /\ aaa'.order = aaa.order /\ cfgReauthID' = cfgReauthID
  BY SendChallengeLemma
<1>2. savedMK(m, v) \in MK /\ msk' \in Key
  BY <1>1, MKTypes
<1>3. answered' = [kind |-> kind, id |-> None, res |-> v]
  BY DEF Respond, answer
<1>4. EAPTypeOK'
  BY <1>1, <1>2, <1>3 DEF EAPTypeOK, Answer
<1>5. CASE kind = "result"
  <2>1. Taken' = [aaa' EXCEPT !.key = k, !.accepted = TRUE,
                              !.pseudonym = IF w THEN mk ELSE @]
    BY <1>1, <1>3, <1>5 DEF Taken, aaaReceives
  <2>2. msk' = k
    BY <1>5
  <2> HIDE DEF mk, k
  <2>3. Taken'.key = k
    BY <1>1, <2>1 DEF AAA
  <2> QED
    BY <1>4, <2>2, <2>3 DEF EAPSync
<1>6. CASE kind = "other"
  <2>1. ~Taken'.accepted
    BY <1>1, <1>3, <1>6, NoResult
  <2> QED
    BY <1>4, <2>1 DEF EAPSync
<1> QED
  BY <1>5, <1>6

(* A round that ends with a request and its answer keeps both sides in     *)
(* step.                                                                   *)
LEMMA RoundInStep ==
    ASSUME EAPTypeOK, EAPSync, EAPContinues
    PROVE  EAPTypeOK' /\ EAPSync'
<1>1. CASE IdentityRequest
  <2>1. /\ aaa' \in AAA /\ aaa'.request = Idle /\ aaa'.key = Taken.key
        /\ aaa'.pseudonym = Taken.pseudonym /\ aaa'.accepted = Taken.accepted
        /\ aaa'.full = Taken.full /\ cfgReauthID' = cfgReauthID
    BY <1>1, IdleType, ServerSendsLemma DEF IdentityRequest
  <2>2. answered' \in Answer /\ answered'.kind = "identity"
    BY <1>1 DEF IdentityRequest, Respond, answer, Answer, EAPTypeOK
  <2>3. UNCHANGED clientEAP
    BY <1>1 DEF IdentityRequest
  <2>4. EAPTypeOK'
    BY <2>1, <2>2, <2>3, IdleType DEF EAPTypeOK
  <2>5. EAPSync'
    BY <2>1, <2>2, <2>3, NoResult DEF EAPSync
  <2> QED
    BY <2>4, <2>5
<1>2. CASE ChallengeAKA
  <2> DEFINE v == aaa.drawn + 1
  <2>1. PICK w \in BOOLEAN, order \in {0, aaa.order} :
          /\ SendChallenge("AKA", w)
          /\ eapRand' = v /\ eapRES' = v
          /\ msk' = expand("AKA", derive("AKA", order, v))
          /\ fastReauthCtx' = IF w THEN savedMK("AKA", v) ELSE fastReauthCtx
          /\ Respond(answer(IF order = aaa.order THEN "result" ELSE "other", None, v))
    BY <1>2 DEF ChallengeAKA
  <2>2. order \in tryOrders /\ "AKA" \in Method
    BY DEF EAPTypeOK, AAA, tryOrders, Method
  <2>3. CASE order = aaa.order
    BY <2>1, <2>2, <2>3, ChallengeAnswered
  <2>4. CASE order # aaa.order
    BY <2>1, <2>2, <2>4, ChallengeAnswered
  <2> QED
    BY <2>3, <2>4
<1>3. CASE ChallengeAKAPrime
  <2> DEFINE v == aaa.drawn + 1
  <2>1. PICK w \in BOOLEAN :
          /\ SendChallenge("AKAPrime", w)
          /\ eapRand' = v /\ eapRES' = v
          /\ msk' = expand("AKAPrime", derive("AKAPrime", 0, v))
          /\ fastReauthCtx' = IF w THEN savedMK("AKAPrime", v) ELSE fastReauthCtx
          /\ Respond(answer("result", None, v))
    BY <1>3 DEF ChallengeAKAPrime
  <2>2. 0 \in tryOrders /\ "AKAPrime" \in Method
    BY DEF tryOrders, Method
  <2>3. derive("AKAPrime", 0, v) = derive("AKAPrime", aaa.order, v)
    BY DEF derive
  <2> QED
    BY <2>1, <2>2, <2>3, ChallengeAnswered
<1>4. CASE ChallengeOutOfSync
  <2>1. PICK m \in Method : SendChallenge(m, FALSE)
    BY <1>4 DEF ChallengeOutOfSync
  <2>2. /\ aaa' \in AAA /\ aaa.drawn + 1 \in Vector
        /\ aaa'.request.kind = "challenge" /\ aaa'.request.vector = aaa.drawn + 1
        /\ aaa'.pseudonym = Taken.pseudonym /\ ~aaa'.accepted /\ aaa'.full
        /\ cfgReauthID' = cfgReauthID
    BY <2>1, SendChallengeLemma
  <2>3. answered' \in Answer /\ answered'.kind = "other"
    BY <1>4 DEF ChallengeOutOfSync, Respond, answer, Answer
  <2>4. eapRand' = aaa.drawn + 1 /\ UNCHANGED <<msk, eapRES, fastReauthCtx>>
    BY <1>4 DEF ChallengeOutOfSync
  <2>5. EAPTypeOK'
    BY <2>2, <2>3, <2>4 DEF EAPTypeOK
  <2>6. EAPSync'
    BY <2>2, <2>3, <2>4, NoResult DEF EAPSync
  <2> QED
    BY <2>5, <2>6
<1>5. CASE Reauthentication
  <2> DEFINE m == Taken.pseudonym.method
             r == [Idle EXCEPT !.kind = "reauth", !.method = m]
  <2>1. /\ ~Taken.full /\ Taken.pseudonym # None /\ ServerSends(r)
        /\ msk' = expand(m, fastReauthCtx)
        /\ Respond(answer("result", fastReauthCtx, None))
        /\ UNCHANGED <<eapRand, eapRES, fastReauthCtx>>
    BY <1>5 DEF Reauthentication, samePseudonym, Taken
  <2>2. m \in Method
    BY <2>1, Receives DEF AAA, MK
  <2>3. r \in EAPRequest /\ r.kind = "reauth"
    BY <2>2 DEF Idle, EAPRequest
  <2>4. /\ aaa' \in AAA /\ aaa'.request.kind = "reauth" /\ ~aaa'.full
        /\ cfgReauthID' = cfgReauthID
    BY <2>1, <2>3, ServerSendsLemma
  <2>5. answered' \in Answer
    BY <2>1 DEF Respond, answer, Answer, EAPTypeOK
  <2>6. msk' \in Key
    BY <2>1, <2>2 DEF expand, Key, EAPTypeOK
  <2>7. EAPTypeOK'
    BY <2>1, <2>4, <2>5, <2>6 DEF EAPTypeOK
  <2>8. ~Taken'.full
    BY <2>4, <2>7, Receives DEF AAA, Taken, aaaReceives
  <2>9. eapRand = eapRES
    BY <2>1 DEF EAPSync
  <2> QED
    BY <2>1, <2>7, <2>8, <2>9 DEF EAPSync
<1>6. CASE AKANotification
  <2>1. /\ aaa' \in AAA /\ aaa'.request = Idle /\ aaa'.key = Taken.key
        /\ aaa'.pseudonym = Taken.pseudonym /\ aaa'.accepted = Taken.accepted
        /\ aaa'.full = Taken.full /\ cfgReauthID' = cfgReauthID
    BY <1>6, IdleType, ServerSendsLemma DEF AKANotification
  <2>2. answered' \in Answer /\ answered'.kind = "other"
    BY <1>6 DEF AKANotification, Respond, answer, Answer
  <2>3. UNCHANGED clientEAP
    BY <1>6 DEF AKANotification
  <2>4. EAPTypeOK'
    BY <2>1, <2>2, <2>3, IdleType DEF EAPTypeOK
  <2>5. EAPSync'
    BY <2>1, <2>2, <2>3, NoResult DEF EAPSync
  <2> QED
    BY <2>4, <2>5
<1> QED
  BY <1>1, <1>2, <1>3, <1>4, <1>5, <1>6 DEF EAPContinues

(* The last round of an IKE_AUTH leaves no answer on its way. *)
LEMMA LastRound ==
    ASSUME EAPTypeOK, EAPSync, EAPSuccess \/ NoEAPPayload
    PROVE  EAPTypeOK' /\ EAPSync' /\ answered' = NoAnswer /\ Taken' = aaa'
<1>1. ServerSends(Idle) /\ answered' = NoAnswer /\ UNCHANGED clientEAP
  BY DEF EAPSuccess, NoEAPPayload
<1>2. /\ aaa' \in AAA /\ aaa'.request = Idle /\ aaa'.key = Taken.key
      /\ aaa'.pseudonym = Taken.pseudonym /\ aaa'.accepted = Taken.accepted
      /\ aaa'.full = Taken.full /\ cfgReauthID' = cfgReauthID
  BY <1>1, IdleType, ServerSendsLemma
<1>3. answered'.kind = "none" /\ answered' \in Answer
  BY <1>1, IdleType DEF NoAnswer, answer
<1>4. EAPTypeOK'
  BY <1>1, <1>2, <1>3, IdleType DEF EAPTypeOK
<1>5. EAPSync'
  BY <1>1, <1>2, <1>3, NoResult DEF EAPSync
<1>6. Taken' = aaa'
  BY <1>3 DEF Taken, aaaReceives
<1> QED
  BY <1>1, <1>4, <1>5, <1>6

LEMMA RefusedType == EAPTypeOK /\ EAPRefused => EAPTypeOK'
<1> SUFFICES ASSUME EAPTypeOK, EAPRefused PROVE EAPTypeOK'
  OBVIOUS
<1>1. answered' \in Answer /\ UNCHANGED <<msk, fastReauthCtx>>
  BY IdleType DEF EAPRefused
<1>2. CASE ServerSends(Idle) /\ UNCHANGED <<eapRand, eapRES>>
  BY <1>1, <1>2, IdleType, ServerSendsLemma DEF EAPTypeOK
<1>3. CASE /\ \E m \in Method : SendChallenge(m, FALSE)
           /\ eapRand' = aaa.drawn + 1
           /\ eapRES' \in {eapRES, aaa.drawn + 1}
  BY <1>1, <1>3, SendChallengeLemma DEF EAPTypeOK
<1> QED
  BY <1>2, <1>3 DEF EAPRefused

LEMMA InitEAP == Init => EAPInv
<1> SUFFICES ASSUME Init PROVE EAPInv
  OBVIOUS
<1>1. /\ EAPInit /\ answered = NoAnswer /\ eapRand = None /\ eapRES = None
      /\ msk = None /\ fastReauthCtx = cfgReauthID
  BY DEF Init, EAPInit
<1>2. 0 \in Vector
  BY DEF Vector
<1>3. cfgReauthID \in {None} \cup MK
  BY <1>1, <1>2, MKTypes DEF EAPInit
<1>4. PICK order \in tryOrders :
        aaa = [order |-> order, drawn |-> 0, request |-> Idle, ident |-> None,
               key |-> None,
               pseudonym |-> IF cfgReauthID = None THEN None
                             ELSE derive(cfgReauthID.method, order, 0),
               accepted |-> FALSE, full |-> FALSE, rounds |-> 0]
  BY <1>1 DEF EAPInit
<1> DEFINE p == IF cfgReauthID = None THEN None
                ELSE derive(cfgReauthID.method, order, 0)
           first == [order |-> order, drawn |-> 0, request |-> Idle,
                     ident |-> None, key |-> None, pseudonym |-> p,
                     accepted |-> FALSE, full |-> FALSE, rounds |-> 0]
<1>5. p \in {None} \cup MK
  BY <1>2, <1>3, MKTypes DEF MK
<1>6. first \in AAA /\ first.request = Idle /\ ~first.accepted
  <2> HIDE DEF p
  <2> QED
    BY <1>2, <1>5, IdleType DEF AAA
<1>7. aaa = first
  BY <1>4
<1> HIDE DEF first, p
<1>8. aaa \in AAA /\ aaa.request = Idle /\ ~aaa.accepted
  BY <1>6, <1>7
<1>9. EAPTypeOK
  BY <1>1, <1>3, <1>8, IdleType DEF EAPTypeOK
<1>10. Taken = aaa
  BY <1>1, <1>9, Receives DEF NoAnswer, answer
<1> QED
  BY <1>1, <1>8, <1>9, <1>10 DEF EAPInv, EAPSync

(* Outside IKE_AUTH nothing of EAP changes. *)
LEMMA EAPUntouched ==
    ASSUME EAPInv, UNCHANGED eapVars,
           \/ pc' = pc \/ pc' = "returned"
           \/ {pc, pc'} \cap {"auth", "final", "returned"} = {}
    PROVE  EAPInv'
<1>1. EAPTypeOK'
  BY DEF EAPInv, EAPTypeOK
<1>2. CASE pc' = "returned"
  BY <1>1, <1>2 DEF EAPInv
<1>3. CASE pc' # "returned"
  <2>1. pc # "returned" /\ EAPSync
    BY <1>3 DEF EAPInv
  <2>2. EAPSync'
    BY <2>1 DEF EAPSync, Taken, aaaReceives
  <2> QED
    BY <1>1, <1>3, <2>1, <2>2 DEF EAPInv
<1> QED
  BY <1>2, <1>3

(* IKE_AUTH begins a new conversation. *)
LEMMA ConversationBegins ==
    ASSUME EAPInv, HandleSAInitResp
    PROVE  EAPInv'
<1>1. /\ pc = "initWait" /\ pc' = "auth" /\ aaa' \in freshAAA /\ answered' = NoAnswer
      /\ UNCHANGED <<clientEAP, cfgReauthID>>
  BY DEF HandleSAInitResp
<1>2. /\ EAPTypeOK /\ EAPSync /\ answered = NoAnswer /\ eapRand = eapRES
  BY <1>1 DEF EAPInv
<1>3. Taken = aaa
  BY <1>2, Receives DEF NoAnswer, answer
<1>4. PICK p \in {aaa.pseudonym, None} :
        aaa' = [aaa EXCEPT !.request = Idle, !.ident = cfgReauthID, !.key = None,
                           !.accepted = FALSE, !.full = FALSE, !.rounds = 0,
                           !.pseudonym = p]
  BY <1>1 DEF freshAAA
<1>5. aaa \in AAA /\ cfgReauthID \in {None} \cup MK
  BY <1>2 DEF EAPTypeOK
<1>6. p \in {None} \cup MK
  BY <1>5 DEF AAA
<1>7. aaa' = [order |-> aaa.order, drawn |-> aaa.drawn, request |-> Idle, ident |-> cfgReauthID,
              key |-> None, pseudonym |-> p, accepted |-> FALSE, full |-> FALSE,
              rounds |-> 0]
  BY <1>4, <1>5 DEF AAA
<1>8. /\ aaa' \in AAA /\ aaa'.request = Idle /\ aaa'.pseudonym = p
      /\ ~aaa'.accepted
  BY <1>5, <1>6, <1>7, IdleType DEF AAA
<1>9. EAPTypeOK'
  BY <1>1, <1>2, <1>8, IdleType DEF EAPTypeOK
<1>10. answered'.kind # "result"
  BY <1>1 DEF NoAnswer, answer
<1>11. EAPSync'
  BY <1>1, <1>2, <1>3, <1>8, <1>10, NoResult DEF EAPSync
<1> QED
  BY <1>1, <1>9, <1>11 DEF EAPInv

LEMMA AuthRoundEAP ==
    ASSUME EAPInv, AuthRound
    PROVE  EAPInv'
<1>1. pc = "auth" /\ EAPTypeOK /\ EAPSync
  BY DEF AuthRound, EAPInv
<1>2. CASE EAPContinues /\ UNCHANGED localVars
  BY <1>1, <1>2, RoundInStep DEF EAPInv
<1>3. CASE (EAPSuccess \/ NoEAPPayload) /\ FirstFinalResp
  <2>1. EAPTypeOK' /\ EAPSync' /\ answered' = NoAnswer /\ Taken' = aaa'
    BY <1>1, <1>3, LastRound
  <2>2. pc' \in {"up", "returned", "final"} /\ (pc' = "up" => aaa'.accepted)
    BY <1>3 DEF FirstFinalResp, Established, Goto, ReturnError, Leave
  <2>3. pc' = "up" => eapRand' = eapRES'
    BY <2>1, <2>2 DEF EAPSync
  <2> QED
    BY <2>1, <2>2, <2>3 DEF EAPInv
<1>4. CASE EAPRefused /\ ReturnError
  BY <1>1, <1>4, RefusedType DEF ReturnError, Leave, EAPInv
<1>5. CASE NoEAPPayload /\ ReturnError
  BY <1>1, <1>5, LastRound DEF ReturnError, Leave, EAPInv
<1> QED
  BY <1>2, <1>3, <1>4, <1>5 DEF AuthRound

LEMMA StepEAP == EAPInv /\ [Next]_vars => EAPInv'
<1> SUFFICES ASSUME EAPInv, [Next]_vars PROVE EAPInv'
  OBVIOUS
<1>1. CASE HandleSAInitResp
  BY <1>1, ConversationBegins
<1>2. CASE AuthRound
  BY <1>2, AuthRoundEAP
<1>3. CASE Final
  <2>1. pc = "final" /\ UNCHANGED eapVars
    BY <1>3 DEF Final
  <2>2. EAPTypeOK /\ EAPSync /\ answered = NoAnswer
    BY <2>1 DEF EAPInv
  <2>3. Taken = aaa
    BY <2>2, Receives DEF NoAnswer, answer
  <2>4. pc' = "returned" \/ (aaa.accepted /\ pc' \in {"up", "start"})
    BY <1>3 DEF Final, Established, Goto, ReturnError, Redirected, Leave
  <2>5. pc' # "returned" => eapRand = eapRES
    BY <2>2, <2>3, <2>4 DEF EAPSync
  <2>6. EAPTypeOK' /\ EAPSync'
    BY <2>1, <2>2 DEF EAPTypeOK, EAPSync, Taken, aaaReceives
  <2> QED
    BY <2>1, <2>2, <2>4, <2>5, <2>6 DEF EAPInv
<1>4. CASE AuthTimeout
  <2>1. /\ pc' = "returned" /\ aaa' \in {aaa, Taken}
        /\ UNCHANGED <<clientEAP, cfgReauthID, answered>>
    BY <1>4 DEF AuthTimeout, ReturnError, Leave, Taken
  <2> QED
    BY <2>1, Receives DEF EAPInv, EAPTypeOK
<1>5. CASE InitTimeout \/ HandleInitRefused \/ HandleCookie \/ HandleInvalidKE
  BY <1>5, EAPUntouched
     DEF InitTimeout, HandleInitRefused, HandleCookie, HandleInvalidKE,
         Redirected, ReturnError, Leave
<1>6. CASE StartAttempt \/ BindFails \/ SendSAInit
  BY <1>6, EAPUntouched
     DEF StartAttempt, BeginResumption, BeginSAInit, BindFails, Goto, SendSAInit
<1>7. CASE ResumeFails \/ ResumeAnswered \/ ResumeAuthTimeout \/ ResumeAuth
  BY <1>7, EAPUntouched
     DEF ResumeFails, ResumeAnswered, ResumeAuthTimeout, ResumeAuth, FallBack,
         BeginSAInit, Goto
<1>8. CASE Reauth \/ Shutdown \/ Cancel
  BY <1>8, EAPUntouched
     DEF Reauth, Shutdown, Cancel, CloseDone, ReturnError, Leave
<1>9. CASE \/ Retransmit \/ Dispatch \/ Rearm \/ DispatcherExit \/ PeerReplies
           \/ ServePacket
  BY <1>9, EAPUntouched
     DEF Retransmit, Dispatch, Rearm, DispatcherExit, PeerReplies, ServePacket
<1>10. CASE UNCHANGED vars
  BY <1>10, EAPUntouched DEF vars
<1> QED
  BY <1>1, <1>2, <1>3, <1>4, <1>5, <1>6, <1>7, <1>8, <1>9, <1>10
     DEF Next, ClientStep

LEMMA SpecEAP == Spec => []EAPInv
BY InitEAP, StepEAP, PTL DEF Spec

(* handleEAP: when connectOnce sends the final AUTH to a server that has   *)
(* accepted the client on a challenge, s.MSK is that server's key,         *)
(* whatever challenges, lost answers, re-authentications and earlier       *)
(* attempts there were and whichever order it hashes IK and CK in.         *)
THEOREM FinalAuthHasServersKey == Spec => []FinalKeyAgrees
<1>1. EAPInv => FinalKeyAgrees
  <2> SUFFICES ASSUME EAPInv, pc = "final", aaa.accepted, aaa.full
               PROVE  msk = aaa.key
    BY DEF FinalKeyAgrees
  <2>1. EAPTypeOK /\ EAPSync /\ answered = NoAnswer
    BY DEF EAPInv
  <2>2. Taken = aaa
    BY <2>1, Receives DEF NoAnswer, answer
  <2> QED
    BY <2>1, <2>2 DEF EAPSync
<1> QED
  BY <1>1, SpecEAP, PTL

(* handleEAP stores RAND before the SIM's verdict and RES, CK and IK after *)
(* it, but a session comes up only with all of them from one vector.       *)
THEOREM IMSTupleOfOneVector == Spec => []IMSTupleMatches
<1>1. EAPInv => IMSTupleMatches
  BY DEF EAPInv, IMSTupleMatches
<1> QED
  BY <1>1, SpecEAP, PTL
-----------------------------------------------------------------------------
(* Key material.                                                           *)

(* The answers the client may still be handed, and the requests they or    *)
(* later answers belong to.                                                *)
Answers == BagToSet(toUE) \cup ({resp} \ {None})
Requests ==
    BagToSet(toPeer) \cup ({await} \ {None}) \cup {r.req : r \in Answers}

(* An IKE_SA_INIT of this attempt. *)
Current(d) == d.type # "resume" /\ d.sock = sock

InFlight ==
    /\ sock \in Nat
    /\ \A d \in Requests : d.sock \in Nat /\ d.sock <= sock
    /\ \A r \in Answers :
         r.type = "sa" => r.req.type # "resume" /\ r.req.group = PeerGroup

Numbers ==
    /\ ni \in Nat /\ dh \in Nat /\ fresh \in Nat
    /\ keRetryGroup \in {Nil, PeerGroup}

(* Request d bears the material the session still holds: its nonce, and,   *)
(* if the ePDG may accept it, its DH key.                                  *)
Bears(d) ==
    /\ ni # Nil /\ d.ni = ni
    /\ d.group = PeerGroup =>
         /\ wantedGroup = PeerGroup /\ dhGroup = PeerGroup
         /\ dh # Nil /\ d.dh = dh

(* Until a second COOKIE, whatever IKE_SA_INIT of this attempt may still   *)
(* be answered bears the session's material; a resumption sent none.       *)
Held ==
    /\ pc \in Resuming => \A d \in Requests : ~Current(d)
    /\ pc \in {"initSend", "initWait"} /\ ~repeatedCookie =>
         \A d \in Requests : Current(d) => Bears(d)

Material == InFlight /\ Numbers /\ Held /\ SingleMaterialAgrees

LEMMA BagLemma ==
    ASSUME NEW b, NEW d
    PROVE  /\ BagToSet(b (+) SetToBag({d})) = BagToSet(b) \cup {d}
           /\ BagToSet(b (-) SetToBag({d})) \subseteq BagToSet(b)
           /\ BagToSet(EmptyBag) = {}
           /\ \A p \in partsOf(b) : BagToSet(p) \subseteq BagToSet(b)
<1>1. BagToSet(b (+) SetToBag({d})) = BagToSet(b) \cup {d}
  BY DEF BagToSet, (+), SetToBag
<1>2. BagToSet(b (-) SetToBag({d})) \subseteq BagToSet(b)
  BY DEF BagToSet, (-), SetToBag
<1>3. BagToSet(EmptyBag) = {}
  BY DEF BagToSet, EmptyBag, SetToBag
<1>4. \A p \in partsOf(b) : BagToSet(p) \subseteq BagToSet(b)
  BY DEF BagToSet, partsOf, \sqsubseteq
<1> QED
  BY <1>1, <1>2, <1>3, <1>4

LEMMA InitMaterial == Init => Material
<1> SUFFICES ASSUME Init PROVE Material
  OBVIOUS
<1>1. Answers = {}
  BY BagLemma DEF Init, Answers
<1>2. Requests = {}
  <2>1. {r.req : r \in Answers} = {}
    BY <1>1
  <2> QED
    BY <2>1, BagLemma DEF Init, Requests
<1> QED
  BY <1>1, <1>2
     DEF Init, Material, InFlight, Numbers, Held, SingleMaterialAgrees,
         Resuming, Nil

(* Nothing new is sent and nothing in the session changes. *)
LEMMA NothingSent ==
    ASSUME Material, Requests' \subseteq Requests, Answers' \subseteq Answers,
           UNCHANGED <<sock, ni, dh, dhGroup, fresh, keRetryGroup>>
    PROVE  /\ InFlight' /\ Numbers'
           /\ /\ pc' = pc /\ repeatedCookie' = repeatedCookie
              /\ keys' = keys
              => Material'
           /\ pc' \in {"start", "returned", "panicked", "up"} => Material'
           /\ pc \in Resuming /\ pc' = "initSend" => Material'
           /\ pc \in Resuming /\ pc' = "resumeAuth" => Material'
<1>1. InFlight' /\ Numbers'
  BY DEF Material, InFlight, Numbers
<1>2. \A d : Current(d)' <=> Current(d)
  BY DEF Current
<1>3. \A d : Bears(d)' <=> Bears(d)
  BY DEF Bears, wantedGroup
<1>4. ASSUME pc' = pc, repeatedCookie' = repeatedCookie, keys' = keys
      PROVE  Material'
  BY <1>1, <1>2, <1>3, <1>4 DEF Material, Held, SingleMaterialAgrees
<1>5. ASSUME pc' \in {"start", "returned", "panicked", "up"}
      PROVE  Material'
  BY <1>1, <1>5 DEF Material, Held, SingleMaterialAgrees, Resuming
<1>6. ASSUME pc \in Resuming, pc' \in {"initSend", "resumeAuth"}
      PROVE  Material'
  BY <1>1, <1>2, <1>6 DEF Material, Held, SingleMaterialAgrees, Resuming
<1> QED
  BY <1>1, <1>4, <1>5, <1>6

(* connectOnce returns, or IKE_AUTH begins with empty queues. *)
LEMMA LeaveLemma ==
    ASSUME NEW next, Leave(next)
    PROVE  /\ pc' = next
           /\ Requests' \subseteq Requests /\ Answers' \subseteq Answers
<1>1. pc' = next /\ resp' = None /\ await' = None /\ toPeer' = EmptyBag
  BY DEF Leave
<1>2. BagToSet(toPeer') = {}
  BY <1>1, BagLemma
<1>3. BagToSet(toUE') \subseteq BagToSet(toUE)
  BY BagLemma DEF Leave
<1>4. Answers' \subseteq Answers
  BY <1>1, <1>3 DEF Answers
<1> QED
  BY <1>1, <1>2, <1>4 DEF Requests

LEMMA NewKeysLemma ==
    ASSUME NEW same, NewKeys(same)
    PROVE  Requests' = {} /\ Answers' = {}
<1>1. resp' = None /\ await' = None /\ toPeer' = EmptyBag /\ toUE' = EmptyBag
  BY DEF NewKeys
<1>2. Answers' = {}
  BY <1>1, BagLemma DEF Answers
<1>3. {r.req : r \in Answers'} = {}
  BY <1>2
<1> QED
  BY <1>1, <1>2, <1>3, BagLemma DEF Requests

LEMMA EnqueueLemma ==
    ASSUME NEW d, Enqueue(d)
    PROVE  Requests' \subseteq Requests \cup {d} /\ Answers' \subseteq Answers
<1>1. /\ await' = d /\ resp' = None /\ toUE' = toUE
      /\ toPeer' = toPeer (+) SetToBag({d})
  BY DEF Enqueue
<1>2. BagToSet(toPeer') = BagToSet(toPeer) \cup {d}
  BY <1>1, BagLemma
<1>3. Answers' \subseteq Answers
  BY <1>1 DEF Answers
<1> QED
  BY <1>1, <1>2, <1>3 DEF Requests

LEMMA StartMaterial == Material /\ StartAttempt => Material'
<1> SUFFICES ASSUME Material, StartAttempt PROVE Material'
  OBVIOUS
<1>1. InFlight /\ Numbers
  BY DEF Material
<1>2. sock' = sock + 1 /\ sock' \in Nat
  BY <1>1 DEF StartAttempt, InFlight
<1>3. CASE BeginResumption(sock + 1)
  <2> DEFINE d == [type |-> "resume", sock |-> sock + 1, ni |-> nonce,
                   dh |-> dh, group |-> dhGroup, cookie |-> Nil]
  <2>1. /\ pc' = "resumeWait" /\ ni' = nonce /\ Enqueue(d)
        /\ fresh' = IF ni = Nil THEN fresh + 1 ELSE fresh
        /\ UNCHANGED <<dh, dhGroup, keRetryGroup>>
    BY <1>3 DEF BeginResumption
  <2>2. Requests' \subseteq Requests \cup {d} /\ Answers' \subseteq Answers
    BY <2>1, EnqueueLemma
  <2>3. d.sock = sock + 1 /\ d.type = "resume"
    OBVIOUS
  <2> HIDE DEF d
  <2>4. InFlight'
    BY <1>1, <1>2, <2>2, <2>3 DEF InFlight
  <2>5. Numbers'
    BY <1>1, <2>1 DEF Numbers, nonce
  <2>6. \A e \in Requests' : ~Current(e)'
    BY <1>1, <1>2, <2>2, <2>3 DEF InFlight, Current
  <2> QED
    BY <2>1, <2>4, <2>5, <2>6 DEF Material, Held, SingleMaterialAgrees
<1>4. CASE BeginSAInit /\ UNCHANGED <<netVars, ni, dh, dhGroup, fresh,
                                      keRetryGroup>>
  <2>1. Requests' = Requests /\ Answers' = Answers
    BY <1>4 DEF Requests, Answers
  <2>2. InFlight' /\ Numbers'
    BY <1>1, <1>2, <1>4, <2>1 DEF InFlight, Numbers
  <2>3. \A e \in Requests' : ~Current(e)'
    BY <1>1, <1>2, <2>1 DEF InFlight, Current
  <2> QED
    BY <1>4, <2>2, <2>3
       DEF BeginSAInit, Material, Held, SingleMaterialAgrees, Resuming
<1> QED
  BY <1>3, <1>4 DEF StartAttempt

(* A nonce or key the session holds is used again; a DH key is only        *)
(* replaced when the group it is for changes, and then no request for      *)
(* PeerGroup is on its way.                                                *)
LEMMA SendMaterial == Material /\ SendSAInit => Material'
<1> SUFFICES ASSUME Material, SendSAInit PROVE Material'
  OBVIOUS
<1> DEFINE newDH == dh = Nil \/ dhGroup # wantedGroup
           key == IF newDH THEN fresh + 1 ELSE dh
<1>1. PICK d :
        d = [type |-> "init", sock |-> sock, ni |-> nonce, dh |-> key,
             group |-> wantedGroup,
             cookie |-> IF sendCookie THEN cookie ELSE Nil]
  OBVIOUS
<1>2. InFlight /\ Numbers /\ Held
  BY DEF Material
<1>3. /\ pc = "initSend" /\ pc' = "initWait"
      /\ ni' = nonce /\ dh' = key /\ dhGroup' = wantedGroup
      /\ fresh' = IF ni = Nil \/ newDH THEN fresh + 1 ELSE fresh
      /\ Enqueue(d)
      /\ UNCHANGED <<keRetryGroup, repeatedCookie, sock>>
  BY <1>1 DEF SendSAInit
<1>4. /\ d.sock = sock /\ d.type = "init" /\ d.ni = ni' /\ d.dh = dh'
      /\ d.group = wantedGroup
  BY <1>1, <1>3
<1>5. wantedGroup' = wantedGroup
  BY <1>3 DEF wantedGroup
<1>6. /\ ni' \in Nat /\ ni' # Nil /\ (ni # Nil => ni' = ni)
      /\ dh' \in Nat /\ dh' # Nil
      /\ (dh # Nil /\ dhGroup = wantedGroup => dh' = dh)
      /\ fresh' \in Nat
  BY <1>2, <1>3 DEF Numbers, nonce, Nil
<1>7. Requests' \subseteq Requests \cup {d} /\ Answers' \subseteq Answers
  BY <1>3, EnqueueLemma
<1> HIDE DEF key, newDH
<1>8. InFlight' /\ Numbers'
  BY <1>2, <1>3, <1>4, <1>6, <1>7 DEF InFlight, Numbers
<1>9. Bears(d)'
  BY <1>3, <1>4, <1>5, <1>6 DEF Bears
<1>10. ASSUME NEW e \in Requests, Current(e)', ~repeatedCookie'
      PROVE  Bears(e)'
  <2>1. Bears(e)
    BY <1>2, <1>3, <1>10 DEF Held, Current
  <2> QED
    BY <1>3, <1>5, <1>6, <2>1 DEF Bears
<1> QED
  BY <1>3, <1>7, <1>8, <1>9, <1>10
     DEF Material, Held, SingleMaterialAgrees, Resuming

LEMMA CookieMaterial == Material /\ HandleCookie => Material'
<1> SUFFICES ASSUME Material, HandleCookie PROVE Material'
  OBVIOUS
<1>1. InFlight /\ Numbers /\ Held /\ pc = "initWait"
  BY DEF Material, HandleCookie
<1>2. /\ ni' \in {ni, Nil} /\ dh' \in {dh, Nil}
      /\ ~repeatedCookie' => ~repeatedCookie /\ ni' = ni /\ dh' = dh
      /\ UNCHANGED <<dhGroup, fresh, keRetryGroup>>
  BY DEF HandleCookie
<1>3. /\ Requests' \subseteq Requests /\ Answers' \subseteq Answers
      /\ pc' \in {"returned", "initSend"} /\ sock' = sock
  <2>1. CASE ReturnError
    BY <2>1, LeaveLemma DEF ReturnError
  <2>2. CASE pc' = "initSend" /\ UNCHANGED <<netVars, connVars>>
    BY <2>2 DEF Requests, Answers
  <2> QED
    BY <2>1, <2>2 DEF HandleCookie
<1>4. InFlight' /\ Numbers'
  BY <1>1, <1>2, <1>3 DEF InFlight, Numbers, Nil
<1>5. ASSUME NEW e \in Requests, Current(e)', ~repeatedCookie'
      PROVE  Bears(e)'
  BY <1>1, <1>2, <1>3, <1>5 DEF Held, Current, Bears, wantedGroup
<1> QED
  BY <1>3, <1>4, <1>5 DEF Material, Held, SingleMaterialAgrees, Resuming

LEMMA InvalidKEMaterial == Material /\ HandleInvalidKE => Material'
<1> SUFFICES ASSUME Material, HandleInvalidKE PROVE Material'
  OBVIOUS
<1>1. /\ InFlight /\ Numbers /\ Held /\ pc = "initWait"
      /\ keRetryGroup' = PeerGroup /\ pc' = "initSend"
      /\ UNCHANGED <<ni, dh, dhGroup, fresh, repeatedCookie, netVars, connVars>>
  BY DEF Material, HandleInvalidKE
<1>2. Requests' = Requests /\ Answers' = Answers
  BY <1>1 DEF Requests, Answers
<1>3. InFlight' /\ Numbers'
  BY <1>1, <1>2 DEF InFlight, Numbers
<1>4. wantedGroup = PeerGroup => wantedGroup' = PeerGroup
  BY <1>1 DEF wantedGroup, Numbers
<1>5. ASSUME NEW e \in Requests, Current(e)', ~repeatedCookie'
      PROVE  Bears(e)'
  BY <1>1, <1>4, <1>5 DEF Held, Current, Bears
<1> QED
  BY <1>1, <1>2, <1>3, <1>5
     DEF Material, Held, SingleMaterialAgrees, Resuming

(* The answer that is handed over is to a request that bears the           *)
(* material.                                                               *)
LEMMA AnswerMaterial == Material /\ HandleSAInitResp => Material'
<1> SUFFICES ASSUME Material, HandleSAInitResp PROVE Material'
  OBVIOUS
<1> DEFINE same == resp.req.ni = ni /\ resp.req.dh = dh
<1>1. /\ pc = "initWait" /\ resp # None /\ resp.type = "sa" /\ NewKeys(same)
      /\ pc' = "auth"
      /\ UNCHANGED <<ni, dh, dhGroup, fresh, keRetryGroup, repeatedCookie,
                     sock>>
  BY DEF HandleSAInitResp
<1>2. Requests' = {} /\ Answers' = {}
  BY <1>1, NewKeysLemma
<1>3. InFlight' /\ Numbers'
  BY <1>1, <1>2 DEF Material, InFlight, Numbers
<1>4. ASSUME keys' = "mixed" PROVE repeatedCookie
  <2>1. resp.req.sock = sock /\ ~same
    BY <1>1, <1>4 DEF NewKeys
  <2>2. resp \in Answers /\ resp.req \in Requests
    BY <1>1 DEF Answers, Requests
  <2>3. Current(resp.req) /\ resp.req.group = PeerGroup
    BY <1>1, <2>1, <2>2 DEF Material, InFlight, Current
  <2> QED
    BY <1>1, <2>1, <2>2, <2>3 DEF Material, Held, Bears
<1> QED
  BY <1>1, <1>2, <1>3, <1>4
     DEF Material, Held, SingleMaterialAgrees, Resuming

(* Datagrams travel. *)
LEMMA NetworkMaterial ==
    Material /\ (Retransmit \/ Dispatch \/ PeerReplies) => Material'
<1> SUFFICES ASSUME Material, Retransmit \/ Dispatch \/ PeerReplies
             PROVE  Material'
  OBVIOUS
<1>1. CASE Retransmit
  <2>1. await # None /\ toPeer' = toPeer (+) SetToBag({await})
        /\ UNCHANGED <<pc, await, resp, toUE, saVars, sock, keys>>
    BY <1>1 DEF Retransmit
  <2>2. BagToSet(toPeer') = BagToSet(toPeer) \cup {await}
    BY <2>1, BagLemma
  <2>3. Requests' = Requests /\ Answers' = Answers
    BY <2>1, <2>2 DEF Requests, Answers
  <2> QED
    BY <2>1, <2>3, NothingSent
<1>2. CASE Dispatch
  <2>1. PICK r \in BagToSet(toUE) :
          /\ toUE' = toUE (-) SetToBag({r})
          /\ resp' = IF await # None THEN r ELSE resp
    BY <1>2 DEF Dispatch
  <2>2. await' = None /\ UNCHANGED <<pc, toPeer, saVars, sock, keys>>
    BY <1>2 DEF Dispatch
  <2>3. BagToSet(toUE') \subseteq BagToSet(toUE)
    BY <2>1, BagLemma
  <2>4. Answers' \subseteq Answers
    BY <2>1, <2>3 DEF Answers
  <2>5. Requests' \subseteq Requests
    BY <2>2, <2>4 DEF Requests
  <2> QED
    BY <2>2, <2>4, <2>5, NothingSent
<1>3. CASE PeerReplies
  <2>1. PICK d \in BagToSet(toPeer),
             t \in {"cookie", "invalidKE", "redirect", "reject", "sa",
                    "resumed"} :
          /\ mayReply(d, t)
          /\ toPeer' = toPeer (-) SetToBag({d})
          /\ toUE' = toUE (+) SetToBag({reply(t, d)})
    BY <1>3 DEF PeerReplies
  <2>2. UNCHANGED <<pc, await, resp, saVars, sock, keys>>
    BY <1>3 DEF PeerReplies
  <2>3. BagToSet(toPeer') \subseteq BagToSet(toPeer)
    BY <2>1, BagLemma
  <2>4. BagToSet(toUE') = BagToSet(toUE) \cup {reply(t, d)}
    BY <2>1, BagLemma
  <2>5. /\ reply(t, d).req = d /\ reply(t, d).type = t
        /\ t = "sa" => d.type # "resume" /\ d.group = PeerGroup
    BY <2>1 DEF reply, mayReply
  <2>6. Answers' \subseteq Answers \cup {reply(t, d)}
    BY <2>2, <2>4 DEF Answers
  <2>7. d \in Requests
    BY DEF Requests
  <2>8. Requests' \subseteq Requests
    BY <2>2, <2>3, <2>5, <2>6, <2>7 DEF Requests
  <2>9. InFlight' /\ Numbers'
    BY <2>2, <2>5, <2>6, <2>8 DEF Material, InFlight, Numbers
  <2>10. \A e : Current(e)' <=> Current(e)
    BY <2>2 DEF Current
  <2>11. \A e : Bears(e)' <=> Bears(e)
    BY <2>2 DEF Bears, wantedGroup
  <2> QED
    BY <2>2, <2>8, <2>9, <2>10, <2>11
       DEF Material, Held, SingleMaterialAgrees
<1> QED
  BY <1>1, <1>2, <1>3

LEMMA StepMaterial == Material /\ [Next]_vars => Material'
<1> SUFFICES ASSUME Material, [Next]_vars PROVE Material'
  OBVIOUS
<1>1. CASE StartAttempt
  BY <1>1, StartMaterial
<1>2. CASE SendSAInit
  BY <1>2, SendMaterial
<1>3. CASE HandleCookie
  BY <1>3, CookieMaterial
<1>4. CASE HandleInvalidKE
  BY <1>4, InvalidKEMaterial
<1>5. CASE HandleSAInitResp
  BY <1>5, AnswerMaterial
<1>6. CASE Retransmit \/ Dispatch \/ PeerReplies
  BY <1>6, NetworkMaterial
<1>7. CASE ResumeAnswered
  <2>1. Requests' = {} /\ Answers' = {}
    BY <1>7, NewKeysLemma DEF ResumeAnswered
  <2>2. /\ pc = "resumeWait" /\ pc' = "resumeAuth"
        /\ UNCHANGED <<saVars, connVars>>
    BY <1>7 DEF ResumeAnswered, Goto
  <2> QED
    BY <2>1, <2>2, NothingSent DEF Resuming
<1>8. CASE FallBack /\ pc \in Resuming
  <2>1. Requests' \subseteq Requests /\ Answers' \subseteq Answers
    BY <1>8 DEF FallBack, Requests, Answers
  <2>2. /\ pc' = "initSend"
        /\ UNCHANGED <<sock, ni, dh, dhGroup, fresh, keRetryGroup>>
    BY <1>8 DEF FallBack, BeginSAInit
  <2> QED
    BY <1>8, <2>1, <2>2, NothingSent
<1> DEFINE Quiet == UNCHANGED <<saVars, netVars, sock>>
           Left == /\ \E next \in {"start", "returned", "panicked"} :
                        Leave(next)
                   /\ UNCHANGED <<saVars, sock>>
<1>9. CASE Quiet /\ pc' \in {"up", "returned"}
  <2>1. Requests' = Requests /\ Answers' = Answers
    BY <1>9 DEF Requests, Answers
  <2> QED
    BY <1>9, <2>1, NothingSent
<1>10. CASE Quiet /\ keys' = keys /\ (pc' = pc \/ (pc = "auth" /\ pc' = "final"))
  <2>1. Requests' = Requests /\ Answers' = Answers
    BY <1>10 DEF Requests, Answers
  <2>2. CASE pc' = pc
    BY <1>10, <2>1, <2>2, NothingSent
  <2>3. CASE pc = "auth" /\ pc' = "final"
    <3>1. InFlight' /\ Numbers'
      BY <1>10, <2>1, NothingSent
    <3> QED
      BY <1>10, <2>3, <3>1 DEF Material, Held, SingleMaterialAgrees, Resuming
  <2> QED
    BY <1>10, <2>2, <2>3
<1>11. CASE Left
  <2>1. PICK next \in {"start", "returned", "panicked"} : Leave(next)
    BY <1>11
  <2> QED
    BY <1>11, <2>1, LeaveLemma, NothingSent
<1>12. CASE BindFails
  BY <1>9, <1>12 DEF BindFails, Goto
<1>13. CASE HandleInitRefused \/ InitTimeout
  <2>1. Left
    BY <1>13
       DEF HandleInitRefused, InitTimeout, Redirected, ReturnError
  <2> QED
    BY <1>11, <2>1
<1>14. CASE ResumeFails \/ ResumeAuthTimeout
  BY <1>8, <1>14 DEF ResumeFails, ResumeAuthTimeout, Resuming
<1>15. CASE ResumeAuth
  <2>1. CASE Goto("up") /\ Quiet
    BY <1>9, <2>1 DEF Goto
  <2> QED
    BY <1>8, <1>15, <2>1 DEF ResumeAuth, Resuming
<1>16. CASE AuthRound
  <2>1. pc = "auth" /\ UNCHANGED <<saVars, keys>>
    BY <1>16 DEF AuthRound
  <2>2. Left \/ (Quiet /\ pc' \in {"auth", "final", "up"})
    BY <1>16, <2>1
       DEF AuthRound, FirstFinalResp, Established, ReturnError, Goto
  <2> QED
    BY <1>9, <1>10, <1>11, <2>1, <2>2
<1>17. CASE Final
  <2>1. UNCHANGED saVars
    BY <1>17 DEF Final
  <2>2. Left \/ (Quiet /\ pc' = "up")
    BY <1>17, <2>1 DEF Final, Established, ReturnError, Redirected, Goto
  <2> QED
    BY <1>9, <1>11, <2>2
<1>18. CASE AuthTimeout \/ Cancel
  <2>1. Left
    BY <1>18 DEF AuthTimeout, Cancel, ReturnError
  <2> QED
    BY <1>11, <2>1
<1>19. CASE Reauth \/ Shutdown
  <2>1. Left
    BY <1>19 DEF Reauth, Shutdown, CloseDone
  <2> QED
    BY <1>11, <2>1
<1>20. CASE Rearm \/ DispatcherExit \/ ServePacket \/ UNCHANGED vars
  BY <1>10, <1>20 DEF Rearm, DispatcherExit, ServePacket, vars
<1> QED
  BY <1>1, <1>2, <1>3, <1>4, <1>5, <1>6, <1>7, <1>12, <1>13, <1>14, <1>15,
     <1>16, <1>17, <1>18, <1>19, <1>20
     DEF Next, ClientStep

(* connectOnce: until handleCookie drops them for a second COOKIE, nonce   *)
(* and DH key are the ones of every IKE_SA_INIT of the attempt that may    *)
(* still be answered, so that it does not matter which answer, to which    *)
(* of the requests or retransmissions, is handed over first.               *)
THEOREM AnyAnswerGivesSharedKeys == Spec => []SingleMaterialAgrees
<1>1. Material => SingleMaterialAgrees
  BY DEF Material
<1> QED
  BY <1>1, InitMaterial, StepMaterial, PTL DEF Spec

(* RekeyIKESA offers the suite in use, for every configuration of the run   *)
(* and every choice of the ePDG (the property of the run).                  *)
THEOREM RekeyOffersTheSuiteAlways == RekeyOffersTheSuite
BY EveryIKESuiteIsOfferedAgain, PTL DEF RekeyOffersTheSuite

(* A session with an open socket has been hearing and talking to one of the *)
(* addresses of the ePDG since the first answer, whatever has been sent     *)
(* and heard (the property of the run).                                    *)
THEOREM OneServerAlways == Spec => []OneServer
<1>1. OneServer
  BY TalksToOneServer DEF OneServer
<1> QED
  BY <1>1, TalksToOneServer, PTL DEF OneServer
=============================================================================
