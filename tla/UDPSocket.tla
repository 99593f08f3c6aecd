----------------------------- MODULE UDPSocket -----------------------------
(***************************************************************************)
(* SocketManager of socket.go: which ePDG a socket talks to.  The name of  *)
(* the ePDG may have several addresses; SendIKE tries them in turn until   *)
(* readLoop hears from one, and readLoop follows the port it hears from.   *)
(* Each step is under remoteMu (readLoop takes it once for the address and *)
(* once for the port, SetRemotePort not at all for its single store), so   *)
(* the state is a function of the history of calls and datagrams.          *)
(*                                                                         *)
(* What a datagram holds is left out: its source counts before readLoop    *)
(* looks at it, even if it is a keepalive.  How the channels fill up and   *)
(* how the socket stops is part of Lifecycle.                              *)
(***************************************************************************)
EXTENDS Integers, Sequences

CONSTANTS
    Servers,        \* how many addresses the name of the ePDG has
    MaxHistory      \* bound on the length of the histories checked

ASSUME SocketAssumption == Servers \in Nat \ {0} /\ MaxHistory \in Nat

Ports == {500, 4500}
Source == [ip : 1..(Servers + 1), port : Ports]     \* the last one is a stranger

Event == [op : {"SendIKE", "SetRemotePort"}] \cup [op : {"read"}, from : Source]

(* NewSocketManager with the addresses of resolveUDPAddrAll. *)
NewSocketManager ==
    [remoteIPs |-> [i \in 1..Servers |-> i], idx |-> 0,
     ip |-> 1, port |-> 500,            \* RemoteAddr
     sent |-> <<>>, received |-> <<>>]

(* SendIKE turns to the next address as long as there are several; the     *)
(* marker of four zero bytes goes before packets to port 4500.             *)
SendIKE(s) ==
    LET n == Len(s.remoteIPs)
        ip == IF n > 1 THEN s.remoteIPs[(s.idx % n) + 1] ELSE s.ip
    IN [s EXCEPT !.idx = IF n > 1 THEN @ + 1 ELSE @,
                 !.ip = ip,
                 !.sent = Append(@, [ip |-> ip, port |-> s.port,
                                     marked |-> s.port = 4500])]

(* handleIKESAInitResp, when a NAT is detected. *)
SetRemotePort(s) == [s EXCEPT !.port = 4500]

allowed(s, from) == \E i \in DOMAIN s.remoteIPs : s.remoteIPs[i] = from.ip

(* Mutant: the destination follows the answer, the other addresses stay. *)
readLoopKeepsAddresses(s, from) ==
    IF ~allowed(s, from) THEN s
    ELSE [s EXCEPT !.ip = from.ip, !.port = from.port,
                   !.received = Append(@, from.ip)]

(* readLoop drops what strangers send, and the first address heard from is *)
(* the only one from then on.                                              *)
readLoop(s, from) ==
    IF ~allowed(s, from) THEN s
    ELSE [s EXCEPT !.ip = IF Len(s.remoteIPs) > 1 THEN from.ip ELSE @,
                   !.idx = IF Len(s.remoteIPs) > 1 THEN 0 ELSE @,
                   !.remoteIPs = <<from.ip>>,
                   !.port = from.port,
                   !.received = Append(@, from.ip)]

handle(s, e) ==
    IF e.op = "SendIKE" THEN SendIKE(s)
    ELSE IF e.op = "SetRemotePort" THEN SetRemotePort(s)
    ELSE readLoop(s, e.from)

(* The states a history of calls and datagrams goes through. *)
states(history) ==
    LET state[n \in 0..Len(history)] ==
            IF n = 0 THEN NewSocketManager ELSE handle(state[n - 1], history[n])
    IN state

after(history) == states(history)[Len(history)]

-----------------------------------------------------------------------------
Histories == UNION {[1..n -> Event] : n \in 0..MaxHistory}

(* The port moved away from 4500 again only by a datagram of the server. *)
PortFollows(h, s) ==
    \A i \in DOMAIN h :
        h[i].op = "SetRemotePort" /\ s.port # 4500 =>
            \E j \in (i + 1)..Len(h) :
                h[j].op = "read" /\ h[j].from = [ip |-> s.ip, port |-> s.port]

(* The request went to several ePDGs, and several may answer, in any order *)
(* and late.  The session hears and talks to one: everything it receives   *)
(* comes from the first that answered, and from then on everything it      *)
(* sends goes there.  Before, no address is left out: each Servers         *)
(* requests in a row reach them all.                                       *)
OneServerInEveryHistory ==
    \A h \in Histories :
        LET s == after(h)
            next == SendIKE(s)
        IN /\ \A i \in DOMAIN s.received : s.received[i] = s.received[1]
           /\ s.received # <<>> => next.sent[Len(next.sent)].ip = s.received[1]
           /\ s.received = <<>> =>
                \A i, j \in DOMAIN s.sent :
                    i < j /\ j < i + Servers => s.sent[i].ip # s.sent[j].ip
           /\ PortFollows(h, s)
=============================================================================
