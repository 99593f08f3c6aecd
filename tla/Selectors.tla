----------------------------- MODULE Selectors -----------------------------
(***************************************************************************)
(* Traffic selectors: the routes into the tunnel that applyNetworkConfig   *)
(* computes from the ePDG's selectors (session.go, routes.go), against the *)
(* selectors that matchSelectors goes by for every packet (selector.go).   *)
(*                                                                         *)
(* IPv4 addresses are numbers of Width bits.  IPv6 addresses have two bits *)
(* more, and a quarter of them, not the first, stands for ::ffff:0:0/96:   *)
(* net.IP takes them for the IPv4 addresses they embed.                    *)
(***************************************************************************)
EXTENDS Integers, Sequences, FiniteSetsExt

CONSTANTS Width     \* 32 in the code

ASSUME WidthAssumption == Width \in Nat \ {0}

Family == {"v4", "v6"}
Bits(family) == IF family = "v4" THEN Width ELSE Width + 2
Address(family) == 0..(2^Bits(family) - 1)
Port == 0..1

(* The two forms of an IPv4 address. *)
To16(a) == 2^Width + a
IsMapped(a) == a \in 2^Width..(2 * 2^Width - 1)

(* Selectors; proto 0 is any protocol, only 6 and 17 have ports. *)
Selector ==
    UNION {[family : {f}, start : Address(f), end : Address(f),
            proto : {0, 1, 17}, startPort : Port, endPort : Port] : f \in Family}

(* isFullIPv4Range and isFullIPv6Range. *)
full(ts) == ts.start = 0 /\ ts.end = 2^Bits(ts.family) - 1

-----------------------------------------------------------------------------
(* Mutant: the room that is left is counted one address too large. *)
blockPastEnd(first, end) ==
    Max({2^k : k \in {j \in 0..Width : first % 2^j = 0 /\ 2^j <= end - first + 2}})

(* The largest aligned block at first that fits the rest of the range      *)
(* (maxBlock after the loop that halves it).                               *)
block(first, end) ==
    Max({2^k : k \in {j \in 0..Width : first % 2^j = 0 /\ 2^j <= end - first + 1}})

(* ipv4RangeToCIDRs; its cur, here first, is a uint64 and may pass the last address. *)
ipv4RangeToCIDRs(start, end) ==
    LET from[first \in 0..(2^Width)] ==
            IF first > end THEN <<>>
            ELSE <<[family |-> "v4", base |-> first, size |-> block(first, end)]>>
                 \o from[first + block(first, end)]
    IN from[start]

(* The routes for one selector.  Without policy routing the default route  *)
(* of the host is protected; IPv6 ranges are only known as all or one.  A  *)
(* single IPv4-mapped address is printed as IPv4, and with its /128 it is  *)
(* no network: no packet takes that route, the set-up fails over it.       *)
routesFor(ts, enablePolicyRouting) ==
    IF full(ts)
      THEN IF enablePolicyRouting
           THEN <<[family |-> ts.family, base |-> 0, size |-> 2^Bits(ts.family)]>>
           ELSE <<>>
    ELSE IF ts.family = "v4" THEN ipv4RangeToCIDRs(ts.start, ts.end)
    ELSE IF ts.start = ts.end
      THEN <<[family |-> IF IsMapped(ts.start) THEN "invalid" ELSE "v6",
              base |-> ts.start, size |-> 1]>>
    ELSE <<>>

covers(route, family, dst) ==
    route.family = family /\ dst \in route.base..(route.base + route.size - 1)

routed(tsr, enablePolicyRouting, family, dst) ==
    \E i \in DOMAIN tsr :
        LET routes == routesFor(tsr[i], enablePolicyRouting)
        IN \E j \in DOMAIN routes : covers(routes[j], family, dst)

(* matchSelectors, for the destination of a packet: To4 and To16 take it   *)
(* to the family of the selector if they can.                              *)
matchSelector(ts, family, dst, proto, dstPort) ==
    /\ ts.proto \in {0, proto}
    /\ ts.proto \in {6, 17} => dstPort \in ts.startPort..ts.endPort
    /\ CASE ts.family = family -> dst \in ts.start..ts.end
         [] ts.family = "v6" /\ family = "v4" -> To16(dst) \in ts.start..ts.end
         [] ts.family = "v4" /\ family = "v6" ->
              IsMapped(dst) /\ dst - 2^Width \in ts.start..ts.end

matchSelectors(selectors, family, dst, proto, dstPort) ==
    \E i \in DOMAIN selectors : matchSelector(selectors[i], family, dst, proto, dstPort)

-----------------------------------------------------------------------------
(* The routes of a range are networks: every block is aligned to its size, *)
(* and together they hold every address of the range once.                 *)
ExactCover(start, end) ==
    LET cidrs == ipv4RangeToCIDRs(start, end)
    IN /\ \A i \in DOMAIN cidrs : cidrs[i].base % cidrs[i].size = 0
       /\ \A a \in Address("v4") :
            Cardinality({i \in DOMAIN cidrs : covers(cidrs[i], "v4", a)})
                = IF a \in start..end THEN 1 ELSE 0
       /\ Len(cidrs) <= 2 * Width

(* No route for it: the default route that is protected, IPv6 ranges, and  *)
(* single addresses that are printed as IPv4.                              *)
LeftOut(ts, enablePolicyRouting) ==
    \/ full(ts) /\ ~enablePolicyRouting
    \/ ts.family = "v6" /\ ~full(ts) /\ (ts.start # ts.end \/ IsMapped(ts.start))

(* A destination is routed into the tunnel only if a selector has it, so   *)
(* that what the ePDG would drop keeps its way out of the host; and if     *)
(* some packet to it matches a selector of its family that gets routes at  *)
(* all, it is routed, up to the last address of the family, so that such   *)
(* packets do not leave the host unprotected.  The blocks of a range       *)
(* overlap nowhere and are at most two for each bit.                       *)
EverySelectorRouted ==
    \A ts \in Selector :
        /\ ts.family = "v4" /\ ts.start <= ts.end => ExactCover(ts.start, ts.end)
        /\ \A policy \in BOOLEAN, family \in Family : \A dst \in Address(family) :
            /\ routed(<<ts>>, policy, family, dst) =>
                family = ts.family /\ dst \in ts.start..ts.end
            /\ (\E proto \in {1, 17}, dstPort \in Port :
                    matchSelectors(<<ts>>, family, dst, proto, dstPort))
                => \/ family # ts.family \/ LeftOut(ts, policy)
                   \/ routed(<<ts>>, policy, family, dst)
=============================================================================
