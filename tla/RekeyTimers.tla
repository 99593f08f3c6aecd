---------------------------- MODULE RekeyTimers ----------------------------
(***************************************************************************)
(* The clock side of key rotation: the two rekey timers of session.go with *)
(* their jitter, the 30 s cooldown both kinds of rekey share, and the      *)
(* reset channels.  Time is in seconds and jumps from event to event.      *)
(* Exchanges take no time here; Rekey has their interleavings.  A timer    *)
(* set to a moment that has passed (an interval shorter than the jitter)   *)
(* fires at once.                                                          *)
(***************************************************************************)
EXTENDS Integers

CONSTANTS
    Lifetimes,      \* the values of AUTH_LIFETIME, 0 if none is announced
    Jitter,         \* rand.Int63n(30): the values tried
    Slack,          \* the peer's rekey arrives this long before an event
    Rejections,     \* bound on rekeys the peer rejects
    PeerRekeys,     \* bound on child rekeys the peer starts
    Periods         \* bound on the clock, in intervals of the IKE timer

ASSUME LifetimeAssumption == Lifetimes \subseteq Nat /\ Periods \in Nat
ASSUME JitterAssumption ==
    /\ Jitter # {} /\ Jitter \subseteq 0..29
    /\ Slack \subseteq Nat
ASSUME BudgetAssumption == Rejections \in Nat /\ PeerRekeys \in Nat

Cooldown == 30

Retry == 60

VARIABLES
    authLifetime,           \* s.authLifetime
    now,
    ikeAt, childAt,         \* when the timers fire
    lastRekey,              \* s.lastRekeyTime; before it is set, long ago
    ikeBorn, childBorn,     \* when the SAs in use were negotiated
    rejected, peerRekeyed   \* budgets used

vars == <<authLifetime, now, ikeAt, childAt, lastRekey, ikeBorn, childBorn,
          rejected, peerRekeyed>>

(* Mutant: the intervals are mixed up. *)
ikeIntervalMixed == IF authLifetime > 0 THEN (authLifetime * 7) \div 8 ELSE 1800

(* connectOnce: 80 % and 87.5 % of AUTH_LIFETIME, or the defaults. *)
ikeInterval == IF authLifetime > 0 THEN (authLifetime * 4) \div 5 ELSE 1500
childInterval == IF authLifetime > 0 THEN (authLifetime * 7) \div 8 ELSE 1800

Init ==
    /\ authLifetime \in Lifetimes
    /\ now = 0
    /\ \E j \in Jitter : ikeAt = ikeInterval - j
    /\ \E j \in Jitter : childAt = childInterval - j
    /\ lastRekey = -Cooldown
    /\ ikeBorn = 0 /\ childBorn = 0
    /\ rejected = 0 /\ peerRekeyed = 0

arm(at, interval, t) == \E j \in Jitter : at' = t + interval - j

(* A rekey during the cooldown returns nil without doing anything. *)
cooling(t) == t - lastRekey < Cooldown

(* When a timer set to that moment fires. *)
due(at) == IF at > now THEN at ELSE now

(* Time passes until t: no timer is due before. *)
reach(t) ==
    /\ t >= now /\ t <= Periods * ikeInterval
    /\ t <= due(ikeAt) /\ t <= due(childAt)
    /\ now' = t
    /\ UNCHANGED authLifetime

(* Mutant: a skipped rekey starts the cooldown again. *)
ikeSkipsCooling ==
    /\ reach(due(ikeAt))
    /\ cooling(due(ikeAt))
    /\ arm(ikeAt, ikeInterval, due(ikeAt))
    /\ lastRekey' = due(ikeAt)
    /\ UNCHANGED <<childAt, ikeBorn, childBorn, rejected, peerRekeyed>>

(* The IKE timer: success and a skipped rekey arm it alike; after an error *)
(* it is armed for a retry.                                                *)
ikeSkips ==
    /\ reach(due(ikeAt))
    /\ cooling(due(ikeAt))
    /\ arm(ikeAt, ikeInterval, due(ikeAt))
    /\ UNCHANGED <<childAt, lastRekey, ikeBorn, childBorn, rejected, peerRekeyed>>

ikeRekeys ==
    /\ reach(due(ikeAt))
    /\ ~cooling(due(ikeAt))
    /\ lastRekey' = due(ikeAt) /\ ikeBorn' = due(ikeAt)
    /\ arm(ikeAt, ikeInterval, due(ikeAt))
    /\ UNCHANGED <<childAt, childBorn, rejected, peerRekeyed>>

ikeRejected ==
    /\ reach(due(ikeAt))
    /\ ~cooling(due(ikeAt))
    /\ rejected < Rejections
    /\ rejected' = rejected + 1
    /\ ikeAt' = due(ikeAt) + Retry
    /\ UNCHANGED <<childAt, lastRekey, ikeBorn, childBorn, peerRekeyed>>

(* The child timer: the same, but an active child rekey notifies           *)
(* rekeyResetCh, so that the IKE timer is armed anew as well.              *)
childSkips ==
    /\ reach(due(childAt))
    /\ cooling(due(childAt))
    /\ arm(childAt, childInterval, due(childAt))
    /\ UNCHANGED <<ikeAt, lastRekey, ikeBorn, childBorn, rejected, peerRekeyed>>

childRekeys ==
    /\ reach(due(childAt))
    /\ ~cooling(due(childAt))
    /\ lastRekey' = due(childAt) /\ childBorn' = due(childAt)
    /\ arm(childAt, childInterval, due(childAt))
    /\ arm(ikeAt, ikeInterval, due(childAt))
    /\ UNCHANGED <<ikeBorn, rejected, peerRekeyed>>

childRejected ==
    /\ reach(due(childAt))
    /\ ~cooling(due(childAt))
    /\ rejected < Rejections
    /\ rejected' = rejected + 1
    /\ childAt' = due(childAt) + Retry
    /\ UNCHANGED <<ikeAt, lastRekey, ikeBorn, childBorn, peerRekeyed>>

(* A child rekey of the peer starts the cooldown and notifies              *)
(* childRekeyResetCh.                                                      *)
peerRekeysChild(t) ==
    /\ peerRekeyed < PeerRekeys
    /\ reach(t)
    /\ peerRekeyed' = peerRekeyed + 1
    /\ lastRekey' = t /\ childBorn' = t
    /\ arm(childAt, childInterval, t)
    /\ UNCHANGED <<ikeAt, ikeBorn, rejected>>

Next ==
    \/ ikeSkips \/ ikeRekeys \/ ikeRejected
    \/ childSkips \/ childRekeys \/ childRejected
    \/ \E d \in Slack : peerRekeysChild(due(ikeAt) - d)
                        \/ peerRekeysChild(due(childAt) - d)

Spec == Init /\ [][Next]_vars
-----------------------------------------------------------------------------
(* The shortest lifetime for which the fixed jitter and cooldown leave the *)
(* timers room.                                                            *)
LongEnough == authLifetime >= 457

(* session.go: the IKE SA is renewed before AUTH_LIFETIME runs out, as     *)
(* long as the peer rejects no rekey and starts none itself: not even the  *)
(* child timer's rekeys, which postpone the IKE timer, make it late.       *)
IKERenewedInTime ==
    LongEnough /\ rejected = 0 /\ peerRekeyed = 0 =>
        ikeAt <= ikeBorn + authLifetime

(* However short AUTH_LIFETIME is, timers that fire in the cooldown, at    *)
(* once or again and again, do not put off rekeying: while the peer        *)
(* rejects none, some SA is renewed, at the latest by the IKE timer,       *)
(* within its interval and a cooldown of the last renewal.                 *)
RekeysGoOn ==
    rejected = 0 =>
        \E born \in {ikeBorn, childBorn} :
            ikeAt <= born + Cooldown + ikeInterval
=============================================================================
