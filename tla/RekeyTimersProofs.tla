------------------------- MODULE RekeyTimersProofs -------------------------
(***************************************************************************)
(* TLAPS proofs about the rekey timers, for every AUTH_LIFETIME, any       *)
(* jitter below 30 s and any number of rejections and rekeys of the peer.  *)
(*                                                                         *)
(* That rekeying goes on rests on two facts: a timer that finds the        *)
(* cooldown running is less than a cooldown late, however often it fired,  *)
(* and the cooldown was started by a renewal (Renewals).                   *)
(*                                                                         *)
(* That the IKE SA is renewed in time needs to know how far the two timers *)
(* can drift apart: an IKE rekey leaves the child timer at most the        *)
(* difference of the intervals and 58 s behind (Drift), because a child    *)
(* timer that skipped was less than a cooldown late.                       *)
(***************************************************************************)
EXTENDS RekeyTimers, TLAPS

(* How long the longest jitter takes from an interval. *)
MaxJitter == 29

(* The intervals, apart from their definition. *)
I == ikeInterval
C == childInterval
Drift == C - I + 2 * MaxJitter

TypeOK ==
    /\ authLifetime \in Lifetimes
    /\ now \in Nat /\ ikeAt \in Int /\ childAt \in Int
    /\ lastRekey \in Int /\ ikeBorn \in Nat /\ childBorn \in Nat
    /\ rejected \in Nat /\ peerRekeyed \in Nat

Undisturbed == rejected = 0 /\ peerRekeyed = 0

(* No child rekey since the IKE SA was negotiated: the child timer either  *)
(* fires soon, or skipped (or never ran) and fires after the IKE timer.    *)
Fresh ==
    /\ lastRekey <= ikeBorn
    /\ ikeAt \in (ikeBorn + I - MaxJitter)..(ikeBorn + I)
    /\ \/ childAt <= ikeBorn + Drift
       \/ childAt \in (ikeBorn + C - MaxJitter)..(ikeBorn + C + MaxJitter)

(* A child rekey has postponed the IKE timer: both run from it. *)
Postponed ==
    /\ lastRekey \in ikeBorn..(ikeBorn + Drift)
    /\ ikeAt \in (lastRekey + I - MaxJitter)..(lastRekey + I)
    /\ childAt \in (lastRekey + C - MaxJitter)..(lastRekey + C)

(* With such a lifetime no timer is ever set to a moment that has passed.  *)
TInv ==
    /\ ikeBorn <= now /\ now <= ikeAt /\ now <= childAt
    /\ Undisturbed => Fresh \/ Postponed

(* Only a renewal starts the cooldown, and from it on the IKE timer is set *)
(* to at most one interval.                                                *)
Renewals ==
    /\ ikeBorn <= now /\ childBorn <= now
    /\ lastRekey <= ikeBorn \/ lastRekey <= childBorn
    /\ RekeysGoOn
-----------------------------------------------------------------------------
USE LifetimeAssumption, JitterAssumption, BudgetAssumption

LEMMA Intervals == TypeOK => I \in Nat /\ C \in Nat
BY DEF TypeOK, I, C, ikeInterval, childInterval

(* A timer fires when it is due, and never in the past. *)
LEMMA Due ==
    ASSUME TypeOK, NEW at \in Int
    PROVE  due(at) \in Nat /\ due(at) >= at /\ due(at) >= now
BY DEF due, TypeOK

(* The lifetime announced in IKE_AUTH stays, and the intervals with it. *)
LEMMA SameIntervals ==
    ASSUME [Next]_vars
    PROVE  authLifetime' = authLifetime /\ I' = I /\ C' = C
BY DEF Next, vars, reach, ikeSkips, ikeRekeys, ikeRejected, childSkips,
       childRekeys, childRejected, peerRekeysChild, I, C, ikeInterval,
       childInterval

(* arm sets a timer to at most an interval from t, and at least an         *)
(* interval without the jitter.                                            *)
LEMMA Armed ==
    ASSUME NEW t \in Int, NEW interval \in Int, NEW j \in Jitter
    PROVE  /\ t + interval - j \in Int
           /\ t + interval - j \in (t + interval - MaxJitter)..(t + interval)
BY DEF MaxJitter

LEMMA InitTypeOK == Init => TypeOK
<1> SUFFICES ASSUME Init PROVE TypeOK
  OBVIOUS
<1>1. ikeInterval \in Nat /\ childInterval \in Nat
  BY DEF Init, ikeInterval, childInterval
<1> QED
  BY <1>1 DEF Init, TypeOK, Cooldown

(* Every step leaves the clock, the timers and the budgets numbers.        *)
LEMMA StepTypeOK == TypeOK /\ [Next]_vars => TypeOK'
<1> SUFFICES ASSUME TypeOK, [Next]_vars PROVE TypeOK'
  OBVIOUS
<1> USE Intervals DEF I, C
<1>d. /\ due(ikeAt) \in Nat /\ due(childAt) \in Nat
      /\ now \in Nat /\ ikeAt \in Int /\ childAt \in Int
  BY Due DEF TypeOK
<1>1. CASE ikeSkips
  BY <1>1, <1>d, Armed DEF TypeOK, ikeSkips, reach, arm
<1>2. CASE ikeRekeys
  BY <1>2, <1>d, Armed DEF TypeOK, ikeRekeys, reach, arm
<1>3. CASE ikeRejected
  BY <1>3, <1>d DEF TypeOK, ikeRejected, reach, Retry
<1>4. CASE childSkips
  BY <1>4, <1>d, Armed DEF TypeOK, childSkips, reach, arm
<1>5. CASE childRekeys
  BY <1>5, <1>d, Armed DEF TypeOK, childRekeys, reach, arm
<1>6. CASE childRejected
  BY <1>6, <1>d DEF TypeOK, childRejected, reach, Retry
<1>7. ASSUME NEW t \in Int, peerRekeysChild(t)
      PROVE  TypeOK'
  BY <1>7, Armed DEF TypeOK, peerRekeysChild, reach, arm
<1>8. CASE UNCHANGED vars
  BY <1>8 DEF TypeOK, vars
<1>9. \A d \in Slack : due(ikeAt) - d \in Int /\ due(childAt) - d \in Int
  BY <1>d, JitterAssumption
<1> QED
  BY <1>1, <1>2, <1>3, <1>4, <1>5, <1>6, <1>7, <1>8, <1>9 DEF Next

(* The clock, the due times and the budgets are numbers at every event. *)
THEOREM TimersTypeCorrect == Spec => []TypeOK
BY InitTypeOK, StepTypeOK, PTL DEF Spec

-----------------------------------------------------------------------------
(* A renewal moves the bound on; a skipped one starts less than a cooldown *)
(* after the last renewal, and waits one interval at most.                 *)
LEMMA StepRenewals ==
    ASSUME TypeOK, Renewals, [Next]_vars
    PROVE  Renewals'
<1> USE Intervals DEF I, C
<1>d. /\ due(ikeAt) \in Nat /\ due(ikeAt) >= now /\ due(ikeAt) >= ikeAt
      /\ due(childAt) \in Nat /\ due(childAt) >= now
      /\ ikeInterval \in Nat /\ ikeInterval' = ikeInterval
  BY Due, SameIntervals DEF TypeOK
<1> USE <1>d DEF TypeOK, Renewals, RekeysGoOn, reach
<1>1. CASE ikeSkips
  <2>1. /\ UNCHANGED <<lastRekey, ikeBorn, childBorn, rejected>>
        /\ now' = due(ikeAt)
        /\ due(ikeAt) < lastRekey + Cooldown
    BY <1>1 DEF ikeSkips, cooling, Cooldown
  <2>2. ikeAt' <= due(ikeAt) + ikeInterval /\ ikeAt' \in Int
    BY <1>1, Armed DEF ikeSkips, arm
  <2>3. \E born \in {ikeBorn, childBorn} : ikeAt' <= born + Cooldown + ikeInterval
    BY <2>1, <2>2 DEF Cooldown
  <2> QED
    BY <2>1, <2>3
<1>2. CASE ikeRekeys
  <2>1. /\ lastRekey' = ikeBorn' /\ ikeBorn' = due(ikeAt) /\ now' = ikeBorn'
        /\ childBorn' = childBorn
    BY <1>2 DEF ikeRekeys
  <2>2. ikeAt' <= ikeBorn' + ikeInterval /\ ikeAt' \in Int
    BY <1>2, <2>1, Armed DEF ikeRekeys, arm
  <2> QED
    BY <2>1, <2>2 DEF Cooldown
<1>3. CASE ikeRejected
  BY <1>3, BudgetAssumption DEF ikeRejected
<1>4. CASE childSkips
  BY <1>4 DEF childSkips
<1>5. CASE childRekeys
  <2>1. /\ lastRekey' = childBorn' /\ childBorn' = due(childAt)
        /\ now' = childBorn' /\ ikeBorn' = ikeBorn
    BY <1>5 DEF childRekeys
  <2>2. PICK j \in Jitter : ikeAt' = childBorn' + ikeInterval - j
    BY <1>5, <2>1 DEF childRekeys, arm
  <2>3. ikeAt' <= childBorn' + ikeInterval /\ ikeAt' \in Int
    BY <2>1, <2>2, JitterAssumption
  <2> QED
    BY <2>1, <2>3 DEF Cooldown
<1>6. CASE childRejected
  BY <1>6 DEF childRejected
<1>7. ASSUME NEW t \in Int, peerRekeysChild(t)
      PROVE  Renewals'
  BY <1>7 DEF peerRekeysChild, Cooldown
<1>8. CASE UNCHANGED vars
  BY <1>8 DEF vars
<1>9. \A d \in Slack : due(ikeAt) - d \in Int /\ due(childAt) - d \in Int
  BY JitterAssumption
<1> QED
  BY <1>1, <1>2, <1>3, <1>4, <1>5, <1>6, <1>7, <1>8, <1>9 DEF Next

(* startIKESARekeyTimer and startChildSARekeyTimer go on renewing for      *)
(* every AUTH_LIFETIME, also where interval minus jitter lies in the past  *)
(* and the timers fire at once: skipped rekeys put the next one off by a   *)
(* cooldown and an interval together, whatever the peer rekeys.            *)
THEOREM RekeyingGoesOn == Spec => []RekeysGoOn
<1>1. Init => Renewals
  <2> SUFFICES ASSUME Init PROVE Renewals
    OBVIOUS
  <2>1. PICK j \in Jitter : ikeAt = ikeInterval - j
    BY DEF Init
  <2>2. ikeInterval \in Nat
    BY InitTypeOK, Intervals DEF I
  <2> QED
    BY <2>1, <2>2 DEF Init, Renewals, RekeysGoOn, Cooldown
<1>2. TypeOK /\ Renewals /\ [Next]_vars => Renewals'
  BY StepRenewals
<1>3. Renewals => RekeysGoOn
  BY DEF Renewals
<1> QED
  BY <1>1, <1>2, <1>3, TimersTypeCorrect, PTL DEF Spec
-----------------------------------------------------------------------------
(* With an AUTH_LIFETIME this long, the intervals are far enough apart     *)
(* that a child timer which ran from the same moment fires after the IKE   *)
(* timer, and close enough together that the IKE SA, postponed once by a   *)
(* child rekey, still lives.                                               *)
LEMMA IntervalsFit ==
    ASSUME TypeOK, LongEnough
    PROVE  /\ I < C - MaxJitter
           /\ Drift < I - MaxJitter
           /\ Drift + I <= authLifetime
           /\ I > Cooldown + MaxJitter
BY DEF TypeOK, LongEnough, I, C, Drift, ikeInterval, childInterval, MaxJitter, Cooldown

(* The first round of the timers is fresh. *)
LEMMA InitTInv == LongEnough /\ Init => TInv
<1> SUFFICES ASSUME LongEnough, Init
             PROVE  Fresh /\ ikeBorn <= now /\ now <= ikeAt /\ now <= childAt
  BY DEF TInv
<1>1. PICK j \in Jitter : ikeAt = I - j
  BY DEF Init, I
<1>2. PICK k \in Jitter : childAt = C - k
  BY DEF Init, C
<1>3. ikeBorn = 0 /\ now = 0 /\ lastRekey <= 0
  BY DEF Init, Cooldown
<1> QED
  BY <1>1, <1>2, <1>3, InitTypeOK, Intervals, IntervalsFit
     DEF Fresh, MaxJitter, Cooldown

(* No timer fires late. *)
LEMMA OnTime ==
    ASSUME TypeOK, TInv
    PROVE  due(ikeAt) = ikeAt /\ due(childAt) = childAt
BY DEF TypeOK, TInv, due

(* The IKE timer is never in a cooldown, and the child SA is not rekeyed   *)
(* again before the IKE SA is.                                             *)
LEMMA TimerOrder ==
    ASSUME LongEnough, TypeOK, TInv, Undisturbed
    PROVE  /\ ~cooling(ikeAt)
           /\ Postponed => ~(childAt <= ikeAt)
BY Intervals, IntervalsFit
   DEF TypeOK, TInv, Fresh, Postponed, cooling, Cooldown, MaxJitter, Drift

(* A timer is armed for later, and the other one has not fired yet.        *)
LEMMA TimersAhead ==
    ASSUME LongEnough, TypeOK, TInv, [Next]_vars
    PROVE  /\ ikeBorn' <= now' /\ now' <= ikeAt' /\ now' <= childAt'
<1> USE Intervals, IntervalsFit, OnTime
    DEF TypeOK, TInv, reach, arm, MaxJitter, Cooldown, I, C, Retry
<1>1. CASE ikeSkips
  BY <1>1, Armed DEF ikeSkips
<1>2. CASE ikeRekeys
  BY <1>2, Armed DEF ikeRekeys
<1>3. CASE ikeRejected
  BY <1>3 DEF ikeRejected
<1>4. CASE childSkips
  BY <1>4, Armed DEF childSkips
<1>5. CASE childRekeys
  <2>1. PICK j \in Jitter : childAt' = childAt + C - j
    BY <1>5 DEF childRekeys
  <2>2. PICK k \in Jitter : ikeAt' = childAt + I - k
    BY <1>5 DEF childRekeys
  <2> QED
    BY <1>5, <2>1, <2>2 DEF childRekeys
<1>6. CASE childRejected
  BY <1>6 DEF childRejected
<1>7. ASSUME NEW t \in Int, peerRekeysChild(t)
      PROVE  ikeBorn' <= now' /\ now' <= ikeAt' /\ now' <= childAt'
  BY <1>7, Armed DEF peerRekeysChild
<1>8. CASE UNCHANGED vars
  BY <1>8 DEF vars
<1>9. \A d \in Slack : due(ikeAt) - d \in Int /\ due(childAt) - d \in Int
  BY JitterAssumption
<1> QED
  BY <1>1, <1>2, <1>3, <1>4, <1>5, <1>6, <1>7, <1>8, <1>9 DEF Next

LEMMA StepTInv ==
    ASSUME LongEnough, TypeOK, TInv, [Next]_vars
    PROVE  TInv'
<1> USE Intervals, IntervalsFit
<1>s. I' = I /\ C' = C /\ Drift' = Drift
  BY SameIntervals DEF Drift, MaxJitter
<1>d. due(ikeAt) = ikeAt /\ due(childAt) = childAt
  BY OnTime
<1>a. TInv' <=> (Undisturbed' => Fresh' \/ Postponed')
  BY TimersAhead DEF TInv
<1>1. CASE Undisturbed' /\ ikeSkips
  BY <1>1, <1>d, TimerOrder DEF ikeSkips, Undisturbed
<1>2. CASE Undisturbed' /\ ikeRekeys
  <2>1. Undisturbed
    BY <1>2 DEF ikeRekeys, Undisturbed
  <2>2. /\ lastRekey' = ikeAt /\ ikeBorn' = ikeAt /\ now' = ikeAt
        /\ childAt' = childAt /\ ikeAt <= childAt
    BY <1>2, <1>d DEF ikeRekeys, reach
  <2>3. ikeAt' \in (ikeAt + I - MaxJitter)..(ikeAt + I)
    BY <1>2, <1>d, Armed DEF ikeRekeys, arm, TypeOK, I
  <2>4. childAt <= ikeAt + Drift
    BY <2>1, <2>2 DEF TypeOK, TInv, Fresh, Postponed, Drift, MaxJitter
  <2> QED
    BY <1>s, <1>a, <2>2, <2>3, <2>4 DEF Fresh, TypeOK
<1>3. CASE Undisturbed' /\ ikeRejected
  BY <1>3, BudgetAssumption DEF ikeRejected, Undisturbed, TypeOK
<1>4. CASE Undisturbed' /\ childSkips
  <2>1. Undisturbed
    BY <1>4 DEF childSkips, Undisturbed
  <2>2. /\ UNCHANGED <<ikeAt, lastRekey, ikeBorn>> /\ now' = childAt
        /\ now <= childAt /\ childAt <= ikeAt
    BY <1>4, <1>d DEF childSkips, reach
  <2>3. Fresh
    BY <2>1, <2>2, TimerOrder DEF TInv
  <2>4. childAt \in ikeBorn..(ikeBorn + MaxJitter)
    BY <1>4, <1>d, <2>2, <2>3 DEF childSkips, cooling, Cooldown, MaxJitter,
       Fresh, TypeOK, TInv
  <2>5. childAt' \in (childAt + C - MaxJitter)..(childAt + C)
    BY <1>4, <1>d, Armed DEF childSkips, arm, TypeOK, C
  <2> QED
    BY <1>s, <1>a, <2>2, <2>3, <2>4, <2>5 DEF Fresh, TypeOK, MaxJitter
<1>5. CASE Undisturbed' /\ childRekeys
  <2>1. Undisturbed
    BY <1>5 DEF childRekeys, Undisturbed
  <2>2. /\ lastRekey' = childAt /\ ikeBorn' = ikeBorn /\ now' = childAt
        /\ now <= childAt /\ childAt <= ikeAt
    BY <1>5, <1>d DEF childRekeys, reach
  <2>3. Fresh
    BY <2>1, <2>2, TimerOrder DEF TInv
  <2>4. childAt <= ikeBorn + Drift /\ ikeBorn <= childAt
    BY <2>2, <2>3 DEF Fresh, TypeOK, MaxJitter, Drift, TInv
  <2>5. /\ childAt' \in (childAt + C - MaxJitter)..(childAt + C)
        /\ ikeAt' \in (childAt + I - MaxJitter)..(childAt + I)
    <3>1. PICK j \in Jitter : childAt' = childAt + C - j
      BY <1>5, <1>d DEF childRekeys, arm, C
    <3>2. PICK k \in Jitter : ikeAt' = childAt + I - k
      BY <1>5, <1>d DEF childRekeys, arm, I
    <3> QED
      BY <3>1, <3>2 DEF TypeOK, MaxJitter
  <2> QED
    BY <1>s, <1>a, <2>2, <2>4, <2>5 DEF Postponed, TypeOK
<1>6. CASE Undisturbed' /\ childRejected
  BY <1>6, BudgetAssumption DEF childRejected, Undisturbed, TypeOK
<1>7. ASSUME Undisturbed', NEW t \in Int, peerRekeysChild(t)
      PROVE  FALSE
  BY <1>7, BudgetAssumption DEF peerRekeysChild, Undisturbed, TypeOK
<1>8. CASE Undisturbed' /\ UNCHANGED vars
  BY <1>s, <1>a, <1>8 DEF vars, TInv, Undisturbed, Fresh, Postponed
<1>9. \A d \in Slack : due(ikeAt) - d \in Int /\ due(childAt) - d \in Int
  BY <1>d, JitterAssumption DEF TypeOK
<1> QED
  BY <1>a, <1>1, <1>2, <1>3, <1>4, <1>5, <1>6, <1>7, <1>8, <1>9 DEF Next

(* startIKESARekeyTimer renews the IKE SA before AUTH_LIFETIME runs out,   *)
(* although child rekeys postpone it, if AUTH_LIFETIME is at least 457 s:  *)
(* with 456 s a child timer that skipped late and an IKE timer with the    *)
(* longest jitter miss it by a second.                                     *)
THEOREM IKESARenewed == Spec => []IKERenewedInTime
<1> DEFINE Inv == LongEnough => TInv
<1>1. Init => Inv
  BY InitTInv
<1>2. TypeOK /\ Inv /\ [Next]_vars => Inv'
  <2> SUFFICES ASSUME TypeOK, Inv, [Next]_vars, LongEnough' PROVE TInv'
    OBVIOUS
  <2>1. LongEnough
    BY SameIntervals DEF LongEnough
  <2> QED
    BY <2>1, StepTInv
<1>3. TypeOK /\ Inv => IKERenewedInTime
  BY Intervals, IntervalsFit
     DEF TypeOK, TInv, Fresh, Postponed, Undisturbed, IKERenewedInTime, Drift,
         MaxJitter
<1> QED
  BY <1>1, <1>2, <1>3, TimersTypeCorrect, PTL DEF Spec
=============================================================================
