--------------------------- MODULE SelectorProofs ---------------------------
(***************************************************************************)
(* What the Selector guarantees for every set of sources, every reading    *)
(* they may show and every limit. The failover latch, for every mode,      *)
(* every pair of delays and every pattern of passes, and that the whole    *)
(* pass of Selector::combine implements it; the wait of a refused source;  *)
(* what the intersection and the combination of any number of candidates   *)
(* give; that honest sources make an honest clock; and that a majority of  *)
(* honest receivers is never refused (Failover, Agreement, Intersection,   *)
(* Selector, MCSelector, MCJudgement).                                     *)
(***************************************************************************)
EXTENDS MCSelector, MCJudgement, FiniteSetTheorems, WellFoundedInduction, TLAPS

(* A timer that runs was started by the first pass of the current run of   *)
(* verdicts; the code keeps it at 0 otherwise.                             *)
TimersFollowRun ==
  /\ runFrom <= now
  /\ runFrom = 0 => primaryLostSince = 0 /\ primaryHealthySince = 0
  /\ runFrom > 0 /\ runUsable => primaryHealthySince = runFrom /\ primaryLostSince = 0
  /\ runFrom > 0 /\ ~runUsable => primaryLostSince = runFrom /\ primaryHealthySince = 0

(* Where the latch stands says how long ago the last failover was: while   *)
(* on the secondary a healthy run began after it, and once back, the       *)
(* failback interval lies between it and any later outage.                 *)
FailoverHistory ==
  /\ failedOverAt <= now
  /\ runFrom = 0 => failedOverAt = 0
  /\ onSecondary => SecondaryMode # "always" /\ failedOverAt > 0
                      /\ (runUsable => runFrom >= failedOverAt)
  /\ ~onSecondary /\ failedOverAt > 0 =>
       IF runUsable THEN now >= failedOverAt + FailbackAfter
                    ELSE runFrom >= failedOverAt + FailbackAfter

FailoverInv == FailoverTypeOK /\ now <= MaxNow /\ TimersFollowRun /\ FailoverHistory

LEMMA SleepFact ==
  ASSUME now \in Nat \ {0}, now <= MaxNow, Sleep
  PROVE  now' \in Nat \ {0} /\ now <= now' /\ now' <= MaxNow
  BY MaxNowAssumption DEF Sleep

(* A pass moves the timers together with the run they belong to.           *)
LEMMA TimersStep ==
  ASSUME NEW u \in BOOLEAN, NEW s \in BOOLEAN, FailoverInv, ClassStep(u, s)
  PROVE  /\ runUsable' = u /\ runFrom' \in Nat /\ runFrom' > 0 /\ runFrom' <= now
         /\ u => primaryHealthySince' = runFrom' /\ primaryLostSince' = 0
                   /\ HealthyFor(u) = now - runFrom' /\ LostFor(u) = 0
         /\ ~u => primaryLostSince' = runFrom' /\ primaryHealthySince' = 0
                   /\ LostFor(u) = now - runFrom' /\ HealthyFor(u) = 0
  BY DEF FailoverInv, FailoverTypeOK, TimersFollowRun, ClassStep, LostSince, HealthySince,
         LostFor, HealthyFor

LEMMA FailoverInvInit == FailoverInit => FailoverInv
<1> SUFFICES ASSUME FailoverInit PROVE FailoverInv
  OBVIOUS
<1>1. onSecondary \in BOOLEAN /\ secondaryActive \in BOOLEAN /\ runUsable \in BOOLEAN
  BY Zenon DEF FailoverInit
<1>2. /\ now = 1 /\ onSecondary = FALSE /\ primaryLostSince = 0 /\ primaryHealthySince = 0
      /\ runFrom = 0 /\ failedOverAt = 0
  BY DEF FailoverInit, ClockInit
<1> QED BY <1>1, <1>2, MaxNowAssumption
           DEF FailoverInv, FailoverTypeOK, TimersFollowRun, FailoverHistory

LEMMA FailoverInvStep == FailoverInv /\ [FailoverNext]_clockedFailoverVars => FailoverInv'
<1> SUFFICES ASSUME FailoverInv, [FailoverNext]_clockedFailoverVars PROVE FailoverInv'
  OBVIOUS
<1>1. CASE UNCHANGED clockedFailoverVars
  BY <1>1 DEF clockedFailoverVars, failoverVars, FailoverInv, FailoverTypeOK, TimersFollowRun,
              FailoverHistory
<1>2. CASE FailoverNext
  <2> PICK u \in BOOLEAN, s \in BOOLEAN : ClassStep(u, s)
    BY <1>2 DEF FailoverNext
  <2>1. now' \in Nat \ {0} /\ now <= now' /\ now' <= MaxNow
    BY <1>2, SleepFact DEF FailoverNext, FailoverInv, FailoverTypeOK
  <2>2. /\ runUsable' = u /\ runFrom' \in Nat /\ runFrom' > 0 /\ runFrom' <= now
        /\ u => primaryHealthySince' = runFrom' /\ primaryLostSince' = 0
                  /\ HealthyFor(u) = now - runFrom' /\ LostFor(u) = 0
        /\ ~u => primaryLostSince' = runFrom' /\ primaryHealthySince' = 0
                  /\ LostFor(u) = now - runFrom' /\ HealthyFor(u) = 0
    BY TimersStep
  <2>3. FailoverTypeOK'
    BY <2>1, <2>2 DEF FailoverInv, FailoverTypeOK, ClassStep, OnSecondary, SecondaryActive
  <2>4. TimersFollowRun'
    BY <2>1, <2>2 DEF FailoverInv, FailoverTypeOK, TimersFollowRun
  <2>5. FailoverHistory'
    BY <2>1, <2>2, DelayAssumption
       DEF FailoverInv, FailoverTypeOK, TimersFollowRun, FailoverHistory, ClassStep, OnSecondary
  <2> QED BY <2>1, <2>3, <2>4, <2>5 DEF FailoverInv
<1> QED BY <1>1, <1>2

(* The inductive invariant holds in every reachable state.                 *)
THEOREM FailoverInvariant == FailoverSpec => []FailoverInv
  BY FailoverInvInit, FailoverInvStep, PTL DEF FailoverSpec

(* Every variable of the latch keeps its type, whatever the constants.     *)
THEOREM FailoverTypeCorrect == FailoverSpec => []FailoverTypeOK
  BY FailoverInvariant, PTL DEF FailoverInv

-----------------------------------------------------------------------------
(* The latch moves only on a condition that held for the whole hold-down.  *)
THEOREM HoldDownHolds == FailoverSpec => HoldDown
<1>1. FailoverInv /\ [FailoverNext]_clockedFailoverVars =>
        [/\ ~onSecondary /\ onSecondary' => ~runUsable' /\ now - runFrom' >= FailoverAfter
         /\ onSecondary /\ ~onSecondary' => runUsable' /\ now - runFrom' >= FailbackAfter
        ]_clockedFailoverVars
  BY TimersStep DEF FailoverNext, ClassStep, OnSecondary, FailoverInv, FailoverHistory
<1> QED BY <1>1, FailoverInvariant, PTL DEF FailoverSpec, HoldDown

(* Between two failovers lie both hold-downs: a flapping primary cannot    *)
(* turn into a sawtooth on the clients.                                    *)
THEOREM SwitchSpacingHolds == FailoverSpec => SwitchSpacing
<1>1. FailoverInv /\ [FailoverNext]_clockedFailoverVars =>
        [(failedOverAt > 0 /\ failedOverAt' # failedOverAt) =>
            failedOverAt' - failedOverAt >= FailoverAfter + FailbackAfter]_clockedFailoverVars
  <2> SUFFICES ASSUME FailoverInv, FailoverNext, failedOverAt > 0, failedOverAt' # failedOverAt
               PROVE  failedOverAt' - failedOverAt >= FailoverAfter + FailbackAfter
    OBVIOUS
  <2> PICK u \in BOOLEAN, s \in BOOLEAN : ClassStep(u, s)
    BY DEF FailoverNext
  <2>1. ~onSecondary /\ ~u /\ failedOverAt' = now /\ now - runFrom' >= FailoverAfter
    BY TimersStep DEF ClassStep, OnSecondary
  <2>2. runFrom' >= failedOverAt + FailbackAfter
    BY <2>1, TimersStep, DelayAssumption
       DEF FailoverInv, FailoverTypeOK, FailoverHistory, TimersFollowRun, ClassStep
  <2> QED BY <2>1, <2>2, TimersStep, DelayAssumption DEF FailoverInv, FailoverTypeOK
<1> QED BY <1>1, FailoverInvariant, PTL DEF FailoverSpec, SwitchSpacing

(* A primary that has proved itself serves: the hysteresis is no one-way   *)
(* door.                                                                   *)
THEOREM NotOneWayHolds == FailoverSpec => NotOneWay
<1>1. FailoverInv /\ [FailoverNext]_clockedFailoverVars =>
        [runUsable' /\ now - runFrom' >= FailbackAfter => ~onSecondary']_clockedFailoverVars
  BY TimersStep DEF FailoverNext, ClassStep, OnSecondary
<1> QED BY <1>1, FailoverInvariant, PTL DEF FailoverSpec, NotOneWay

(* A standby that is up is held until the primary has proved itself, and   *)
(* is up whenever it serves.                                               *)
THEOREM StandbyHeldHolds == FailoverSpec => StandbyHeld
<1>1. FailoverInv /\ [FailoverNext]_clockedFailoverVars =>
        [/\ onSecondary' => secondaryActive'
         /\ secondaryActive /\ ~secondaryActive' =>
              runUsable' /\ now - runFrom' >= FailbackAfter]_clockedFailoverVars
  <2> SUFFICES ASSUME FailoverInv, FailoverNext
               PROVE  /\ onSecondary' => secondaryActive'
                      /\ secondaryActive /\ ~secondaryActive' =>
                           runUsable' /\ now - runFrom' >= FailbackAfter
    OBVIOUS
  <2> PICK u \in BOOLEAN, s \in BOOLEAN : ClassStep(u, s)
    BY DEF FailoverNext
  <2>1. secondaryActive' <=> SecondaryActive(u, onSecondary')
    BY Zenon DEF ClassStep, SecondaryActive
  <2>2. onSecondary' => secondaryActive'
    BY <2>1 DEF SecondaryActive
  <2>3. ASSUME secondaryActive, ~secondaryActive' PROVE u /\ ~(HealthyFor(u) < FailbackAfter)
    BY <2>1, <2>3 DEF SecondaryActive
  <2>4. u => HealthyFor(u) = now - runFrom' /\ runFrom' \in Nat /\ runUsable' = u
    BY TimersStep
  <2> QED BY <2>2, <2>3, <2>4, DelayAssumption DEF FailoverInv, FailoverTypeOK
<1> QED BY <1>1, FailoverInvariant, PTL DEF FailoverSpec, StandbyHeld

(* The latch neither flaps nor sticks, for every mode, every pair of       *)
(* delays and every pattern of passes.                                     *)
THEOREM HysteresisHolds == FailoverSpec => Hysteresis
  BY HoldDownHolds, SwitchSpacingHolds, NotOneWayHolds, StandbyHeldHolds DEF Hysteresis
-----------------------------------------------------------------------------
(* Whatever a pass makes of its candidates, what it does to the latch is   *)
(* to tell it of both classes.                                             *)
LEMMA CombineIsClassStep ==
  ASSUME NEW snap, Combine(snap), Sleep
  PROVE  FailoverNext
<1>1. \E u, s \in BOOLEAN : ClassStep(u, s)
  BY Zenon DEF Combine
<1> QED
  BY <1>1 DEF FailoverNext

(* Every pass of Selector::combine, with its eligibility, agreement and    *)
(* intersection, moves the latch as the latch alone is allowed to.         *)
THEOREM SelectorImplementsFailover == Spec => FailoverSpec
<1>1. Init => FailoverInit
  BY DEF Init, SelectorInit
<1>2. [Next]_vars => [FailoverNext]_clockedFailoverVars
  <2>1. Next => \E snap : Combine(snap) /\ Sleep
    BY Zenon DEF Next
  <2>2. UNCHANGED vars => UNCHANGED clockedFailoverVars
    BY DEF vars, selectorVars, clockedFailoverVars
  <2> QED
    BY <2>1, <2>2, CombineIsClassStep
<1> QED
  BY <1>1, <1>2, PTL DEF Spec, FailoverSpec

(* The serving class does not flap: the hold-downs, the spacing of         *)
(* failovers, the way back and the standby that is held are those of the   *)
(* latch, for everything the sources may do.                               *)
THEOREM SelectorHysteresis == Spec => Hysteresis
  BY SelectorImplementsFailover, HysteresisHolds, PTL
-----------------------------------------------------------------------------
(* The wait of a refused source.  Its timer was started by the refusal the *)
(* history remembers, after an average that was begun since the last order *)
(* had settled; an order leaves neither average nor timer.                 *)
TimerOf(s) ==
  /\ residual[s].firstAt \in Nat
  /\ reacquire[s] \in [since : Nat, count : Nat] /\ reacquire[s].since <= now
  /\ orderedAt[s] \in Nat /\ orderedAt[s] <= now /\ (orderedAt[s] < now \/ now = MaxNow)
  /\ refusedFrom[s] = reacquire[s].since
  /\ residual[s].seeded => orderedAt[s] < residual[s].firstAt \/ residual[s].firstAt = MaxNow
  /\ reacquire[s].since > 0 => /\ residual[s].seeded
                               /\ residual[s].firstAt + Settle <= reacquire[s].since

AgreementInv ==
  /\ now \in Nat /\ 0 < now /\ now <= MaxNow
  /\ \A s \in Sources : TimerOf(s)

LEMMA WaitInt == ASSUME NEW count \in Nat PROVE Wait(count) \in Int
<1>1. 2^count \in Int
  OBVIOUS
<1>2. \A a, b \in Int : a * b \in Int
  OBVIOUS
<1>3. ReacquireAfter * 2^count \in Int
  BY <1>1, <1>2, AgreementAssumption
<1> QED BY <1>3, AgreementAssumption DEF Wait

LEMMA AgreementInvInit == ClockInit /\ AgreementInit => AgreementInv
<1> SUFFICES ASSUME ClockInit, AgreementInit, NEW s \in Sources PROVE TimerOf(s)
  BY MaxNowAssumption DEF ClockInit, AgreementInv
<1>1. residual[s] = Unmeasured /\ reacquire[s] = [since |-> 0, count |-> 0]
  BY DEF AgreementInit
<1>2. ~residual[s].seeded /\ residual[s].firstAt = 0
  BY <1>1 DEF Unmeasured
<1>3. reacquire[s].since = 0 /\ reacquire[s] \in [since : Nat, count : Nat]
  BY <1>1
<1>4. orderedAt[s] = 0 /\ refusedFrom[s] = 0 /\ now = 1
  BY DEF AgreementInit, ClockInit
<1> QED BY <1>2, <1>3, <1>4 DEF TimerOf

(* What one pass does to one source, by the verdict on it.                 *)
Ordered(s) ==
  /\ s \in refused' /\ s \in reacquired' /\ StartOver(s)
  /\ residual'[s] = Unmeasured
  /\ reacquire'[s] = [since |-> 0, count |-> reacquire[s].count + 1]
  /\ orderedAt'[s] = now /\ refusedFrom'[s] = 0

Averaged(C, s) ==
  /\ residual'[s].seeded <=> (residual[s].seeded \/ Enough(C))
  /\ residual'[s].firstAt = FirstAt(C, s)

Kept(s) == s \notin reacquired' /\ orderedAt'[s] = orderedAt[s]

Waits(C, s) ==
  /\ Averaged(C, s) /\ Kept(s) /\ s \in refused' /\ ~StartOver(s)
  /\ reacquire'[s] = [reacquire[s] EXCEPT !.since = RefusedSince(s)]
  /\ refusedFrom'[s] = IF refusedFrom[s] = 0 THEN now ELSE refusedFrom[s]

Accepted(C, s) ==
  /\ Averaged(C, s) /\ Kept(s) /\ s \notin refused'
  /\ reacquire'[s] = [since |-> 0, count |-> 0] /\ refusedFrom'[s] = 0

Unjudged(C, s) ==
  /\ Averaged(C, s) /\ Kept(s) /\ s \notin refused'
  /\ reacquire'[s] = reacquire[s] /\ refusedFrom'[s] = refusedFrom[s]

Unseen(s) ==
  /\ residual'[s] = residual[s] /\ Kept(s) /\ s \notin refused'
  /\ reacquire'[s] = reacquire[s] /\ refusedFrom'[s] = refusedFrom[s]

LEMMA VerdictFact ==
  ASSUME NEW P, NEW S, NEW off, Judge(P, S, off), NEW s \in Sources
  PROVE  \/ Unseen(s)
         \/ \E C : \/ Judged(C, s) /\ Ordered(s)
                   \/ Judged(C, s) /\ Waits(C, s)
                   \/ Judged(C, s) /\ Accepted(C, s)
                   \/ ~Judged(C, s) /\ Unjudged(C, s)
<1> DEFINE Class(t) == IF t \in P THEN P ELSE S
           All == P \union S
           C == Class(s)
<1>1. PICK avg :
       /\ refused' = {t \in All : Refused(Class(t), t, avg[t])}
       /\ reacquired' = {t \in refused' : StartOver(t)}
       /\ residual' = [t \in Sources |->
            IF t \in All THEN Residual(Class(t), t, avg[t]) ELSE residual[t]]
       /\ reacquire' = [t \in Sources |->
            IF t \in All THEN Reacquire(Class(t), t, avg[t]) ELSE reacquire[t]]
       /\ orderedAt' = [t \in Sources |-> IF t \in reacquired' THEN now ELSE orderedAt[t]]
       /\ refusedFrom' = [t \in Sources |->
            CASE t \in reacquired' \/ (t \in All /\ Judged(Class(t), t) /\ t \notin refused') -> 0
              [] t \in refused' \ reacquired' /\ refusedFrom[t] = 0 -> now
              [] OTHER -> refusedFrom[t]]
  BY Zenon DEF Judge
<1> DEFINE a == avg[s]
<1>2. /\ s \in refused' <=> s \in All /\ Refused(C, s, a)
      /\ s \in reacquired' <=> s \in All /\ Refused(C, s, a) /\ StartOver(s)
  BY <1>1, Zenon
<1>3. /\ residual'[s] = IF s \in All THEN Residual(C, s, a) ELSE residual[s]
      /\ reacquire'[s] = IF s \in All THEN Reacquire(C, s, a) ELSE reacquire[s]
      /\ orderedAt'[s] = IF s \in reacquired' THEN now ELSE orderedAt[s]
      /\ refusedFrom'[s] =
            CASE s \in reacquired' \/ (s \in All /\ Judged(C, s) /\ s \notin refused') -> 0
              [] s \in refused' \ reacquired' /\ refusedFrom[s] = 0 -> now
              [] OTHER -> refusedFrom[s]
  BY <1>1, Zenon
<1> HIDE DEF All, C, a, Class
<1>4. Refused(C, s, a) => Judged(C, s)
  BY Zenon DEF Refused
<1>5. ASSUME s \in All, ~(Refused(C, s, a) /\ StartOver(s)) PROVE Averaged(C, s)
  <2>1. residual'[s] = [seeded |-> residual[s].seeded \/ Enough(C), avg |-> a,
                        lastAt |-> now, firstAt |-> FirstAt(C, s)]
    BY <1>3, <1>5, Zenon DEF Residual
  <2>2. /\ residual'[s].seeded = (residual[s].seeded \/ Enough(C))
        /\ residual'[s].firstAt = FirstAt(C, s)
    BY <2>1
  <2> QED BY <2>2, Zenon DEF Averaged
<1>6. CASE s \notin All
  BY <1>2, <1>3, <1>6, Zenon DEF Unseen, Kept
<1>7. CASE s \in All /\ Refused(C, s, a) /\ StartOver(s)
  BY <1>2, <1>3, <1>4, <1>7, Zenon DEF Ordered, Residual, Reacquire
<1>8. CASE s \in All /\ Refused(C, s, a) /\ ~StartOver(s)
  BY <1>2, <1>3, <1>4, <1>5, <1>8, Zenon DEF Waits, Kept, Reacquire
<1>9. CASE s \in All /\ ~Refused(C, s, a) /\ Judged(C, s)
  BY <1>2, <1>3, <1>5, <1>9, Zenon DEF Accepted, Kept, Reacquire
<1>10. CASE s \in All /\ ~Refused(C, s, a) /\ ~Judged(C, s)
  BY <1>2, <1>3, <1>5, <1>10, Zenon DEF Unjudged, Kept, Reacquire
<1> QED BY <1>6, <1>7, <1>8, <1>9, <1>10, Zenon

LEMMA RefusedFact ==
  ASSUME NEW P, NEW S, NEW off, Judge(P, S, off)
  PROVE  refused' \subseteq P \union S /\ reacquired' \subseteq refused'
  BY Zenon DEF Judge

(* What a verdict does to the timer of one source, and when an order or a  *)
(* further wait can be its outcome.                                        *)
LEMMA TimerStep ==
  ASSUME AgreementInv, now' \in Nat, now <= now', now' <= MaxNow, now < now' \/ now' = MaxNow,
         NEW P, NEW S, NEW off, Judge(P, S, off), NEW s \in Sources
  PROVE  /\ TimerOf(s)'
         /\ s \in reacquired' /\ orderedAt[s] > 0 =>
              now - orderedAt[s] > Settle + Wait(reacquire[s].count)
         /\ s \in refused' \ reacquired' /\ refusedFrom[s] > 0 =>
              now - refusedFrom[s] < Wait(reacquire[s].count)
<1> USE MaxNowAssumption, AgreementAssumption
<1>1. TimerOf(s) /\ now \in Nat /\ 0 < now /\ now <= MaxNow
  BY DEF AgreementInv
<1>2. Wait(reacquire[s].count) \in Int
  BY <1>1, WaitInt DEF TimerOf
<1>3. CASE Unseen(s)
  BY <1>1, <1>3 DEF Unseen, Kept, TimerOf
<1>4. ASSUME NEW C, Judged(C, s), Ordered(s)
      PROVE  /\ TimerOf(s)'
             /\ orderedAt[s] > 0 => now - orderedAt[s] > Settle + Wait(reacquire[s].count)
  <2>1. ~residual'[s].seeded /\ residual'[s].firstAt = 0
    BY <1>4 DEF Ordered, Unmeasured
  <2>2. reacquire'[s].since = 0 /\ reacquire'[s] \in [since : Nat, count : Nat]
    BY <1>1, <1>4 DEF Ordered, TimerOf
  <2>3. TimerOf(s)'
    BY <1>1, <2>1, <2>2, <1>4 DEF Ordered, TimerOf
  <2>4. residual[s].seeded /\ now - residual[s].firstAt >= Settle
    BY <1>1, <1>4 DEF Judged, FirstAt, TimerOf
  <2>5. now - RefusedSince(s) >= Wait(reacquire[s].count)
    BY <1>4 DEF Ordered, StartOver
  <2> QED BY <1>1, <1>2, <2>3, <2>4, <2>5 DEF TimerOf, RefusedSince
<1>5. ASSUME NEW C, Judged(C, s), Waits(C, s)
      PROVE  /\ TimerOf(s)'
             /\ refusedFrom[s] > 0 => now - refusedFrom[s] < Wait(reacquire[s].count)
  <2>1. residual[s].seeded /\ now - residual[s].firstAt >= Settle
    BY <1>1, <1>5 DEF Judged, FirstAt, TimerOf
  <2>2. residual'[s].seeded /\ residual'[s].firstAt = residual[s].firstAt
    BY <1>5, <2>1 DEF Waits, Averaged, FirstAt
  <2>3. reacquire'[s].since = RefusedSince(s) /\ reacquire'[s] \in [since : Nat, count : Nat]
    BY <1>1, <1>5 DEF Waits, TimerOf, RefusedSince
  <2>4. TimerOf(s)'
    BY <1>1, <1>5, <2>1, <2>2, <2>3 DEF Waits, Kept, TimerOf, RefusedSince
  <2> QED BY <1>1, <1>2, <1>5, <2>4 DEF Waits, StartOver, RefusedSince, TimerOf
<1>6. ASSUME NEW C, Averaged(C, s)
      PROVE  /\ residual'[s].firstAt \in Nat
             /\ residual[s].seeded => /\ residual'[s].seeded
                                      /\ residual'[s].firstAt = residual[s].firstAt
             /\ residual'[s].seeded /\ ~residual[s].seeded => residual'[s].firstAt = now
  BY <1>1, <1>6 DEF Averaged, FirstAt, TimerOf
<1>7. ASSUME NEW C, Accepted(C, s) PROVE TimerOf(s)'
  <2>1. reacquire'[s].since = 0 /\ reacquire'[s] \in [since : Nat, count : Nat]
    BY <1>7 DEF Accepted
  <2> QED BY <1>1, <1>6, <1>7, <2>1 DEF Accepted, Kept, TimerOf
<1>8. ASSUME NEW C, Unjudged(C, s) PROVE TimerOf(s)'
  BY <1>1, <1>6, <1>8 DEF Unjudged, Kept, TimerOf
<1>9. Ordered(s) => s \in reacquired'
  BY DEF Ordered
<1>10. \A C : Waits(C, s) => s \in refused' /\ s \notin reacquired'
  BY DEF Waits, Kept
<1>11. \A C : Accepted(C, s) \/ Unjudged(C, s) => s \notin refused' /\ s \notin reacquired'
  BY DEF Accepted, Unjudged, Kept
<1>12. Unseen(s) => s \notin refused' /\ s \notin reacquired'
  BY DEF Unseen, Kept
<1> QED BY VerdictFact, <1>3, <1>4, <1>5, <1>7, <1>8, <1>9, <1>10, <1>11, <1>12, Zenon

(* A pass of the Selector is one verdict on every source, and a sleep.     *)
LEMMA AgreementStep ==
  ASSUME AgreementInv, Next
  PROVE  AgreementInv' /\ OrdersSpaced /\ RecoveryNotPostponed
<1>1. PICK snap : Combine(snap) /\ Sleep
  BY Zenon DEF Next
<1>2. PICK E, off : E \subseteq Sources /\ Judge(E \intersect Primary, E \ Primary, off)
  BY <1>1, Zenon DEF Combine
<1>3. now' \in Nat /\ now <= now' /\ now' <= MaxNow /\ (now < now' \/ now' = MaxNow) /\ 0 < now'
  BY <1>1, MaxNowAssumption DEF Sleep, AgreementInv
<1>4. refused' \subseteq Sources /\ reacquired' \subseteq refused'
  BY <1>2, RefusedFact
<1>5. \A s \in Sources :
         /\ TimerOf(s)'
         /\ s \in reacquired' /\ orderedAt[s] > 0 =>
              now - orderedAt[s] > Settle + Wait(reacquire[s].count)
         /\ s \in refused' \ reacquired' /\ refusedFrom[s] > 0 =>
              now - refusedFrom[s] < Wait(reacquire[s].count)
  BY <1>2, <1>3, TimerStep
<1>6. AgreementInv'
  BY <1>3, <1>5 DEF AgreementInv
<1>7. OrdersSpaced /\ RecoveryNotPostponed
  BY <1>4, <1>5, Zenon DEF OrdersSpaced, RecoveryNotPostponed
<1> QED BY <1>6, <1>7

(* A refused source's wait is its own, for every set of sources, every     *)
(* reading they may show and every limit of the Selector: it neither       *)
(* shrinks while the source is not accepted, nor stretches while it is not *)
(* judged.                                                                 *)
THEOREM SelectorPacesReacquire == Spec => ReacquirePaced
<1>1. Init => AgreementInv
  BY AgreementInvInit DEF Init, SelectorInit, FailoverInit
<1>2. AgreementInv /\ [Next]_vars => AgreementInv'
  <2>1. UNCHANGED vars => UNCHANGED <<now, agreementVars>>
    BY DEF vars, selectorVars
  <2>2. AgreementInv /\ UNCHANGED <<now, agreementVars>> => AgreementInv'
    BY Zenon DEF AgreementInv, agreementVars, TimerOf
  <2> QED BY <2>1, <2>2, AgreementStep
<1>3. AgreementInv /\ [Next]_vars => [OrdersSpaced /\ RecoveryNotPostponed]_<<now, agreementVars>>
  <2>1. UNCHANGED vars => UNCHANGED <<now, agreementVars>>
    BY DEF vars, selectorVars
  <2> QED BY <2>1, AgreementStep
<1> QED BY <1>1, <1>2, <1>3, PTL DEF Spec, ReacquirePaced

-----------------------------------------------------------------------------
(* Induction over finite data: a property of every finite set is proved by *)
(* taking a smallest set that lacks it, which exists because < on the      *)
(* naturals is well founded.                                               *)

(* Every non-empty set of numbers has a least one.                         *)
LEMMA NatMin == ASSUME NEW T \in SUBSET Nat, T # {} PROVE \E x \in T : \A y \in T : x <= y
<1> DEFINE R == OpToRel(<, Nat)
<1>1. IsWellFoundedOn(R, Nat)
  BY NatLessThanWellFounded
<1>3. \A x, y \in Nat : <<y, x>> \in R <=> y < x
  BY DEF OpToRel
<1> HIDE DEF R
<1>2. PICK x \in T : \A y \in T : ~(<<y, x>> \in R)
  BY <1>1, WFMin
<1>4. \A y \in T : x <= y
  <2> TAKE y \in T
  <2>1. x \in Nat /\ y \in Nat /\ ~(y < x)
    BY <1>2, <1>3
  <2> QED BY <2>1
<1> QED BY <1>4

(* Of the subsets of a finite set that lack a property, one lacks it with  *)
(* none of its own members removed: what holds of the empty set, and of a  *)
(* set once it holds with one member fewer, holds of every finite set.     *)
LEMMA SmallestSubset ==
  ASSUME NEW S, IsFiniteSet(S), NEW B \in SUBSET SUBSET S, B # {}
  PROVE  \E s \in B : IsFiniteSet(s) /\ \A x \in s : s \ {x} \notin B
<1>1. \A s \in B : IsFiniteSet(s) /\ Cardinality(s) \in Nat
  BY FS_Subset, FS_CardinalityType
<1> DEFINE T == {Cardinality(s) : s \in B}
<1>2. T \in SUBSET Nat /\ T # {}
  BY <1>1
<1>3. PICK n \in T : \A m \in T : n <= m
  BY <1>2, NatMin
<1>4. PICK s \in B : n = Cardinality(s)
  BY <1>3
<1>5. ASSUME NEW x \in s PROVE s \ {x} \notin B
  <2>1. Cardinality(s \ {x}) = Cardinality(s) - 1
    BY <1>1, <1>4, FS_RemoveElement
  <2>2. ASSUME s \ {x} \in B PROVE FALSE
    <3>1. n <= Cardinality(s \ {x})
      BY <1>3, <2>2
    <3> QED BY <1>1, <1>4, <2>1, <3>1
  <2> QED BY <2>2
<1> QED BY <1>1, <1>4, <1>5

(* The recursion of the community sum over a set, as one step of it.       *)
AnyOf(s) == CHOOSE x \in s : TRUE
Others(s) == s \ {AnyOf(s)}
SumOf(g, f, s) == IF s = {} THEN 0 ELSE f[AnyOf(s)] + g[Others(s)]

LEMMA AnyAndOthers ==
  ASSUME NEW S, NEW s \in SUBSET S, s # {}
  PROVE  AnyOf(s) \in s /\ AnyOf(s) \in S /\ Others(s) \in SUBSET S /\ Others(s) = s \ {AnyOf(s)}
<1>1. AnyOf(s) \in s
  BY DEF AnyOf
<1> QED BY <1>1 DEF Others

(* The recursion has a solution, so the choice that defines the sum makes  *)
(* one.                                                                    *)
LEMMA SumExists ==
  ASSUME NEW S, IsFiniteSet(S), NEW f \in [S -> Int]
  PROVE  \E g \in [SUBSET S -> Int] : \A s \in SUBSET S : g[s] = SumOf(g, f, s)
<1> DEFINE W(n) == {s \in SUBSET S : Cardinality(s) <= n}
           Good(n, g) == g \in [W(n) -> Int] /\ \A s \in W(n) : g[s] = SumOf(g, f, s)
           Bad == {n \in Nat : ~\E g : Good(n, g)}
<1>1. \A s \in SUBSET S : IsFiniteSet(s) /\ Cardinality(s) \in Nat /\ (Cardinality(s) = 0 <=> s = {})
  BY FS_Subset, FS_CardinalityType, FS_EmptySet
<1>2. \A s \in SUBSET S : s # {} => Cardinality(Others(s)) = Cardinality(s) - 1
  <2> SUFFICES ASSUME NEW s \in SUBSET S, s # {} PROVE Cardinality(Others(s)) = Cardinality(s) - 1
    OBVIOUS
  <2>1. AnyOf(s) \in s /\ Others(s) = s \ {AnyOf(s)} /\ IsFiniteSet(s)
    BY <1>1, AnyAndOthers
  <2> QED BY <2>1, FS_RemoveElement
<1>3. \E g : Good(0, g)
  <2> DEFINE g == [s \in W(0) |-> 0]
  <2>1. g \in [W(0) -> Int]
    OBVIOUS
  <2>2. ASSUME NEW s \in W(0) PROVE g[s] = SumOf(g, f, s)
    <3>1. s = {}
      BY <1>1
    <3> QED BY <3>1 DEF SumOf
  <2>3. Good(0, g)
    BY <2>1, <2>2
  <2> QED BY <2>3
<1>4. ASSUME NEW n \in Nat, \E g : Good(n, g) PROVE \E g : Good(n + 1, g)
  <2>1. PICK h : Good(n, h)
    BY <1>4
  <2> DEFINE g == [s \in W(n + 1) |-> SumOf(h, f, s)]
  <2>2. ASSUME NEW s \in W(n + 1), s # {}
        PROVE  Others(s) \in W(n) /\ AnyOf(s) \in S
    <3>1. AnyOf(s) \in S /\ Others(s) \in SUBSET S /\ s \in SUBSET S
      BY <2>2, AnyAndOthers
    <3>2. Cardinality(Others(s)) = Cardinality(s) - 1 /\ Cardinality(s) \in Nat /\ Cardinality(s) <= n + 1
      BY <1>1, <1>2, <2>2
    <3>3. Cardinality(Others(s)) \in Nat
      BY <1>1, <3>1
    <3> QED BY <3>1, <3>2, <3>3
  <2>3. ASSUME NEW s \in W(n + 1) PROVE SumOf(h, f, s) \in Int
    <3>1. CASE s = {}
      BY <3>1 DEF SumOf
    <3>2. CASE s # {}
      <4>1. h[Others(s)] \in Int /\ f[AnyOf(s)] \in Int
        BY <2>1, <2>2, <3>2
      <4> QED BY <3>2, <4>1 DEF SumOf
    <3> QED BY <3>1, <3>2
  <2>4. ASSUME NEW s \in W(n) PROVE s \in W(n + 1) /\ g[s] = h[s]
    <3>1. s \in W(n + 1)
      BY <1>1
    <3> QED BY <3>1, <2>1
  <2>5. ASSUME NEW s \in W(n + 1) PROVE g[s] = SumOf(g, f, s)
    <3>1. CASE s = {}
      BY <3>1 DEF SumOf
    <3>2. CASE s # {}
      <4>1. g[Others(s)] = h[Others(s)]
        BY <2>2, <2>4, <3>2
      <4> QED BY <4>1, <3>2 DEF SumOf
    <3> QED BY <3>1, <3>2
  <2>6. g \in [W(n + 1) -> Int]
    BY <2>3
  <2> HIDE DEF g
  <2> QED BY <2>5, <2>6
<1> HIDE DEF Good
<1>5. Bad = {}
  <2> SUFFICES ASSUME Bad # {} PROVE FALSE
    OBVIOUS
  <2>1. PICK n \in Bad : \A m \in Bad : n <= m
    BY NatMin
  <2>2. n # 0
    BY <1>3, <2>1
  <2>3. n - 1 \in Nat /\ n - 1 \notin Bad /\ (n - 1) + 1 = n
    BY <2>1, <2>2
  <2>4. \E g : Good(n - 1, g)
    BY <2>3
  <2>5. \E g : Good((n - 1) + 1, g)
    BY <1>4, <2>3, <2>4
  <2> QED BY <2>1, <2>3, <2>5
<1>6. Cardinality(S) \in Nat
  BY FS_CardinalityType
<1>7. PICK g : Good(Cardinality(S), g)
  BY <1>5, <1>6
<1>8. W(Cardinality(S)) = SUBSET S
  BY FS_Subset, <1>1, <1>6
<1> QED BY <1>7, <1>8 DEF Good

(* The sum of a function over a finite set obeys its recursion.            *)
LEMMA SumRec ==
  ASSUME NEW S, IsFiniteSet(S), NEW f \in [S -> Int]
  PROVE  \E g \in [SUBSET S -> Int] :
           g[S] = SumFunction(f) /\ \A s \in SUBSET S : g[s] = SumOf(g, f, s)
<1> DEFINE Def(h) == [s \in SUBSET S |-> IF s = {} THEN 0
                          ELSE f[CHOOSE x \in s : TRUE] + h[s \ {CHOOSE x \in s : TRUE}]]
           iter == CHOOSE h : h = Def(h)
<1>1. DOMAIN f = S
  OBVIOUS
<1>2. SumFunction(f) = iter[S]
  BY <1>1 DEF SumFunction, SumFunctionOnSet, FoldFunctionOnSet, MapThenFoldSet
<1>3. PICK g \in [SUBSET S -> Int] : \A s \in SUBSET S : g[s] = SumOf(g, f, s)
  BY SumExists
<1>4. g = Def(g)
  BY <1>3 DEF SumOf, AnyOf, Others
<1>5. iter = Def(iter)
  BY <1>4
<1> HIDE DEF iter
<1>6. iter = [s \in SUBSET S |-> iter[s]]
  BY <1>5
<1>7. \A s \in SUBSET S : iter[s] = SumOf(iter, f, s)
  BY <1>5 DEF SumOf, AnyOf, Others
<1>8. \A s \in SUBSET S : iter[s] \in Int
  <2> DEFINE B == {s \in SUBSET S : iter[s] \notin Int}
  <2> SUFFICES ASSUME B # {} PROVE FALSE
    OBVIOUS
  <2>1. B \in SUBSET SUBSET S
    OBVIOUS
  <2>2. PICK s \in B : \A x \in s : s \ {x} \notin B
    BY <2>1, SmallestSubset
  <2>3. s \in SUBSET S /\ iter[s] \notin Int /\ iter[s] = SumOf(iter, f, s)
    BY <1>7, <2>2
  <2>4. s # {}
    BY <2>3 DEF SumOf
  <2>5. AnyOf(s) \in s /\ AnyOf(s) \in S /\ Others(s) \in SUBSET S /\ Others(s) = s \ {AnyOf(s)}
    BY <2>3, <2>4, AnyAndOthers
  <2>6. Others(s) \notin B
    BY <2>2, <2>5
  <2>7. iter[Others(s)] \in Int /\ f[AnyOf(s)] \in Int
    BY <2>5, <2>6
  <2> QED BY <2>3, <2>4, <2>7 DEF SumOf
<1> QED BY <1>2, <1>6, <1>7, <1>8

LEMMA SumsAsInt ==
  ASSUME NEW S, IsFiniteSet(S), NEW f \in [S -> Int]
  PROVE  SumFunction(f) \in Int
<1>1. PICK g \in [SUBSET S -> Int] :
        g[S] = SumFunction(f) /\ \A s \in SUBSET S : g[s] = SumOf(g, f, s)
  BY SumRec
<1>2. g[S] \in Int
  BY <1>1
<1> QED BY <1>1, <1>2

LEMMA Weighed ==
  ASSUME NEW w \in Nat, NEW a \in Int, NEW b \in Int, a <= b
  PROVE  w * a <= w * b
  OBVIOUS

(* One more weighted interval around t.                                    *)
LEMMA OneMoreWeighed ==
  ASSUME NEW w \in Nat, NEW W \in Int, NEW o \in Int, NEW d \in Int, NEW N \in Int, NEW D \in Int,
         NEW t \in Int, o - d <= t, t <= o + d, t * W - N <= D, N - t * W <= D
  PROVE  /\ t * (w + W) - (w * o + N) <= w * d + D
         /\ (w * o + N) - t * (w + W) <= w * d + D
<1>1. w * (o - d) <= w * t /\ w * t <= w * (o + d)
  BY Weighed
<1>2. w * (o - d) = w * o - w * d /\ w * (o + d) = w * o + w * d /\ t * (w + W) = w * t + t * W
  OBVIOUS
<1>3. w * o \in Int /\ w * d \in Int /\ w * t \in Int /\ t * W \in Int
  OBVIOUS
<1> QED BY <1>1, <1>2, <1>3

(* Intervals that contain t: the weighted mean of their centres is no      *)
(* further from t than the weighted mean of their half-widths (all taken   *)
(* times the sum of the weights).                                          *)
LEMMA WeightedCovers ==
  ASSUME NEW S, IsFiniteSet(S), NEW w \in [S -> Nat], NEW o \in [S -> Int], NEW d \in [S -> Int],
         NEW t \in Int, \A k \in S : o[k] - d[k] <= t /\ t <= o[k] + d[k]
  PROVE  LET W == SumFunction(w)
             N == SumFunction([k \in S |-> w[k] * o[k]])
             D == SumFunction([k \in S |-> w[k] * d[k]])
         IN W \in Nat /\ N \in Int /\ D \in Nat /\ t * W - N <= D /\ N - t * W <= D
<1> DEFINE wo == [k \in S |-> w[k] * o[k]]
           wd == [k \in S |-> w[k] * d[k]]
<1>1. w \in [S -> Int] /\ wo \in [S -> Int] /\ wd \in [S -> Int]
  OBVIOUS
<1>2. PICK gw \in [SUBSET S -> Int] :
        gw[S] = SumFunction(w) /\ \A s \in SUBSET S : gw[s] = SumOf(gw, w, s)
  BY <1>1, SumRec, Zenon
<1>3. PICK go \in [SUBSET S -> Int] :
        go[S] = SumFunction(wo) /\ \A s \in SUBSET S : go[s] = SumOf(go, wo, s)
  BY <1>1, SumRec, Zenon
<1>4. PICK gd \in [SUBSET S -> Int] :
        gd[S] = SumFunction(wd) /\ \A s \in SUBSET S : gd[s] = SumOf(gd, wd, s)
  BY <1>1, SumRec, Zenon
<1> DEFINE Fine(s) == gw[s] >= 0 /\ gd[s] >= 0 /\ t * gw[s] - go[s] <= gd[s] /\ go[s] - t * gw[s] <= gd[s]
           B == {s \in SUBSET S : ~Fine(s)}
<1>5. \A k \in S : d[k] >= 0 /\ w[k] * d[k] >= 0 /\ wo[k] = w[k] * o[k] /\ wd[k] = w[k] * d[k]
  <2> TAKE k \in S
  <2>1. w[k] \in Nat /\ d[k] \in Int /\ o[k] \in Int /\ o[k] - d[k] <= t /\ t <= o[k] + d[k]
    OBVIOUS
  <2>2. d[k] >= 0
    BY <2>1
  <2>3. w[k] * 0 <= w[k] * d[k]
    BY <2>1, <2>2, Weighed
  <2> QED BY <2>1, <2>2, <2>3
<1>6. B = {}
  <2> SUFFICES ASSUME B # {} PROVE FALSE
    OBVIOUS
  <2>1. B \in SUBSET SUBSET S
    OBVIOUS
  <2>2. PICK s \in B : \A x \in s : s \ {x} \notin B
    <3> HIDE DEF B
    <3> QED BY <2>1, SmallestSubset
  <2>3. s \in SUBSET S /\ ~Fine(s)
    BY <2>2
  <2>4. gw[s] = SumOf(gw, w, s) /\ go[s] = SumOf(go, wo, s) /\ gd[s] = SumOf(gd, wd, s)
    BY <1>2, <1>3, <1>4, <2>3
  <2>5. s # {}
    <3> SUFFICES ASSUME s = {} PROVE FALSE
      OBVIOUS
    <3>1. gw[s] = 0 /\ go[s] = 0 /\ gd[s] = 0
      BY <2>4 DEF SumOf
    <3> QED BY <2>3, <3>1
  <2> DEFINE k == AnyOf(s)
             r == Others(s)
  <2>6. k \in s /\ k \in S /\ r \in SUBSET S /\ r = s \ {k}
    BY <2>3, <2>5, AnyAndOthers
  <2>7. Fine(r)
    BY <2>2, <2>6
  <2>8. gw[s] = w[k] + gw[r] /\ go[s] = wo[k] + go[r] /\ gd[s] = wd[k] + gd[r]
    BY <2>4, <2>5 DEF SumOf
  <2> HIDE DEF k, r
  <2>9. /\ gw[r] \in Int /\ go[r] \in Int /\ gd[r] \in Int /\ w[k] \in Nat /\ o[k] \in Int /\ d[k] \in Int
        /\ o[k] - d[k] <= t /\ t <= o[k] + d[k]
    BY <1>2, <1>3, <1>4, <2>6
  <2>10. /\ t * (w[k] + gw[r]) - (w[k] * o[k] + go[r]) <= w[k] * d[k] + gd[r]
         /\ (w[k] * o[k] + go[r]) - t * (w[k] + gw[r]) <= w[k] * d[k] + gd[r]
    BY <2>7, <2>9, OneMoreWeighed
  <2>11. /\ t * gw[s] - go[s] <= gd[s] /\ go[s] - t * gw[s] <= gd[s]
    BY <1>5, <2>6, <2>8, <2>10
  <2>12. gw[s] >= 0 /\ gd[s] >= 0
    <3>1. wd[k] >= 0 /\ wd[k] \in Int
      BY <1>1, <1>5, <2>6
    <3>2. gw[r] >= 0 /\ gd[r] >= 0
      BY <2>7
    <3> HIDE DEF wd, wo
    <3> QED BY <2>8, <2>9, <3>1, <3>2
  <2> QED BY <2>3, <2>11, <2>12
<1>7. Fine(S)
  BY <1>6
<1>8. gw[S] \in Int /\ go[S] \in Int /\ gd[S] \in Int
  BY <1>2, <1>3, <1>4
<1>9. gw[S] \in Nat /\ gd[S] \in Nat
  BY <1>7, <1>8
<1> QED BY <1>2, <1>3, <1>4, <1>7, <1>8, <1>9

(* A finite set of integers has a greatest and a least member.             *)
LEMMA GreatestIs ==
  ASSUME NEW T \in SUBSET Int, IsFiniteSet(T), T # {}
  PROVE  /\ \E m \in T : \A x \in T : m >= x
         /\ \E m \in T : \A x \in T : m <= x
<1> DEFINE Ends(s) == (\E m \in s : \A x \in s : m >= x) /\ (\E m \in s : \A x \in s : m <= x)
           B == {s \in SUBSET T : s # {} /\ ~Ends(s)}
<1>1. B = {}
  <2> SUFFICES ASSUME B # {} PROVE FALSE
    OBVIOUS
  <2>1. B \in SUBSET SUBSET T
    OBVIOUS
  <2>2. PICK s \in B : \A x \in s : s \ {x} \notin B
    <3> HIDE DEF B
    <3> QED BY <2>1, SmallestSubset
  <2>3. s \in SUBSET T /\ s # {} /\ ~Ends(s)
    BY <2>2
  <2>4. PICK x \in s : TRUE
    BY <2>3
  <2> DEFINE r == s \ {x}
  <2>5. r = {} \/ Ends(r)
    BY <2>2, <2>3
  <2>6. CASE r = {}
    <3>1. \A y \in s : y = x
      BY <2>6
    <3>2. x \in Int
      BY <2>3
    <3>3. x >= x /\ x <= x
      BY <3>2
    <3> QED BY <2>3, <3>1, <3>3
  <2>7. CASE Ends(r)
    <3>1. PICK m \in r : \A y \in r : m >= y
      BY <2>7
    <3>2. PICK n \in r : \A y \in r : n <= y
      BY <2>7
    <3>3. m \in s /\ n \in s /\ x \in s /\ \A y \in s : y = x \/ y \in r
      BY <2>4, <3>1, <3>2
    <3>4. \A y \in s : y \in Int
      BY <2>3
    <3>5. \E a \in s : \A y \in s : a >= y
      <4>1. CASE m >= x
        BY <3>1, <3>3, <3>4, <4>1
      <4>2. CASE ~(m >= x)
        BY <3>1, <3>3, <3>4, <4>2
      <4> QED BY <4>1, <4>2
    <3>6. \E a \in s : \A y \in s : a <= y
      <4>1. CASE n <= x
        BY <3>2, <3>3, <3>4, <4>1
      <4>2. CASE ~(n <= x)
        BY <3>2, <3>3, <3>4, <4>2
      <4> QED BY <4>1, <4>2
    <3> QED BY <2>3, <3>5, <3>6
  <2> QED BY <2>5, <2>6, <2>7
<1> QED BY <1>1

LEMMA MaxIs ==
  ASSUME NEW T \in SUBSET Int, IsFiniteSet(T), T # {}
  PROVE  /\ Max(T) \in T /\ \A x \in T : Max(T) >= x
         /\ Min(T) \in T /\ \A x \in T : Min(T) <= x
  BY GreatestIs DEF Max, Min

-----------------------------------------------------------------------------
(* Honest sources make an honest clock.                                    *)

(* What every pass keeps while every source is honest. The fields of the   *)
(* answer; the types the last good answer has once there is one; ...       *)
LastShape ==
  last = [valid |-> last.valid, synchronised |-> last.synchronised, serving |-> last.serving,
          stratum |-> last.stratum, offset |-> last.offset, disp |-> last.disp, path |-> last.path,
          rootDisp |-> last.rootDisp, refid |-> last.refid, age |-> last.age, leap |-> last.leap,
          used |-> last.used]
Typed ==
  /\ lastGood.offset.num \in Int /\ lastGood.offset.den \in Nat
  /\ lastGood.disp \in Int /\ lastGood.rootDisp \in Int /\ last.path \in Int
  /\ lastGood.at \in Nat /\ lastGood.measuredAt \in Int /\ lastGood.at <= now

(* ... how far the truth may be from it, the growth since it was made      *)
(* included, by its own dispersion and by what a client adds up; ...       *)
Off(t) == Abs(t * lastGood.offset.den - lastGood.offset.num)
Covered ==
  /\ Off(truth) <= lastGood.disp + Growth
  /\ Off(truth) <= last.path * lastGood.offset.den + lastGood.rootDisp + Growth

(* ... and where its stratum, its reference and its age come from.         *)
Attributed ==
  /\ last.stratum = originTier + 1 /\ \E s \in origin : last.refid = Station[s]
  /\ lastGood.at - lastGood.measuredAt <= MaxAge
CoverInv ==
  /\ now \in Nat /\ now <= MaxNow /\ truth \in Int /\ LastShape
  /\ last.synchronised => lastGood.have
  /\ lastGood.have => Typed /\ Covered /\ Attributed

LEMMA TwoOf ==
  ASSUME NEW a \in Int, NEW b \in Int
  PROVE  /\ Max({a, b}) \in {a, b} /\ Max({a, b}) >= a /\ Max({a, b}) >= b
         /\ Min({a, b}) \in {a, b} /\ Min({a, b}) <= a /\ Min({a, b}) <= b
<1>1. {a, b} \in SUBSET Int /\ IsFiniteSet({a, b}) /\ {a, b} # {}
  <2>1. IsFiniteSet({a}) /\ {a, b} = {a} \union {b}
    BY FS_Singleton
  <2> QED BY <2>1, FS_AddElement
<1> QED BY <1>1, MaxIs

(* What an eligible source shows when it is honest.                        *)
Honestly(r) ==
  /\ r.age \in Nat /\ r.age <= MaxAge /\ r.disp \in Nat \ {0} /\ r.jitter = 1 /\ r.path \in Nat
  /\ r.stratum = r.disp /\ r.offset \in Int
  /\ r.offset - (r.disp + r.age * Drift) <= truth /\ truth <= r.offset + (r.disp + r.age * Drift)

LEMMA HonestReading ==
  ASSUME Liars = {}, truth \in Int, NEW s \in Sources, NEW shape \in Shapes, Eligible(Reading(s, shape))
  PROVE  Honestly(Reading(s, shape)) /\ Reading(s, shape).disp = (IF s \in Radio THEN 1 ELSE 2)
<1> DEFINE d == IF s \in Radio THEN 1 ELSE 2
<1>1. CASE shape[1] = "none"
  BY <1>1 DEF Eligible, Reading, NotReady
<1>2. CASE shape[1] = "old"
  BY <1>2, SelectorAssumption DEF Eligible, Reading
<1>3. CASE shape \in {"usable"} \X Ages \X {-1, 1}
  <2>1. shape[1] = "usable" /\ shape[2] \in Nat /\ (shape[3] = -1 \/ shape[3] = 1)
    BY <1>3, TruthAssumption
  <2> DEFINE w == d + shape[2] * Drift
  <2>2. Reading(s, shape) = [ready |-> TRUE, haveOffset |-> TRUE, age |-> shape[2],
                             offset |-> truth + shape[3] * w, disp |-> d,
                             jitter |-> 1, stratum |-> d, path |-> IF s \in Radio THEN 0 ELSE d,
                             leap |-> FALSE]
    BY <2>1 DEF Reading
  <2>3. shape[2] <= MaxAge
    BY <2>2 DEF Eligible
  <2>4. d \in Nat \ {0} /\ w \in Nat
    BY <2>1, SelectorAssumption
  <2> HIDE DEF w
  <2>5. /\ truth + shape[3] * w \in Int /\ (truth + shape[3] * w) - w <= truth
        /\ truth <= (truth + shape[3] * w) + w
    BY <2>1, <2>4
  <2>6. (truth + shape[3] * w) - (d + shape[2] * Drift) <= truth
    BY <2>5 DEF w
  <2>7. truth <= (truth + shape[3] * w) + (d + shape[2] * Drift)
    BY <2>5 DEF w
  <2> QED BY <2>1, <2>2, <2>3, <2>4, <2>5, <2>6, <2>7 DEF Honestly
<1>4. shape[1] = "none" \/ shape[1] = "old" \/ shape \in {"usable"} \X Ages \X {-1, 1}
  BY DEF Shapes
<1> QED BY <1>1, <1>2, <1>3, <1>4

(* The candidate made of an honest reading has the truth in its interval.  *)
LEMMA HonestCandidate ==
  ASSUME NEW r, Honestly(r)
  PROVE  LET c == Candidate(r)
         IN /\ c.offset \in Int /\ c.dist \in Nat /\ c.quality \in Nat /\ c.w \in Nat \ {0}
            /\ c.offset - c.dist <= truth /\ truth <= c.offset + c.dist
<1> DEFINE q == 1 + r.age * Drift
           u == WeightUnit \div (q * q)
<1>1. r.age * Drift \in Nat
  BY SelectorAssumption DEF Honestly
<1>2. q \in Nat \ {0} /\ q * q \in Nat \ {0}
  BY <1>1
<1>3. u \in Nat
  BY <1>2, SelectorAssumption
<1>4. Max({1, u}) \in Nat \ {0}
  BY <1>3, TwoOf
<1>5. (IF r.jitter > 0 THEN r.jitter ELSE r.disp) + Staleness(r) = q
  BY DEF Honestly, Staleness
<1>6. Candidate(r) = [offset |-> r.offset, dist |-> r.disp + r.age * Drift, quality |-> q, w |-> Max({1, u})]
  BY <1>5, Zenon DEF Candidate, Staleness
<1> QED BY <1>1, <1>2, <1>4, <1>6 DEF Honestly

(* A pass serves from some of its eligible candidates, or coasts.          *)
LEMMA PassServes ==
  ASSUME NEW snap, Combine(snap)
  PROVE  LET E == {s \in Sources : Eligible(snap[s])}
             cd == [s \in E |-> Candidate(snap[s])]
         IN (\E S \in SUBSET E : S # {} /\ Serve(S, cd, snap)) \/ Coast
<1> DEFINE E == {s \in Sources : Eligible(snap[s])}
           cd == [s \in E |-> Candidate(snap[s])]
<1>1. PICK P, S, pool, kept :
        /\ P = (E \intersect Primary) \ refused' /\ S = (E \ Primary) \ refused'
        /\ pool = Pool(P, S, onSecondary')
        /\ kept = Survivors(pool, cd, lastGood.have, lastGood.offset)
        /\ IF Cardinality(kept) >= MinToServe(pool) /\ kept # {}
           THEN Serve(kept, cd, snap) ELSE Coast
  BY Zenon DEF Combine
<1>2. pool \subseteq P \union S
  BY <1>1 DEF Pool
<1>3. kept \subseteq pool
  BY <1>1 DEF Survivors
<1>4. kept \in SUBSET E
  BY <1>1, <1>2, <1>3
<1> QED BY <1>1, <1>4

LEMMA ImageFinite ==
  ASSUME NEW S, IsFiniteSet(S), NEW f, DOMAIN f = S
  PROVE  IsFiniteSet({f[x] : x \in S})
<1> DEFINE T == {f[x] : x \in S}
           g == [x \in S |-> f[x]]
<1>1. g \in Surjection(S, T)
  BY DEF Surjection
<1> QED BY <1>1, FS_Surjection
(* Candidates that a sum can be made of, each with t in its interval.      *)
Contain(S, cd, t) ==
  \A k \in S : /\ cd[k].w \in Nat /\ cd[k].offset \in Int /\ cd[k].dist \in Int
               /\ cd[k].offset - cd[k].dist <= t /\ t <= cd[k].offset + cd[k].dist

(* The combined dispersion covers what every interval contains, and every  *)
(* candidate it was made of.                                               *)
LEMMA CombinedFigures ==
  ASSUME NEW S, IsFiniteSet(S), S # {}, NEW cd, NEW t \in Int, Contain(S, cd, t)
  PROVE  LET o == CombinedOffset(S, cd)
         IN /\ SumWeight(S, cd) \in Nat /\ o.den = SumWeight(S, cd) /\ o.num \in Int
            /\ CombinedDispersion(S, cd) \in Nat
            /\ Abs(t * o.den - o.num) <= CombinedDispersion(S, cd)
            /\ \A k \in S : Abs(cd[k].offset * o.den - o.num) <= CombinedDispersion(S, cd)
<1> DEFINE w == [k \in S |-> cd[k].w]
           f == [k \in S |-> cd[k].offset]
           d == [k \in S |-> cd[k].dist]
           W == SumFunction(w)
           N == SumFunction([k \in S |-> w[k] * f[k]])
           D == SumFunction([k \in S |-> w[k] * d[k]])
           spreads == {Abs(cd[k].offset * W - N) : k \in S}
<1>1. /\ w \in [S -> Nat] /\ f \in [S -> Int] /\ d \in [S -> Int]
      /\ \A k \in S : f[k] - d[k] <= t /\ t <= f[k] + d[k]
  BY DEF Contain
<1>2. W \in Nat /\ N \in Int /\ D \in Nat /\ t * W - N <= D /\ N - t * W <= D
  <2> HIDE DEF w, f, d
  <2> QED BY <1>1, WeightedCovers
<1>3. [k \in S |-> w[k] * f[k]] = [k \in S |-> cd[k].w * cd[k].offset]
  OBVIOUS
<1>4. [k \in S |-> w[k] * d[k]] = [k \in S |-> cd[k].w * cd[k].dist]
  OBVIOUS
<1>5. CombinedOffset(S, cd) = [num |-> N, den |-> W] /\ SumWeight(S, cd) = W
  BY <1>3, Zenon DEF CombinedOffset, SumWeight
<1>6. CombinedDispersion(S, cd) = D + Max(spreads)
  BY <1>4, <1>5 DEF CombinedDispersion
<1> HIDE DEF w, f, d, W, N, D
<1>7. \A k \in S : Abs(cd[k].offset * W - N) \in Nat
  BY <1>2 DEF Contain, Abs
<1>8. spreads \in SUBSET Int /\ IsFiniteSet(spreads) /\ spreads # {}
  <2> DEFINE g == [k \in S |-> Abs(cd[k].offset * W - N)]
  <2>1. IsFiniteSet({g[k] : k \in S})
    <3> DOMAIN g = S
      OBVIOUS
    <3> HIDE DEF g
    <3> QED BY ImageFinite
  <2>2. {g[k] : k \in S} = spreads
    OBVIOUS
  <2>3. spreads # {} /\ spreads \in SUBSET Int
    BY <1>7
  <2> HIDE DEF g, spreads
  <2> QED BY <2>1, <2>2, <2>3
<1>9. Max(spreads) \in spreads /\ \A x \in spreads : Max(spreads) >= x
  BY <1>8, MaxIs
<1>10. Max(spreads) \in Nat /\ \A k \in S : Abs(cd[k].offset * W - N) <= Max(spreads)
  BY <1>7, <1>9
<1> HIDE DEF spreads
<1>11. D + Max(spreads) \in Nat
  BY <1>2, <1>10
<1>12. Abs(t * W - N) <= D + Max(spreads)
  <2>1. t * W \in Int
    BY <1>2
  <2> QED BY <1>2, <1>10, <2>1 DEF Abs
<1>13. \A k \in S : Abs(cd[k].offset * W - N) <= D + Max(spreads)
  BY <1>2, <1>7, <1>10
<1> QED BY <1>2, <1>5, <1>6, <1>11, <1>12, <1>13

LEMMA TightestIn ==
  ASSUME NEW S \in SUBSET Sources, S # {}, NEW cd, \A k \in S : cd[k].quality \in Nat
  PROVE  Tightest(S, cd) \in S
<1> DEFINE qs == {cd[k].quality : k \in S}
           best == {k \in S : \A j \in S : cd[k].quality <= cd[j].quality}
<1>1. PICK x \in qs : \A y \in qs : x <= y
  <2>1. qs \in SUBSET Nat /\ qs # {}
    OBVIOUS
  <2> HIDE DEF qs
  <2> QED BY <2>1, NatMin
<1>2. best # {}
  BY <1>1
<1>3. best \in SUBSET Nat
  BY SourcesAssumption
<1>4. PICK m \in best : \A j \in best : m <= j
  BY <1>2, <1>3, NatMin
<1>5. Min(best) \in best
  <2> HIDE DEF best
  <2> QED BY <1>4 DEF Min
<1> QED BY <1>5 DEF Tightest

(* The reference heard is the station of one of the survivors.             *)
LEMMA HeardIn ==
  ASSUME NEW S \in SUBSET Sources, S # {}, NEW cd, \A k \in S : cd[k].w \in Nat
  PROVE  \E s \in S : HeardStation(S, cd) = Station[s]
<1> DEFINE named == {Station[k] : k \in S}
           Weight(t) == SumWeight({k \in S : Station[k] = t}, cd)
           most == {t \in named : \A u \in named : Weight(u) <= Weight(t)}
           tight == Station[Tightest(S, cd)]
           ws == {Weight(t) : t \in named}
<1>1. IsFiniteSet(S)
  BY SourcesAssumption, FS_Subset
<1>2. \A t \in named : Weight(t) \in Int
  <2> TAKE t \in named
  <2> DEFINE A == {k \in S : Station[k] = t}
             f == [k \in A |-> cd[k].w]
  <2>1. IsFiniteSet(A) /\ f \in [A -> Int]
    BY <1>1, FS_Subset
  <2>2. SumFunction(f) \in Int
    <3> HIDE DEF A, f
    <3> QED BY <2>1, SumsAsInt
  <2> QED BY <2>2 DEF SumWeight
<1>3. named # {} /\ IsFiniteSet(named) /\ named \in SUBSET Nat
  <2> DEFINE g == [k \in S |-> Station[k]]
  <2>1. IsFiniteSet({g[k] : k \in S})
    <3> DOMAIN g = S
      OBVIOUS
    <3> HIDE DEF g
    <3> QED BY <1>1, ImageFinite
  <2>2. {g[k] : k \in S} = named
    OBVIOUS
  <2> HIDE DEF g
  <2> QED BY <2>1, <2>2, SelectorAssumption
<1> HIDE DEF Weight
<1>4. IsFiniteSet(ws) /\ ws # {} /\ ws \in SUBSET Int
  <2> DEFINE g == [t \in named |-> Weight(t)]
  <2>1. IsFiniteSet({g[t] : t \in named})
    <3> DOMAIN g = named
      OBVIOUS
    <3> HIDE DEF g, named
    <3> QED BY <1>3, ImageFinite
  <2>2. {g[t] : t \in named} = ws
    OBVIOUS
  <2> HIDE DEF g
  <2> QED BY <1>2, <1>3, <2>1, <2>2
<1>5. PICK m \in ws : \A x \in ws : m >= x
  <2> HIDE DEF ws
  <2> QED BY <1>4, GreatestIs
<1>6. most # {}
  <2>1. PICK t \in named : m = Weight(t)
    BY <1>5
  <2>2. \A u \in named : Weight(u) <= Weight(t)
    BY <1>2, <1>5, <2>1
  <2> QED BY <2>1, <2>2
<1>7. most \in SUBSET Nat /\ most \subseteq named
  BY <1>3
<1> HIDE DEF most, named
<1>8. PICK n \in most : \A j \in most : n <= j
  BY <1>6, <1>7, NatMin
<1>9. Min(most) \in named
  BY <1>7, <1>8 DEF Min
<1>10. HeardStation(S, cd) \in named
  <2>1. HeardStation(S, cd) = IF tight \in most THEN tight ELSE Min(most)
    BY Zenon DEF HeardStation, most, named, Weight
  <2> QED BY <1>7, <1>9, <2>1
<1> QED BY <1>10 DEF named

(* What a pass leaves behind when it serves from S.                        *)
LEMMA ServeTells ==
  ASSUME truth \in Int, now \in Nat, NEW S \in SUBSET Sources, S # {}, NEW snap, NEW cd,
         \A k \in S : Honestly(snap[k]) /\ cd[k] = Candidate(snap[k]),
         Serve(S, cd, snap)
  PROVE  /\ lastGood'.have /\ lastGood'.offset = last'.offset /\ lastGood'.disp = last'.disp
         /\ lastGood'.rootDisp = last'.rootDisp /\ lastGood'.at = now
         /\ lastGood'.measuredAt = now - last'.age
         /\ last'.offset.num \in Int /\ last'.offset.den \in Nat /\ last'.disp \in Int
         /\ last'.path \in Nat /\ last'.rootDisp \in Int /\ last'.used = S
         /\ Abs(truth * last'.offset.den - last'.offset.num) <= last'.disp
         /\ Abs(truth * last'.offset.den - last'.offset.num) <= last'.path * last'.offset.den + last'.rootDisp
         /\ last'.age \in Nat /\ last'.age <= MaxAge
         /\ last'.stratum = ServedStratum(S, snap) /\ \E s \in S : last'.refid = Station[s]
         /\ LastShape'
<1> DEFINE o == CombinedOffset(S, cd)
           d == CombinedDispersion(S, cd)
           W == SumWeight(S, cd)
           radio == S \intersect Radio
           ages == {snap[k].age : k \in S}
           path == IF radio # {} THEN 0 ELSE snap[Tightest(S, cd)].path
           root == RootDispersion(S, cd, snap, path)
           heard == IF radio # {} THEN HeardStation(radio, cd) ELSE Station[Tightest(S, cd)]
           onPath == SumFunction([k \in S \ Radio |-> cd[k].w * Min({snap[k].path, cd[k].dist})])
<1>1. IsFiniteSet(S)
  BY SourcesAssumption, FS_Subset
<1>2. \A k \in S : /\ cd[k].offset \in Int /\ cd[k].dist \in Nat /\ cd[k].quality \in Nat
                   /\ cd[k].w \in Nat \ {0} /\ snap[k].path \in Nat /\ snap[k].age \in Nat
                   /\ snap[k].age <= MaxAge
                   /\ cd[k].offset - cd[k].dist <= truth /\ truth <= cd[k].offset + cd[k].dist
  BY HonestCandidate DEF Honestly
<1>3. Contain(S, cd, truth)
  BY <1>2 DEF Contain
<1>4. /\ W \in Nat /\ o.den = W /\ o.num \in Int /\ d \in Nat
      /\ Abs(truth * o.den - o.num) <= d
  <2> HIDE DEF o, d, W
  <2> QED BY <1>1, <1>3, CombinedFigures DEF o, d, W
<1>5. Tightest(S, cd) \in S
  BY <1>2, TightestIn
<1>6. path \in Nat
  BY <1>2, <1>5
<1>7. onPath \in Int
  <2> DEFINE A == S \ Radio
             f == [k \in A |-> cd[k].w * Min({snap[k].path, cd[k].dist})]
  <2>1. IsFiniteSet(A)
    BY <1>1, FS_Subset
  <2>2. \A k \in A : cd[k].w * Min({snap[k].path, cd[k].dist}) \in Int
    <3> TAKE k \in A
    <3>1. snap[k].path \in Int /\ cd[k].dist \in Int /\ cd[k].w \in Int
      BY <1>2
    <3>2. Min({snap[k].path, cd[k].dist}) \in Int
      BY <3>1, TwoOf
    <3> QED BY <3>1, <3>2
  <2>3. f \in [A -> Int]
    BY <2>2
  <2>4. SumFunction(f) \in Int
    <3> HIDE DEF A, f
    <3> QED BY <2>1, <2>3, SumsAsInt
  <2> QED BY <2>4
<1>8. root \in Int /\ d <= path * W + root
  <2> HIDE DEF onPath, d, W, path
  <2>1. path * W \in Nat
    BY <1>4, <1>6
  <2>2. CASE radio # {}
    <3>1. root = d
      BY <2>2 DEF RootDispersion, d
    <3> QED BY <1>4, <2>1, <3>1
  <2>3. CASE radio = {}
    <3>1. root = Max({d - path * W, d - onPath})
      BY <2>3, Zenon DEF RootDispersion, d, W, onPath
    <3>2. d - path * W \in Int /\ d - onPath \in Int
      BY <1>4, <1>7, <2>1
    <3>3. root \in {d - path * W, d - onPath} /\ root >= d - path * W
      BY <3>1, <3>2, TwoOf
    <3> QED BY <1>4, <2>1, <3>2, <3>3
  <2> QED BY <2>2, <2>3
<1>9. Min(ages) \in Nat /\ Min(ages) <= MaxAge
  <2>1. ages \in SUBSET Nat /\ ages # {} /\ \A x \in ages : x <= MaxAge
    BY <1>2
  <2> HIDE DEF ages
  <2>2. PICK m \in ages : \A x \in ages : m <= x
    BY <2>1, NatMin
  <2>3. Min(ages) \in ages
    BY <2>2 DEF Min
  <2> QED BY <2>1, <2>3
<1>10. \E s \in S : heard = Station[s]
  <2>1. CASE radio # {}
    <3>1. radio \in SUBSET Sources /\ \A k \in radio : cd[k].w \in Nat
      BY <1>2
    <3>2. \E s \in radio : HeardStation(radio, cd) = Station[s]
      <4> HIDE DEF radio
      <4> QED BY <2>1, <3>1, HeardIn
    <3> QED BY <2>1, <3>2
  <2>2. CASE radio = {}
    BY <1>5, <2>2
  <2> QED BY <2>1, <2>2
<1>11. /\ last' = [valid |-> TRUE, synchronised |-> TRUE,
                 serving |-> CASE S \subseteq Primary -> "primary"
                               [] S \intersect Primary = {} -> "secondary"
                               [] OTHER -> "both",
                 stratum |-> ServedStratum(S, snap),
                 offset |-> o, disp |-> d, path |-> path, rootDisp |-> root, refid |-> heard,
                 age |-> Min(ages), leap |-> \A k \in S : snap[k].leap, used |-> S]
       /\ lastGood' = [have |-> TRUE, offset |-> o, disp |-> d, rootDisp |-> root,
                       at |-> now, measuredAt |-> now - Min(ages)]
  BY Zenon DEF Serve
<1> HIDE DEF o, d, W, path, root, heard, ages
<1>12. Abs(truth * o.den - o.num) <= path * o.den + root
  <2>1. Abs(truth * o.den - o.num) \in Int
    <3>1. truth * o.den - o.num \in Int
      BY <1>4
    <3> QED BY <3>1 DEF Abs
  <2>2. path * o.den \in Int
    BY <1>4, <1>6
  <2> QED BY <1>4, <1>8, <2>1, <2>2
<1>13. LastShape'
  BY <1>11 DEF LastShape
<1>14. /\ last'.offset = o /\ last'.disp = d /\ last'.path = path /\ last'.rootDisp = root
       /\ last'.refid = heard /\ last'.age = Min(ages) /\ last'.used = S
       /\ last'.stratum = ServedStratum(S, snap)
  BY <1>11
<1>15. /\ lastGood'.have /\ lastGood'.offset = o /\ lastGood'.disp = d /\ lastGood'.rootDisp = root
       /\ lastGood'.at = now /\ lastGood'.measuredAt = now - Min(ages)
  BY <1>11
<1> QED BY <1>4, <1>6, <1>8, <1>9, <1>10, <1>12, <1>13, <1>14, <1>15

LEMMA StratumTold ==
  ASSUME NEW S \in SUBSET Sources, S # {}, NEW snap,
         \A k \in S : snap[k].stratum = (IF k \in Radio THEN 1 ELSE 2)
  PROVE  ServedStratum(S, snap) = Min({IF s \in Radio THEN 0 ELSE snap[s].stratum : s \in S}) + 1
<1> DEFINE tiers == {IF s \in Radio THEN 0 ELSE snap[s].stratum : s \in S}
<1>1. CASE S \intersect Radio # {}
  <2>1. 0 \in tiers /\ \A x \in tiers : x \in {0, 2}
    BY <1>1
  <2> HIDE DEF tiers
  <2>2. Min(tiers) = 0
    <3>1. \A m \in tiers : (\A x \in tiers : m <= x) => m = 0
      BY <2>1
    <3>2. \E m \in tiers : \A x \in tiers : m <= x
      BY <2>1
    <3> QED BY <3>1, <3>2 DEF Min
  <2> QED BY <1>1, <2>2 DEF ServedStratum, tiers
<1>2. CASE S \intersect Radio = {}
  <2>1. tiers = {2} /\ {snap[k].stratum : k \in S} \union {Unsynchronised} = {2, 16}
    BY <1>2 DEF Unsynchronised
  <2> HIDE DEF tiers
  <2>2. Min(tiers) = 2
    BY <2>1 DEF Min
  <2>3. Min({2, 16}) = 2
    <3>1. \E m \in {2, 16} : \A x \in {2, 16} : m <= x
      OBVIOUS
    <3>2. \A m \in {2, 16} : (\A x \in {2, 16} : m <= x) => m = 2
      OBVIOUS
    <3> QED BY <3>1, <3>2 DEF Min
  <2>4. ServedStratum(S, snap) = 3
    <3>1. Min({snap[k].stratum : k \in S} \union {Unsynchronised}) = 2
      BY <2>1, <2>3, Zenon
    <3> QED BY <1>2, <3>1 DEF ServedStratum, MaxStratum
  <2> QED BY <2>2, <2>4 DEF tiers
<1> QED BY <1>1, <1>2

LEMMA Dominates ==
  ASSUME NEW x \in Int, NEW b \in Nat, NEW den \in Nat, Abs(x) <= b
  PROVE  Abs(x * den) <= b * den
<1>1. x <= b /\ -b <= x
  BY DEF Abs
<1>2. den * x <= den * b /\ den * (-b) <= den * x
  BY <1>1, Weighed
<1>3. den * x = x * den /\ den * b = b * den /\ den * (-b) = -(b * den) /\ x * den \in Int /\ b * den \in Int
  OBVIOUS
<1> QED BY <1>2, <1>3 DEF Abs

(* The oscillator moves the truth no faster than the growth that is allowed*)
(* for it.                                                                 *)
LEMMA TruthMovesOn ==
  ASSUME NEW t \in Int, NEW u \in Int, NEW den \in Nat, NEW num \in Int, NEW X \in Int,
         NEW n \in Nat, NEW m \in Nat, n <= m, Abs(u - t) <= Drift * (m - n), Abs(t * den - num) <= X
  PROVE  Abs(u * den - num) <= X + (m - n) * Drift * den
<1> DEFINE b == Drift * (m - n)
           x == u - t
           y == t * den - num
<1>1. b \in Nat /\ x \in Int /\ Abs(x) <= b /\ y \in Int /\ Abs(y) <= X
  BY SelectorAssumption
<1>2. (m - n) * Drift = b
  BY SelectorAssumption
<1>3. u * den - num = y + x * den
  OBVIOUS
<1> HIDE DEF b, x, y
<1>4. Abs(x * den) <= b * den /\ b * den \in Int /\ x * den \in Int
  BY <1>1, Dominates
<1>5. Abs(y + x * den) <= X + b * den
  BY <1>1, <1>4 DEF Abs
<1> QED BY <1>2, <1>3, <1>5

LEMMA TruthMoves ==
  ASSUME NEW t \in Int, NEW u \in Int, NEW den \in Nat, NEW num \in Int, NEW X \in Int,
         NEW n \in Nat, NEW m \in Nat, NEW a \in Nat, n <= m, Abs(u - t) <= Drift * (m - n),
         Abs(t * den - num) <= X + (n - a) * Drift * den
  PROVE  Abs(u * den - num) <= X + (m - a) * Drift * den
<1> DEFINE p == (n - a) * Drift
           q == (m - n) * Drift
           Y == X + p * den
<1>1. p \in Int /\ q \in Int /\ (m - a) * Drift = p + q
  BY SelectorAssumption
<1>2. (p + q) * den = p * den + q * den /\ p * den \in Int /\ q * den \in Int /\ Y \in Int
  <2> HIDE DEF p, q
  <2> QED BY <1>1
<1>3. Abs(t * den - num) <= Y
  OBVIOUS
<1>4. Abs(u * den - num) <= Y + (m - n) * Drift * den
  <2> HIDE DEF Y, p, q
  <2> QED BY <1>2, <1>3, TruthMovesOn
<1>5. Abs(u * den - num) <= Y + q * den
  BY <1>4
<1>6. X + (m - a) * Drift * den = Y + q * den
  <2>1. X + (m - a) * Drift * den = X + (p + q) * den
    BY <1>1
  <2> HIDE DEF p, q
  <2> QED BY <1>2, <2>1
<1> QED BY <1>5, <1>6

LEMMA CoverInvInit == Init => CoverInv
<1> SUFFICES ASSUME Init PROVE CoverInv
  OBVIOUS
<1>1. now \in Nat /\ now <= MaxNow /\ truth \in Int
  BY MaxNowAssumption, TruthAssumption DEF Init, SelectorInit, FailoverInit, ClockInit
<1>2. ~lastGood.have
  BY DEF Init, SelectorInit, NeverGood
<1>3. last = [valid |-> FALSE, synchronised |-> FALSE, serving |-> "none", stratum |-> 1,
              offset |-> [num |-> 0, den |-> 1], disp |-> 0, path |-> 0, rootDisp |-> 0,
              refid |-> 0, age |-> 0, leap |-> FALSE, used |-> {}]
  BY DEF Init, SelectorInit, Fresh, NothingServed
<1>4. LastShape /\ ~last.synchronised
  BY <1>3 DEF LastShape
<1> QED BY <1>1, <1>2, <1>4 DEF CoverInv

HonestPass ==
  ServedCoversTruth /\ ClientBudgetCoversTruth /\ StratumOfOrigin' /\ SynchronisedIsRecent'

(* One pass, whether it serves or coasts, keeps the invariant and tells the*)
(* truth.                                                                  *)
LEMMA CoverInvStep ==
  ASSUME Liars = {}, CoverInv, Next
  PROVE  CoverInv' /\ HonestPass
<1>0. PICK shape \in [Sources -> Shapes] : \E snap \in {[s \in Sources |-> Reading(s, shape[s])]} :
    /\ Combine(snap)
    /\ Sleep
    /\ truth' \in {t \in Truths : Abs(t - truth) <= Drift * (now' - now)}
    /\ origin' = IF last'.used = {} THEN origin ELSE last'.used
    /\ originTier' = IF last'.used = {} THEN originTier
                     ELSE Min({IF s \in Radio THEN 0 ELSE snap[s].stratum : s \in last'.used})
  BY Zenon DEF Next
<1>1. PICK snap \in {[s \in Sources |-> Reading(s, shape[s])]} :
    /\ Combine(snap)
    /\ Sleep
    /\ truth' \in {t \in Truths : Abs(t - truth) <= Drift * (now' - now)}
    /\ origin' = IF last'.used = {} THEN origin ELSE last'.used
    /\ originTier' = IF last'.used = {} THEN originTier
                     ELSE Min({IF s \in Radio THEN 0 ELSE snap[s].stratum : s \in last'.used})
  BY <1>0, Zenon
<1> DEFINE E == {s \in Sources : Eligible(snap[s])}
           cd == [s \in E |-> Candidate(snap[s])]
<1>2. /\ now \in Nat /\ now' \in Nat /\ now <= now' /\ now' <= MaxNow /\ truth \in Int /\ truth' \in Int
      /\ Abs(truth' - truth) <= Drift * (now' - now)
  <2>1. now \in Nat /\ now <= MaxNow /\ truth \in Int
    BY DEF CoverInv
  <2>2. now' \in Nat /\ now <= now' /\ now' <= MaxNow
    BY <1>1, <2>1, MaxNowAssumption DEF Sleep
  <2>3. truth' \in Int /\ Abs(truth' - truth) <= Drift * (now' - now)
    BY <1>1, TruthAssumption
  <2> QED BY <2>1, <2>2, <2>3
<1>3. ASSUME NEW S \in SUBSET E, S # {}, Serve(S, cd, snap)
      PROVE  CoverInv' /\ HonestPass
  <2>1. S \in SUBSET Sources
    BY <1>3
  <2>2. \A k \in S : /\ Honestly(snap[k]) /\ cd[k] = Candidate(snap[k])
                     /\ snap[k].stratum = (IF k \in Radio THEN 1 ELSE 2)
    <3> TAKE k \in S
    <3>1. snap[k] = Reading(k, shape[k]) /\ shape[k] \in Shapes /\ Eligible(Reading(k, shape[k]))
      BY <1>1, <2>1
    <3>2. Honestly(snap[k]) /\ snap[k].disp = (IF k \in Radio THEN 1 ELSE 2)
      BY <1>2, <2>1, <3>1, HonestReading
    <3> QED BY <3>2 DEF Honestly
  <2> HIDE DEF E, cd
  <2>3. /\ lastGood'.have /\ lastGood'.offset = last'.offset /\ lastGood'.disp = last'.disp
        /\ lastGood'.rootDisp = last'.rootDisp /\ lastGood'.at = now
        /\ lastGood'.measuredAt = now - last'.age
        /\ last'.offset.num \in Int /\ last'.offset.den \in Nat /\ last'.disp \in Int
        /\ last'.path \in Nat /\ last'.rootDisp \in Int /\ last'.used = S
        /\ Abs(truth * last'.offset.den - last'.offset.num) <= last'.disp
        /\ Abs(truth * last'.offset.den - last'.offset.num)
             <= last'.path * last'.offset.den + last'.rootDisp
        /\ last'.age \in Nat /\ last'.age <= MaxAge
        /\ last'.stratum = ServedStratum(S, snap) /\ \E s \in S : last'.refid = Station[s]
        /\ LastShape'
    BY <1>2, <1>3, <2>1, <2>2, ServeTells
  <2>4. last'.stratum = originTier' + 1 /\ origin' = S
    <3>1. originTier' = Min({IF s \in Radio THEN 0 ELSE snap[s].stratum : s \in S})
      BY <1>1, <1>3, <2>3
    <3> QED BY <1>1, <1>3, <2>1, <2>2, <2>3, <3>1, StratumTold
  <2> DEFINE den == last'.offset.den
             num == last'.offset.num
             d == last'.disp
             r == last'.path * den + last'.rootDisp
  <2>5. den \in Nat /\ num \in Int /\ d \in Int /\ r \in Int
    BY <2>3
  <2>6. Abs(truth' * den - num) <= d + (now' - now) * Drift * den
    <3> HIDE DEF den, num, d, r
    <3>1. Abs(truth * den - num) <= d
      BY <2>3 DEF den, num, d
    <3> QED BY <1>2, <2>5, <3>1, TruthMovesOn
  <2>7. Abs(truth' * den - num) <= r + (now' - now) * Drift * den
    <3> HIDE DEF den, num, d, r
    <3>1. Abs(truth * den - num) <= r
      BY <2>3 DEF den, num, r
    <3> QED BY <1>2, <2>5, <3>1, TruthMovesOn
  <2>8. Covered'
    <3>1. Growth' = (now' - now) * Drift * den
      BY <2>3 DEF Growth
    <3>2. Off(truth)' = Abs(truth' * den - num)
      BY <2>3 DEF Off
    <3> QED BY <2>3, <2>6, <2>7, <3>1, <3>2 DEF Covered
  <2>9. Typed' /\ Attributed'
    BY <1>2, <2>3, <2>4 DEF Typed, Attributed
  <2>10. CoverInv'
    BY <1>2, <2>3, <2>8, <2>9 DEF CoverInv
  <2>11. HonestPass
    <3>1. last'.age <= MaxAge + CoastSeconds
      BY <2>3, SelectorAssumption
    <3> QED BY <2>3, <2>4, <3>1 DEF HonestPass, ServedCoversTruth, ClientBudgetCoversTruth,
                                    StratumOfOrigin, SynchronisedIsRecent
  <2> QED BY <2>10, <2>11
<1>4. ASSUME Coast PROVE CoverInv' /\ HonestPass
  <2>1. CASE ~lastGood.have
    <3>1. last' = [valid |-> FALSE, synchronised |-> FALSE, serving |-> "none", stratum |-> 16,
              offset |-> [num |-> 0, den |-> 1], disp |-> 0, path |-> 0, rootDisp |-> 0,
              refid |-> 0, age |-> 0, leap |-> FALSE, used |-> {}]
      BY <1>4, <2>1 DEF Coast, NothingServed, Unsynchronised
    <3>2. ~last'.synchronised /\ LastShape'
      BY <3>1 DEF LastShape
    <3>3. lastGood' = lastGood
      BY <1>4 DEF Coast
    <3> QED BY <1>2, <2>1, <3>2, <3>3 DEF CoverInv, HonestPass, ServedCoversTruth, ClientBudgetCoversTruth,
                                    StratumOfOrigin, SynchronisedIsRecent
  <2>2. CASE lastGood.have
    <3>1. /\ last' = [last EXCEPT !.valid = TRUE, !.serving = "coasting",
                     !.synchronised = now - lastGood.at <= CoastSeconds,
                     !.offset = lastGood.offset, !.stratum = last.stratum,
                     !.disp = lastGood.disp + Growth, !.rootDisp = lastGood.rootDisp + Growth,
                     !.age = now - lastGood.measuredAt, !.leap = FALSE, !.used = {}]
          /\ lastGood' = lastGood
      BY <1>4, <2>2, Zenon DEF Coast, CoastStratum
    <3>2. last' = [valid |-> TRUE, synchronised |-> now - lastGood.at <= CoastSeconds,
                   serving |-> "coasting", stratum |-> last.stratum, offset |-> lastGood.offset,
                   disp |-> lastGood.disp + Growth, path |-> last.path,
                   rootDisp |-> lastGood.rootDisp + Growth, refid |-> last.refid,
                   age |-> now - lastGood.measuredAt, leap |-> FALSE, used |-> {}]
      <4>1. LastShape
        BY DEF CoverInv
      <4> HIDE DEF E, cd
      <4> QED BY <3>1, <4>1 DEF LastShape
    <3>3. Typed /\ Covered /\ Attributed
      BY <2>2 DEF CoverInv
    <3>4. origin' = origin /\ originTier' = originTier
      BY <1>1, <3>2
    <3>5. LastShape'
      BY <3>2 DEF LastShape
    <3>6. /\ last'.path = last.path /\ last'.stratum = last.stratum /\ last'.refid = last.refid
          /\ last'.offset = lastGood.offset /\ last'.disp = lastGood.disp + Growth
          /\ last'.rootDisp = lastGood.rootDisp + Growth /\ last'.age = now - lastGood.measuredAt
          /\ last'.synchronised = (now - lastGood.at <= CoastSeconds)
      BY <3>2
    <3> DEFINE den == lastGood.offset.den
               num == lastGood.offset.num
               d == lastGood.disp
               r == last.path * den + lastGood.rootDisp
               a == lastGood.at
    <3>7. den \in Nat /\ num \in Int /\ d \in Int /\ r \in Int /\ a \in Nat /\ a <= now
      BY <3>3 DEF Typed
    <3>8. Abs(truth' * den - num) <= d + (now' - a) * Drift * den
      <4>1. Abs(truth * den - num) <= d + (now - a) * Drift * den
        BY <3>3 DEF Covered, Off, Growth
      <4> HIDE DEF den, num, d, r, a
      <4> QED BY <1>2, <3>7, <4>1, TruthMoves
    <3>9. Abs(truth' * den - num) <= r + (now' - a) * Drift * den
      <4>1. Abs(truth * den - num) <= r + (now - a) * Drift * den
        BY <3>3 DEF Covered, Off, Growth
      <4> HIDE DEF den, num, d, r, a
      <4> QED BY <1>2, <3>7, <4>1, TruthMoves
    <3>10. Covered'
      <4>1. Growth' = (now' - a) * Drift * den
        BY <3>1 DEF Growth
      <4>2. Off(truth)' = Abs(truth' * den - num)
        BY <3>1 DEF Off
      <4> QED BY <3>1, <3>6, <3>8, <3>9, <4>1, <4>2 DEF Covered
    <3>11. Typed' /\ Attributed'
      <4>1. now \in Nat /\ now' \in Nat /\ now <= now'
        BY <1>2
      <4> QED BY <3>1, <3>3, <3>4, <3>6, <4>1 DEF Typed, Attributed
    <3>12. CoverInv'
      BY <1>2, <2>2, <3>1, <3>5, <3>10, <3>11 DEF CoverInv
    <3>13. ServedCoversTruth /\ ClientBudgetCoversTruth
      <4>1. Growth \in Int
        BY <1>2, <3>7, SelectorAssumption DEF Growth
      <4>2. Abs(truth * den - num) <= d + Growth /\ Abs(truth * den - num) <= r + Growth
        BY <3>3 DEF Covered, Off
      <4>3. r + Growth = last.path * den + (lastGood.rootDisp + Growth)
        BY <3>3, <3>7, <4>1 DEF Typed
      <4> QED BY <3>6, <4>2, <4>3 DEF ServedCoversTruth, ClientBudgetCoversTruth
    <3>14. StratumOfOrigin'
      BY <3>3, <3>4, <3>6 DEF StratumOfOrigin, Attributed
    <3>15. SynchronisedIsRecent'
      <4> SUFFICES ASSUME last'.synchronised PROVE last'.age <= MaxAge + CoastSeconds
        BY DEF SynchronisedIsRecent
      <4>1. now - lastGood.at <= CoastSeconds
        BY <3>6
      <4>2. lastGood.at - lastGood.measuredAt <= MaxAge /\ last'.age = now - lastGood.measuredAt
        BY <3>3, <3>6 DEF Attributed
      <4> QED BY <1>2, <3>3, <4>1, <4>2, SelectorAssumption DEF Typed
    <3> QED BY <3>12, <3>13, <3>14, <3>15 DEF HonestPass
  <2> QED BY <2>1, <2>2
<1>5. (\E S \in SUBSET E : S # {} /\ Serve(S, cd, snap)) \/ Coast
  BY <1>1, PassServes, Zenon
<1> QED BY <1>3, <1>4, <1>5

(* An honest clock, for every set of sources that are all honest, every    *)
(* reading and age they show, every limit and every sleep: the dispersion  *)
(* served, and what a client makes of it, cover the truth through ageing,  *)
(* failover, failback and coasting, and the stratum, the reference and the *)
(* age said of the time are those of the readings it rests on              *)
(* (Selector::combine).                                                    *)
THEOREM HonestlyServed == ASSUME Liars = {} PROVE Spec => ServedHonestly
<1>1. CoverInv /\ UNCHANGED vars => CoverInv'
  BY DEF CoverInv, vars, selectorVars, LastShape, Typed, Covered, Attributed, Off, Growth
<1>2. CoverInv /\ [Next]_vars => CoverInv' /\ [HonestPass]_vars
  BY <1>1, CoverInvStep
<1>3. HonestPass <=> (/\ ServedCoversTruth /\ ClientBudgetCoversTruth
                      /\ StratumOfOrigin' /\ SynchronisedIsRecent')
  BY DEF HonestPass
<1> QED BY <1>2, <1>3, CoverInvInit, PTL DEF Spec, ServedHonestly

-----------------------------------------------------------------------------
(* A majority of honest receivers.                                         *)

(* The members of C that come no later than s when their offsets are       *)
(* sorted.                                                                 *)
UpTo(C, off, s) == {j \in C : off[j] < off[s] \/ (off[j] = off[s] /\ j <= s)}

(* No two members have the same place, ...                                 *)
LEMMA RankInjective ==
  ASSUME NEW C \in SUBSET Nat, IsFiniteSet(C), NEW off \in [C -> Int], NEW s \in C, NEW t \in C, s # t
  PROVE  Cardinality(UpTo(C, off, s)) # Cardinality(UpTo(C, off, t))
<1>1. ASSUME NEW a \in C, NEW b \in C, a # b, off[a] < off[b] \/ (off[a] = off[b] /\ a <= b)
      PROVE  Cardinality(UpTo(C, off, a)) # Cardinality(UpTo(C, off, b))
  <2>1. /\ off[a] \in Int /\ off[b] \in Int /\ a \in Nat /\ b \in Nat
        /\ \A j \in C : off[j] \in Int /\ j \in Nat
    OBVIOUS
  <2>2. UpTo(C, off, a) \subseteq UpTo(C, off, b)
    <3> SUFFICES ASSUME NEW j \in UpTo(C, off, a) PROVE j \in UpTo(C, off, b)
      OBVIOUS
    <3>1. j \in C /\ off[j] \in Int /\ j \in Nat /\ (off[j] < off[a] \/ (off[j] = off[a] /\ j <= a))
      BY <2>1 DEF UpTo
    <3>2. off[j] < off[b] \/ (off[j] = off[b] /\ j <= b)
      BY <1>1, <2>1, <3>1
    <3> QED BY <3>1, <3>2 DEF UpTo
  <2>3. b \in UpTo(C, off, b) /\ b \notin UpTo(C, off, a)
    BY <1>1, <2>1 DEF UpTo
  <2>4. IsFiniteSet(UpTo(C, off, b))
    BY FS_Subset DEF UpTo
  <2> QED BY <2>2, <2>3, <2>4, FS_Subset
<1>2. off[s] \in Int /\ off[t] \in Int /\ s \in Nat /\ t \in Nat
  OBVIOUS
<1>3. off[s] < off[t] \/ (off[s] = off[t] /\ s <= t) \/ off[t] < off[s] \/ (off[t] = off[s] /\ t <= s)
  BY <1>2
<1> QED BY <1>1, <1>3

(* ... so every place is taken.                                            *)
LEMMA RankTaken ==
  ASSUME NEW C \in SUBSET Nat, IsFiniteSet(C), NEW off \in [C -> Int], NEW n \in 1..Cardinality(C)
  PROVE  \E s \in C : Cardinality(UpTo(C, off, s)) = n
<1> DEFINE T == 1..Cardinality(C)
           f == [s \in C |-> Cardinality(UpTo(C, off, s))]
<1>1. Cardinality(C) \in Nat
  BY FS_CardinalityType
<1>2. \A s \in C : Cardinality(UpTo(C, off, s)) \in T
  <2> TAKE s \in C
  <2>1. UpTo(C, off, s) \in SUBSET C /\ s \in UpTo(C, off, s)
    BY DEF UpTo
  <2>2. IsFiniteSet(UpTo(C, off, s)) /\ Cardinality(UpTo(C, off, s)) <= Cardinality(C)
    BY <2>1, FS_Subset
  <2>3. Cardinality(UpTo(C, off, s)) \in Nat /\ Cardinality(UpTo(C, off, s)) # 0
    BY <2>1, <2>2, FS_CardinalityType, FS_EmptySet
  <2> QED BY <1>1, <2>2, <2>3
<1>3. f \in Injection(C, T)
  BY <1>2, RankInjective DEF Injection, IsInjective
<1>4. IsFiniteSet(T) /\ Cardinality(T) = Cardinality(C)
  BY <1>1, FS_Interval
<1>5. f \in Surjection(C, T)
  <2> HIDE DEF f, T
  <2> QED BY <1>3, <1>4, FS_Injection
<1> QED BY <1>5 DEF Surjection

(* Where the offset at a middle place lies when the members of H are more  *)
(* than half of C: between two of theirs.                                  *)
LEMMA MiddleHeld ==
  ASSUME NEW C \in SUBSET Nat, IsFiniteSet(C), NEW off \in [C -> Int], NEW H \in SUBSET C,
         Cardinality(H) > Cardinality(C \ H),
         NEW n \in 1..Cardinality(C), 2 * n >= Cardinality(C), 2 * n <= Cardinality(C) + 2
  PROVE  /\ AtRank(C, off, n) \in Int
         /\ \E h \in H : off[h] <= AtRank(C, off, n)
         /\ \E h \in H : AtRank(C, off, n) <= off[h]
<1> DEFINE s == CHOOSE t \in C : Cardinality(UpTo(C, off, t)) = n
           U == UpTo(C, off, s)
<1>1. s \in C /\ Cardinality(U) = n /\ AtRank(C, off, n) = off[s]
  <2>1. s \in C /\ Cardinality(U) = n
    BY RankTaken
  <2>2. AtRank(C, off, n) = off[s]
    BY Zenon DEF AtRank, UpTo
  <2> QED BY <2>1, <2>2
<1> HIDE DEF s
<1>2. off[s] \in Int /\ (\A h \in H : off[h] \in Int /\ h \in C) /\ \A j \in C : off[j] \in Int /\ j \in Nat
  BY <1>1
<1>3. IsFiniteSet(H) /\ IsFiniteSet(C \ H) /\ IsFiniteSet(U) /\ U \in SUBSET C
  BY FS_Subset DEF UpTo
<1>4. Cardinality(H) \in Nat /\ Cardinality(C \ H) \in Nat /\ Cardinality(C) \in Nat /\ n \in Nat
  BY <1>3, FS_CardinalityType
<1>5. Cardinality(C) = Cardinality(H) + Cardinality(C \ H)
  <2>1. C \intersect H = H
    OBVIOUS
  <2>2. Cardinality(C \ H) = Cardinality(C) - Cardinality(C \intersect H)
    BY FS_Difference
  <2> QED BY <1>4, <2>1, <2>2
<1>6. ASSUME ~\E h \in H : off[h] <= off[s] PROVE FALSE
  <2>1. U \in SUBSET (C \ H)
    <3> SUFFICES ASSUME NEW j \in U PROVE j \in C /\ j \notin H
      OBVIOUS
    <3>1. j \in C /\ off[j] <= off[s]
      BY <1>2 DEF UpTo
    <3> QED BY <1>6, <3>1
  <2>2. n <= Cardinality(C \ H)
    BY <1>1, <1>3, <2>1, FS_Subset
  <2> QED BY <1>4, <1>5, <2>2
<1>7. ASSUME ~\E h \in H : off[s] <= off[h] PROVE FALSE
  <2>1. H \in SUBSET (U \ {s}) /\ s \in U
    <3>1. s \in U
      BY <1>1, <1>2 DEF UpTo
    <3>2. ASSUME NEW h \in H PROVE h \in U /\ h # s
      <4>1. off[h] < off[s] /\ h \in C
        BY <1>2, <1>7
      <4> QED BY <1>2, <4>1 DEF UpTo
    <3> QED BY <3>1, <3>2
  <2>2. IsFiniteSet(U \ {s}) /\ Cardinality(U \ {s}) = n - 1
    BY <1>1, <1>3, <2>1, FS_RemoveElement
  <2>3. Cardinality(H) <= n - 1
    <3> DEFINE V == U \ {s}
    <3>1. H \in SUBSET V /\ IsFiniteSet(V) /\ Cardinality(V) = n - 1
      BY <2>1, <2>2
    <3> HIDE DEF V
    <3>2. Cardinality(H) <= Cardinality(V)
      BY <3>1, FS_Subset
    <3> QED BY <3>1, <3>2
  <2> QED BY <1>4, <1>5, <2>3
<1> QED BY <1>1, <1>2, <1>6, <1>7

LEMMA HalfBounds ==
  ASSUME NEW n \in Nat, n > 0
  PROVE  /\ (n + 1) \div 2 \in 1..n /\ 2 * ((n + 1) \div 2) >= n /\ 2 * ((n + 1) \div 2) <= n + 2
         /\ n \div 2 + 1 >= 1 /\ 2 * (n \div 2 + 1) >= n /\ 2 * (n \div 2 + 1) <= n + 2
         /\ n \div 2 + 1 \in Int /\ (n > 1 => n \div 2 + 1 \in 1..n)
  OBVIOUS

(* The median of a class with an honest majority is as close to an honest  *)
(* member as the honest are to each other.                                 *)
LEMMA HonestInstant ==
  ASSUME NEW C \in SUBSET Sources, NEW off \in [C -> Int], Enough(C),
         Cardinality(C \intersect Honest) > Cardinality(C \ Honest),
         \A s \in C : off[s] \in Readings[s], NEW s \in C \intersect Honest
  PROVE  Instant2(C, off, s) \in -(2 * Limit)..(2 * Limit)
<1> DEFINE H == C \intersect Honest
           n == Cardinality(C)
           a == (n + 1) \div 2
           b == n \div 2 + 1
           x == AtRank(C, off, a)
           y == AtRank(C, off, b)
<1>1. C \in SUBSET Nat /\ IsFiniteSet(C) /\ n \in Nat
  BY SourcesAssumption, FS_Subset, FS_CardinalityType
<1>2. n > 1
  BY <1>1 DEF Enough
<1>3. Cardinality(H) > Cardinality(C \ H)
  <2>1. C \ H = C \ Honest
    OBVIOUS
  <2> QED BY <2>1
<1>4. a \in 1..n /\ 2 * a >= n /\ 2 * a <= n + 2 /\ b \in 1..n /\ 2 * b >= n /\ 2 * b <= n + 2
  <2> HIDE DEF n
  <2> QED BY <1>1, <1>2, HalfBounds
<1>5. /\ x \in Int /\ (\E h \in H : off[h] <= x) /\ (\E h \in H : x <= off[h])
      /\ y \in Int /\ (\E h \in H : off[h] <= y) /\ (\E h \in H : y <= off[h])
  <2> H \in SUBSET C
    OBVIOUS
  <2> HIDE DEF a, b, H
  <2> QED BY <1>1, <1>3, <1>4, MiddleHeld
<1>6. \A h \in H : off[h] - off[s] <= Limit /\ off[s] - off[h] <= Limit /\ off[h] \in Int
  BY ReadingsAssumption
<1>7. Limit \in Nat /\ off[s] \in Int
  BY AgreementAssumption
<1> HIDE DEF a, b, H, x, y
<1>8. x - off[s] <= Limit /\ off[s] - x <= Limit /\ y - off[s] <= Limit /\ off[s] - y <= Limit
  BY <1>5, <1>6, <1>7
<1>9. Instant2(C, off, s) = 2 * off[s] - (x + y)
  <2>1. C # {}
    OBVIOUS
  <2> QED BY <2>1 DEF Instant2, Median2, x, y, a, b
<1> QED BY <1>5, <1>7, <1>8, <1>9

LEMMA QuotientAtMost ==
  ASSUME NEW a \in Nat, NEW b \in Nat \ {0}, NEW c \in Nat, a < b * (c + 1)
  PROVE  a \div b <= c /\ a \div b \in Nat
<1> DEFINE q == a \div b
<1>1. q \in Nat /\ b * q <= a
  OBVIOUS
<1> HIDE DEF q
<1>2. ASSUME q >= c + 1 PROVE FALSE
  <2> DEFINE e == q - (c + 1)
  <2>1. e \in Nat /\ q = (c + 1) + e
    BY <1>1, <1>2
  <2> HIDE DEF e
  <2>2. b * q = b * (c + 1) + b * e /\ b * e >= 0
    BY <2>1
  <2>3. b * (c + 1) \in Int /\ b * e \in Int
    BY <2>1
  <2> QED BY <1>1, <2>2, <2>3
<1> QED BY <1>1, <1>2 DEF q

(* An average moves towards what it averages, and never past it.           *)
LEMMA BlendBetween ==
  ASSUME NEW B \in Nat, NEW avg \in -B..B, NEW inst \in -B..B, NEW dt \in Nat,
         NEW v \in Blend(avg, inst, dt)
  PROVE  v \in -B..B
<1> DEFINE gap == IF inst >= avg THEN inst - avg ELSE avg - inst
           least == (dt * gap) \div (Tau + dt)
           most == IF dt >= Tau THEN gap ELSE (dt * gap + Tau - 1) \div Tau
<1>1. gap \in Nat /\ Tau \in Nat \ {0} /\ avg \in Int /\ inst \in Int
  BY AgreementAssumption
<1> HIDE DEF gap
<1>2. dt * gap \in Nat
  BY <1>1
<1>3. least \in Nat
  BY <1>1, <1>2
<1>4. most \in Nat /\ most <= gap
  <2>1. CASE dt >= Tau
    BY <1>1, <2>1
  <2>2. CASE dt < Tau
    <3> DEFINE e == Tau - dt
               a == (dt * gap + Tau) - 1
    <3>1. e \in Nat /\ Tau = dt + e
      BY <1>1, <2>2
    <3>2. Tau * (gap + 1) = (dt * gap + e * gap) + Tau /\ e * gap \in Nat
      <4> HIDE DEF e
      <4>1. Tau * (gap + 1) = Tau * gap + Tau
        BY <1>1
      <4>2. Tau * gap = dt * gap + e * gap /\ e * gap \in Nat
        BY <1>1, <3>1
      <4> QED BY <4>1, <4>2
    <3>3. a \in Nat /\ a < Tau * (gap + 1)
      BY <1>1, <1>2, <3>2
    <3> HIDE DEF a
    <3>4. a \div Tau <= gap /\ a \div Tau \in Nat
      BY <1>1, <3>3, QuotientAtMost
    <3> QED BY <1>1, <2>2, <3>4 DEF a
  <2> QED BY <1>1, <2>1, <2>2
<1>5. PICK d \in least..most : v = IF inst >= avg THEN avg + d ELSE avg - d
  BY DEF Blend, gap
<1> HIDE DEF least, most
<1>6. d \in Nat /\ d <= gap
  BY <1>1, <1>3, <1>4, <1>5
<1> QED BY <1>1, <1>5, <1>6 DEF gap

(* While the honest are the majority, their averages are within the limit. *)
WithinLimit(s) ==
  /\ residual[s].avg \in -(2 * Limit)..(2 * Limit)
  /\ residual[s].lastAt \in Nat /\ residual[s].lastAt <= now

(* Where the honest stand when the others are outnumbered in every pass    *)
(* that judges. The invariant speaks of their averages too: an average is  *)
(* judged long after the offsets that made it.                             *)
MajorityInv ==
  /\ now \in Nat /\ (part = "agreement" => now <= JudgedNow) /\ (part = "failover" => now <= MaxNow)
  /\ majority => refused \intersect Honest = {} /\ \A s \in Honest : WithinLimit(s)

LEMMA MajorityInvInit == JudgementInit => MajorityInv
<1> SUFFICES ASSUME JudgementInit PROVE MajorityInv
  OBVIOUS
<1>1. now = 1 /\ refused = {} /\ \A s \in Sources : residual[s] = Unmeasured
  BY DEF JudgementInit, FailoverInit, ClockInit, AgreementInit
<1>2. Limit \in Nat /\ Honest \subseteq Sources /\ 1 <= JudgedNow /\ 1 <= MaxNow
  BY AgreementAssumption, ReadingsAssumption, MaxNowAssumption
<1>3. \A s \in Honest : WithinLimit(s)
  BY <1>1, <1>2 DEF WithinLimit, Unmeasured
<1> QED BY <1>1, <1>2, <1>3 DEF MajorityInv

(* What one pass makes of one honest source.                               *)
LEMMA HonestVerdict ==
  ASSUME NEW A \in SUBSET Sources, NEW off \in [A -> Int], \A s \in A : off[s] \in Readings[s],
         Enough(A) => Cardinality(A \intersect Honest) > Cardinality(A \ Honest),
         NEW s \in A \intersect Honest, now \in Nat, WithinLimit(s), NEW v \in Averages(A, off, s)
  PROVE  v \in -(2 * Limit)..(2 * Limit) /\ ~Refused(A, s, v)
<1>1. Limit \in Nat
  BY AgreementAssumption
<1>2. v \in -(2 * Limit)..(2 * Limit)
  <2>1. CASE ~Enough(A)
    BY <2>1 DEF Averages, WithinLimit
  <2>2. CASE Enough(A)
    <3> DEFINE i == Instant2(A, off, s)
    <3>1. i \in -(2 * Limit)..(2 * Limit)
      BY <2>2, HonestInstant
    <3> HIDE DEF i
    <3>2. CASE ~residual[s].seeded
      <4>1. v = i
        BY <2>2, <3>2 DEF Averages, i
      <4> QED BY <3>1, <4>1
    <3>3. CASE residual[s].seeded
      <4> DEFINE B == 2 * Limit
                 dt == now - residual[s].lastAt
                 old == residual[s].avg
      <4>1. v \in Blend(old, i, dt)
        BY <2>2, <3>3 DEF Averages, i
      <4>2. B \in Nat /\ dt \in Nat /\ old \in -B..B /\ i \in -B..B
        BY <1>1, <3>1 DEF WithinLimit
      <4>3. v \in -B..B
        <5> HIDE DEF B, dt, old
        <5> QED BY <4>1, <4>2, BlendBetween
      <4> QED BY <4>3
    <3> QED BY <3>2, <3>3
  <2> QED BY <2>1, <2>2
<1> QED BY <1>1, <1>2 DEF Refused

LEMMA PassKeepsHonest ==
  ASSUME MajorityInv, Pass
  PROVE  MajorityInv'
<1>0. PICK A \in SUBSET Sources : \E off \in [A -> UNION {Readings[s] : s \in A}] :
       /\ \A s \in A : off[s] \in Readings[s]
       /\ Judge(A, {}, off)
       /\ majority' = (majority /\ (Enough(A) =>
                         Cardinality(A \intersect Honest) > Cardinality(A \ Honest)))
  BY Zenon DEF Pass
<1>1. PICK off \in [A -> UNION {Readings[s] : s \in A}] :
       /\ \A s \in A : off[s] \in Readings[s]
       /\ Judge(A, {}, off)
       /\ majority' = (majority /\ (Enough(A) =>
                         Cardinality(A \intersect Honest) > Cardinality(A \ Honest)))
  BY <1>0
<1>2. off \in [A -> Int]
  BY <1>1, ReadingsAssumption
<1>3. part' = part /\ part = "agreement" /\ now \in Nat /\ now' \in Nat /\ now <= now' /\ now' <= JudgedNow
  <2>1. now \in Nat /\ now <= JudgedNow /\ JudgedNow \in Nat /\ part = "agreement" /\ part' = part
    BY ReadingsAssumption DEF MajorityInv, Pass
  <2>2. \E d \in 1..1 : now' = IF now + d < JudgedNow THEN now + d ELSE JudgedNow
    BY DEF Pass, ByTheTick!Sleep
  <2> QED BY <2>1, <2>2
<1> DEFINE Class(t) == IF t \in A THEN A ELSE {}
           All == A \union {}
<1>4. PICK avg :
       /\ \A t \in All : avg[t] \in Averages(Class(t), off, t)
       /\ refused' = {t \in All : Refused(Class(t), t, avg[t])}
       /\ residual' = [t \in Sources |->
            IF t \in All THEN Residual(Class(t), t, avg[t]) ELSE residual[t]]
  <2>1. PICK may \in {[t \in All |-> Averages(Class(t), off, t)]} :
          \E avg \in {f \in [All -> UNION {may[s] : s \in All}] : \A s \in All : f[s] \in may[s]} :
            /\ refused' = {t \in All : Refused(Class(t), t, avg[t])}
            /\ residual' = [t \in Sources |->
                 IF t \in All THEN Residual(Class(t), t, avg[t]) ELSE residual[t]]
    BY <1>1, Zenon DEF Judge
  <2>2. \A t \in All : may[t] = Averages(Class(t), off, t)
    BY <2>1
  <2> QED BY <2>1, <2>2
<1>5. \A t \in A : /\ t \in All /\ Class(t) = A
  OBVIOUS
<1>6. ASSUME majority' PROVE refused' \intersect Honest = {} /\ \A s \in Honest : WithinLimit(s)'
  <2>1. majority /\ (Enough(A) => Cardinality(A \intersect Honest) > Cardinality(A \ Honest))
    BY <1>1, <1>6
  <2>2. \A s \in Honest : WithinLimit(s) /\ s \in Sources
    BY <2>1, ReadingsAssumption DEF MajorityInv
  <2>3. ASSUME NEW s \in Honest PROVE s \notin refused' /\ WithinLimit(s)'
    <3>1. CASE s \notin A
      <4>1. s \notin All /\ s \notin refused' /\ residual'[s] = residual[s]
        BY <1>4, <2>2, <3>1
      <4> QED BY <1>3, <2>2, <4>1 DEF WithinLimit
    <3>2. CASE s \in A
      <4>1. avg[s] \in Averages(A, off, s) /\ residual'[s] = Residual(A, s, avg[s])
        BY <1>4, <1>5, <2>2, <3>2
      <4>2. avg[s] \in -(2 * Limit)..(2 * Limit) /\ ~Refused(A, s, avg[s])
        BY <1>1, <1>2, <1>3, <2>1, <2>2, <2>3, <3>2, <4>1, HonestVerdict
      <4>3. s \notin refused'
        BY <1>4, <1>5, <3>2, <4>2
      <4>4. residual'[s] = [seeded |-> residual[s].seeded \/ Enough(A), avg |-> avg[s],
                            lastAt |-> now, firstAt |-> FirstAt(A, s)]
        BY <4>1, <4>2, Zenon DEF Residual
      <4>5. residual'[s].avg = avg[s] /\ residual'[s].lastAt = now
        BY <4>4
      <4> QED BY <1>3, <4>2, <4>3, <4>5 DEF WithinLimit
    <3> QED BY <3>1, <3>2
  <2> QED BY <2>3
<1> QED BY <1>3, <1>6 DEF MajorityInv

(* One receiver that is badly wrong does not get the good ones refused,    *)
(* whatever the number of sources and of passes and whatever the others    *)
(* read: while the honest outnumber the others in every pass that judges,  *)
(* no honest source is refused (the agreement part of Selector::combine).  *)
THEOREM HonestAreKept == JudgementSpec => []HonestNeverRefused
<1>1. MajorityInv /\ [JudgementNext]_judgementVars => MajorityInv'
  <2> SUFFICES ASSUME MajorityInv, [JudgementNext]_judgementVars PROVE MajorityInv'
    OBVIOUS
  <2>1. CASE Switch
    <3>1. part' = part /\ majority' = majority /\ refused' = refused /\ residual' = residual
      BY <2>1 DEF Switch, classVars, agreementVars
    <3>2. now' \in Nat /\ now <= now' /\ now' <= MaxNow /\ now \in Nat /\ part = "failover"
      BY <2>1, MaxNowAssumption DEF Switch, FailoverNext, Sleep, MajorityInv
    <3> QED BY <3>1, <3>2 DEF MajorityInv, WithinLimit
  <2>2. CASE Pass
    BY <2>2, PassKeepsHonest
  <2>3. CASE Intersect
    <3>1. part' = part /\ majority' = majority /\ refused' = refused /\ residual' = residual /\ now' = now
      BY <2>3 DEF Intersect, classVars, agreementVars
    <3> QED BY <3>1 DEF MajorityInv, WithinLimit
  <2>4. CASE UNCHANGED judgementVars
    <3>1. part' = part /\ majority' = majority /\ refused' = refused /\ residual' = residual /\ now' = now
      BY <2>4 DEF judgementVars, classVars, agreementVars
    <3> QED BY <3>1 DEF MajorityInv, WithinLimit
  <2> QED BY <2>1, <2>2, <2>3, <2>4 DEF JudgementNext, Over
<1>2. MajorityInv => HonestNeverRefused
  BY DEF MajorityInv, HonestNeverRefused
<1> QED BY <1>1, <1>2, MajorityInvInit, PTL DEF JudgementSpec

-----------------------------------------------------------------------------
(* The intersection.                                                       *)

(* A candidate the sweep can take: an interval with an inside.             *)
Sound(C, cd) ==
  /\ C \in SUBSET Nat /\ IsFiniteSet(C) /\ C # {}
  /\ \A k \in C : cd[k].offset \in Int /\ cd[k].dist \in Nat \ {0} /\ cd[k].w \in Nat \ {0}

\* The intervals open once the sweep has taken k's opening edge, and those over a point.
Open(C, cd, k) ==
  {j \in C : (Lo(cd, j) < Lo(cd, k) \/ (Lo(cd, j) = Lo(cd, k) /\ j <= k)) /\ Lo(cd, k) < Hi(cd, j)}
Across(C, cd, x) == {k \in C : Lo(cd, k) <= x /\ x < Hi(cd, k)}

LEMMA Edges ==
  ASSUME NEW C, NEW cd, Sound(C, cd), NEW k \in C
  PROVE  Lo(cd, k) \in Int /\ Hi(cd, k) \in Int /\ Lo(cd, k) < Hi(cd, k) /\ k \in Nat
  BY DEF Sound, Lo, Hi

(* What the sweep counts at an opening edge, opened less closed, is the    *)
(* number of intervals then open.                                          *)
LEMMA OpenCounted ==
  ASSUME NEW C, NEW cd, Sound(C, cd), NEW k \in C
  PROVE  /\ OpenAfter(C, cd, k) = Cardinality(Open(C, cd, k)) /\ OpenAfter(C, cd, k) \in Nat
         /\ Open(C, cd, k) \in SUBSET Across(C, cd, Lo(cd, k))
         /\ IsFiniteSet(Across(C, cd, Lo(cd, k)))
<1> DEFINE at == Lo(cd, k)
           X == {j \in C : Lo(cd, j) < at \/ (Lo(cd, j) = at /\ j <= k)}
           Y == {j \in C : Hi(cd, j) <= at}
<1>1. IsFiniteSet(C)
  BY DEF Sound
<1>2. \A j \in C : Lo(cd, j) \in Int /\ Hi(cd, j) \in Int /\ Lo(cd, j) < Hi(cd, j)
  BY Edges
<1>3. at \in Int
  BY <1>2
<1>4. IsFiniteSet(X) /\ IsFiniteSet(Y)
  BY <1>1, FS_Subset
<1>5. Y \subseteq X
  BY <1>2, <1>3
<1>6. X \ Y = Open(C, cd, k)
  BY <1>2, <1>3 DEF Open
<1>7. X \intersect Y = Y
  BY <1>5
<1>8. OpenAfter(C, cd, k) = Cardinality(X) - Cardinality(Y)
  BY DEF OpenAfter
<1>9. Open(C, cd, k) \in SUBSET Across(C, cd, at)
  BY <1>2, <1>3 DEF Open, Across
<1>10. IsFiniteSet(Across(C, cd, at))
  BY <1>1, FS_Subset DEF Across
<1> HIDE DEF X, Y, at
<1>11. Cardinality(X \ Y) = Cardinality(X) - Cardinality(X \intersect Y) /\ IsFiniteSet(X \ Y)
  BY <1>4, FS_Difference
<1>12. Cardinality(X \ Y) \in Nat
  BY <1>11, FS_CardinalityType
<1> QED BY <1>6, <1>7, <1>8, <1>9, <1>10, <1>11, <1>12 DEF at

(* The last of those that open at one point has them all open.             *)
LEMMA LastOpens ==
  ASSUME NEW C, NEW cd, Sound(C, cd), NEW k \in C
  PROVE  \E m \in C : Lo(cd, m) = Lo(cd, k) /\ Open(C, cd, m) = Across(C, cd, Lo(cd, k))
<1> DEFINE T == {j \in C : Lo(cd, j) = Lo(cd, k)}
<1>1. IsFiniteSet(C) /\ C \in SUBSET Nat
  BY DEF Sound
<1>2. T \in SUBSET Int /\ T # {} /\ IsFiniteSet(T)
  <2>1. T \in SUBSET C /\ k \in T
    OBVIOUS
  <2> HIDE DEF T
  <2>2. IsFiniteSet(T)
    BY <1>1, <2>1, FS_Subset
  <2>3. T \subseteq Int
    BY <1>1, <2>1
  <2> QED BY <2>1, <2>2, <2>3
<1>3. PICK m \in T : \A j \in T : m >= j
  <2> HIDE DEF T
  <2> QED BY <1>2, GreatestIs
<1>4. \A j \in C : Lo(cd, j) \in Int /\ Hi(cd, j) \in Int /\ j \in Nat
  BY Edges
<1>5. m \in C /\ Lo(cd, m) = Lo(cd, k)
  BY <1>3
<1>6. \A j \in C : Lo(cd, j) <= Lo(cd, k) <=> (Lo(cd, j) < Lo(cd, m) \/ (Lo(cd, j) = Lo(cd, m) /\ j <= m))
  BY <1>3, <1>4, <1>5
<1>7. Open(C, cd, m) = Across(C, cd, Lo(cd, k))
  BY <1>5, <1>6 DEF Open, Across
<1> QED BY <1>5, <1>7

(* The sweep's peak is the size of the largest overlap.                    *)
LEMMA PeakIsOverlap ==
  ASSUME NEW C, NEW cd, Sound(C, cd)
  PROVE  LET peaks == {OpenAfter(C, cd, k) : k \in C}
             overlaps == {Cardinality(Across(C, cd, x)) : x \in {Lo(cd, k) : k \in C}}
         IN /\ Best(C, cd) \in peaks /\ Best(C, cd) \in Nat /\ (\A n \in peaks : n <= Best(C, cd))
            /\ Best(C, cd) = Max(overlaps)
<1> DEFINE peaks == {OpenAfter(C, cd, k) : k \in C}
           overlaps == {Cardinality(Across(C, cd, x)) : x \in {Lo(cd, k) : k \in C}}
           f == [k \in C |-> OpenAfter(C, cd, k)]
           g == [k \in C |-> Cardinality(Across(C, cd, Lo(cd, k)))]
<1>1. IsFiniteSet(C) /\ C # {}
  BY DEF Sound
<1>2. \A k \in C : /\ OpenAfter(C, cd, k) \in Nat
                   /\ Cardinality(Across(C, cd, Lo(cd, k))) \in Nat
                   /\ OpenAfter(C, cd, k) <= Cardinality(Across(C, cd, Lo(cd, k)))
                   /\ \E m \in C : OpenAfter(C, cd, m) = Cardinality(Across(C, cd, Lo(cd, k)))
  <2> TAKE k \in C
  <2>1. /\ OpenAfter(C, cd, k) = Cardinality(Open(C, cd, k)) /\ OpenAfter(C, cd, k) \in Nat
        /\ Open(C, cd, k) \in SUBSET Across(C, cd, Lo(cd, k))
        /\ IsFiniteSet(Across(C, cd, Lo(cd, k)))
    BY OpenCounted
  <2>2. PICK m \in C : Lo(cd, m) = Lo(cd, k) /\ Open(C, cd, m) = Across(C, cd, Lo(cd, k))
    BY LastOpens
  <2>3. OpenAfter(C, cd, m) = Cardinality(Open(C, cd, m))
    BY OpenCounted
  <2> QED BY <2>1, <2>2, <2>3, FS_Subset, FS_CardinalityType
<1>3. IsFiniteSet(peaks)
  <2>1. DOMAIN f = C /\ peaks = {f[k] : k \in C}
    OBVIOUS
  <2> HIDE DEF f, peaks
  <2> QED BY <1>1, <2>1, ImageFinite
<1>4. IsFiniteSet(overlaps)
  <2>1. DOMAIN g = C /\ overlaps = {g[k] : k \in C}
    OBVIOUS
  <2> HIDE DEF g, overlaps
  <2> QED BY <1>1, <2>1, ImageFinite
<1>5. peaks \in SUBSET Int /\ overlaps \in SUBSET Int /\ peaks # {} /\ overlaps # {}
  BY <1>1, <1>2
<1>6. \A n \in peaks : n \in Nat /\ \E x \in overlaps : n <= x
  BY <1>2
<1>7. \A x \in overlaps : x \in peaks
  BY <1>2
<1>8. Best(C, cd) = Max(peaks)
  BY DEF Best
<1> HIDE DEF peaks, overlaps
<1>9. Max(peaks) \in peaks /\ \A n \in peaks : Max(peaks) >= n
  BY <1>3, <1>5, MaxIs
<1>10. Max(overlaps) \in overlaps /\ \A x \in overlaps : Max(overlaps) >= x
  BY <1>4, <1>5, MaxIs
<1>11. Max(peaks) = Max(overlaps)
  <2>1. Max(peaks) >= Max(overlaps)
    BY <1>7, <1>9, <1>10
  <2>2. PICK x \in overlaps : Max(peaks) <= x
    BY <1>6, <1>9
  <2>3. Max(peaks) \in Int /\ Max(overlaps) \in Int /\ x \in Int
    BY <1>5, <1>9, <1>10, <2>2
  <2> QED BY <1>10, <2>1, <2>2, <2>3
<1>12. \A n \in peaks : n <= Max(peaks)
  BY <1>5, <1>9
<1> QED BY <1>6, <1>8, <1>9, <1>11, <1>12 DEF peaks, overlaps

(* Of finitely many, the first of the least.                               *)
LEMMA FirstOfLeast ==
  ASSUME NEW R, IsFiniteSet(R), R # {}, NEW key \in [R -> Int], NEW lo \in [R -> Int]
  PROVE  \E r \in R : \A q \in R : ~(key[q] < key[r]) /\ (~(key[r] < key[q]) => lo[r] <= lo[q])
<1> DEFINE ks == {key[r] : r \in R}
           T == {r \in R : \A q \in R : key[r] <= key[q]}
           ls == {lo[r] : r \in T}
           h == [r \in T |-> lo[r]]
<1>1. IsFiniteSet(ks) /\ ks \in SUBSET Int /\ ks # {}
  <2>1. DOMAIN key = R
    OBVIOUS
  <2>2. IsFiniteSet(ks)
    BY <2>1, ImageFinite
  <2> QED BY <2>2
<1>2. PICK m \in ks : \A x \in ks : m <= x
  <2> HIDE DEF ks
  <2> QED BY <1>1, GreatestIs
<1>3. T # {} /\ T \in SUBSET R
  BY <1>2
<1>4. IsFiniteSet(T)
  BY <1>3, FS_Subset
<1>5. IsFiniteSet(ls) /\ ls \in SUBSET Int /\ ls # {}
  <2>1. DOMAIN h = T /\ ls = {h[r] : r \in T}
    OBVIOUS
  <2>2. IsFiniteSet(ls)
    <3> HIDE DEF T, ls, h
    <3> QED BY <1>4, <2>1, ImageFinite
  <2> QED BY <1>3, <2>2
<1>6. PICK a \in ls : \A x \in ls : a <= x
  <2> HIDE DEF ls
  <2> QED BY <1>5, GreatestIs
<1>7. PICK r \in T : a = lo[r]
  BY <1>6
<1>8. ASSUME NEW q \in R PROVE ~(key[q] < key[r]) /\ (~(key[r] < key[q]) => lo[r] <= lo[q])
  <2>1. key[q] \in Int /\ key[r] \in Int /\ key[r] <= key[q] /\ r \in R
    BY <1>7
  <2>2. ASSUME ~(key[r] < key[q]) PROVE lo[r] <= lo[q]
    <3>1. key[q] = key[r]
      BY <2>1, <2>2
    <3>2. q \in T
      BY <1>7, <3>1
    <3> QED BY <1>6, <1>7, <3>2
  <2> QED BY <2>1, <2>2
<1> QED BY <1>7, <1>8

(* A region begins where an interval opens at the peak, and ends no later  *)
(* than that interval.                                                     *)
LEMMA RegionFacts ==
  ASSUME NEW C, NEW cd, Sound(C, cd)
  PROVE  /\ IsFiniteSet(Regions(C, cd)) /\ Regions(C, cd) # {}
         /\ \A r \in Regions(C, cd) :
              /\ r.lo \in Int /\ r.hi \in Int
              /\ \E k \in C : r.lo = Lo(cd, k) /\ r.hi <= Hi(cd, k) /\ OpenAfter(C, cd, k) = Best(C, cd)
<1> DEFINE ends == {Lo(cd, j) : j \in C} \union {Hi(cd, j) : j \in C}
           later(k) == {e \in ends : e > Lo(cd, k)}
           K == {j \in C : OpenAfter(C, cd, j) = Best(C, cd)}
           f == [k \in K |-> [lo |-> Lo(cd, k), hi |-> Min(later(k))]]
<1>1. IsFiniteSet(C) /\ C # {}
  BY DEF Sound
<1>2. \A j \in C : Lo(cd, j) \in Int /\ Hi(cd, j) \in Int /\ Lo(cd, j) < Hi(cd, j)
  BY Edges
<1>3. Regions(C, cd) = {f[k] : k \in K}
  BY DEF Regions
<1>4. K # {} /\ K \in SUBSET C
  <2>1. Best(C, cd) \in {OpenAfter(C, cd, k) : k \in C}
    BY PeakIsOverlap
  <2> QED BY <2>1
<1>5. IsFiniteSet(K)
  BY <1>1, <1>4, FS_Subset
<1>6. IsFiniteSet(ends) /\ ends \in SUBSET Int
  <2> DEFINE los == [j \in C |-> Lo(cd, j)]
             his == [j \in C |-> Hi(cd, j)]
             A == {los[j] : j \in C}
             B == {his[j] : j \in C}
  <2>1. DOMAIN los = C /\ DOMAIN his = C /\ ends = A \union B
    OBVIOUS
  <2>2. IsFiniteSet(A) /\ IsFiniteSet(B)
    <3> HIDE DEF los, his
    <3> QED BY <1>1, <2>1, ImageFinite
  <2>3. IsFiniteSet(A \union B)
    <3> HIDE DEF A, B
    <3> QED BY <2>2, FS_Union
  <2> QED BY <1>2, <2>1, <2>3
<1>7. ASSUME NEW k \in C PROVE Min(later(k)) \in Int /\ Min(later(k)) <= Hi(cd, k)
  <2>1. later(k) \in SUBSET ends /\ Hi(cd, k) \in later(k)
    BY <1>2
  <2>2. IsFiniteSet(later(k)) /\ later(k) \in SUBSET Int /\ later(k) # {}
    <3> HIDE DEF ends, later
    <3> QED BY <1>6, <2>1, FS_Subset
  <2> HIDE DEF later
  <2>3. Min(later(k)) \in later(k) /\ \A x \in later(k) : Min(later(k)) <= x
    BY <2>2, MaxIs
  <2> QED BY <2>1, <2>2, <2>3
<1>8. IsFiniteSet(Regions(C, cd)) /\ Regions(C, cd) # {}
  <2>1. DOMAIN f = K
    OBVIOUS
  <2> HIDE DEF f, K
  <2> QED BY <1>3, <1>4, <1>5, <2>1, ImageFinite
<1>9. ASSUME NEW r \in Regions(C, cd)
      PROVE  /\ r.lo \in Int /\ r.hi \in Int
             /\ \E k \in C : r.lo = Lo(cd, k) /\ r.hi <= Hi(cd, k) /\ OpenAfter(C, cd, k) = Best(C, cd)
  <2>1. PICK k \in K : r = f[k]
    BY <1>3
  <2>2. k \in C /\ OpenAfter(C, cd, k) = Best(C, cd) /\ r.lo = Lo(cd, k) /\ r.hi = Min(later(k))
    <3> HIDE DEF later
    <3> QED BY <2>1
  <2> HIDE DEF later, f, K
  <2> QED BY <1>2, <1>7, <2>2
<1> QED BY <1>8, <1>9

(* The region picked is one of those at the peak, and when a time is served*)
(* none is nearer to it.                                                   *)
LEMMA PickFacts ==
  ASSUME NEW C, NEW cd, Sound(C, cd), NEW have \in BOOLEAN, NEW at, at.num \in Int, at.den \in Int
  PROVE  /\ Pick(C, cd, have, at) \in Regions(C, cd)
         /\ have => \A q \in Regions(C, cd) : ~(Away(at, q) < Away(at, Pick(C, cd, have, at)))
<1> DEFINE R == Regions(C, cd)
           key == [r \in R |-> IF have THEN Away(at, r) ELSE -Score(C, cd, r)]
           lo == [r \in R |-> r.lo]
           Better(r, q) == IF have THEN Away(at, r) < Away(at, q)
                                   ELSE Score(C, cd, r) > Score(C, cd, q)
           Chosen(r) == \A q \in R : ~Better(q, r) /\ (~Better(r, q) => r.lo <= q.lo)
<1>1. IsFiniteSet(R) /\ R # {} /\ \A r \in R : r.lo \in Int /\ r.hi \in Int
  BY RegionFacts
<1>2. \A r \in R : Score(C, cd, r) \in Int
  <2> TAKE r \in R
  <2> DEFINE A == {j \in C : InRegion(cd, j, r)}
             f == [k \in A |-> cd[k].w]
  <2>1. IsFiniteSet(A) /\ f \in [A -> Int]
    <3>1. A \in SUBSET C /\ IsFiniteSet(C) /\ \A k \in A : cd[k].w \in Int
      BY DEF Sound
    <3>2. f \in [A -> Int]
      BY <3>1
    <3> HIDE DEF A, f
    <3> QED BY <3>1, <3>2, FS_Subset
  <2>2. SumFunction(f) \in Int
    <3> HIDE DEF A, f
    <3> QED BY <2>1, SumsAsInt
  <2> QED BY <2>2 DEF Score
<1>3. \A r \in R : Away(at, r) \in Int
  <2> TAKE r \in R
  <2>1. r.lo \in Int /\ r.hi \in Int /\ r.lo * at.den \in Int /\ r.hi * at.den \in Int
    BY <1>1
  <2> QED BY <2>1 DEF Away
<1> HIDE DEF R
<1>4. key \in [R -> Int] /\ lo \in [R -> Int]
  BY <1>1, <1>2, <1>3
<1>5. \A r, q \in R : (key[r] < key[q] <=> Better(r, q)) /\ lo[r] = r.lo
  BY <1>2, <1>3
<1>6. PICK r \in R : \A q \in R : ~(key[q] < key[r]) /\ (~(key[r] < key[q]) => lo[r] <= lo[q])
  <2> HIDE DEF key, lo
  <2> QED BY <1>1, <1>4, FirstOfLeast
<1> HIDE DEF key, lo
<1>7. Chosen(r)
  BY <1>5, <1>6
<1>8. Pick(C, cd, have, at) = CHOOSE x \in R : Chosen(x)
  BY Zenon DEF Pick, R
<1>9. Pick(C, cd, have, at) \in R /\ Chosen(Pick(C, cd, have, at))
  <2> HIDE DEF Chosen
  <2> QED BY <1>7, <1>8
<1> QED BY <1>9 DEF R

(* What survives an intersection.                                          *)
LEMMA SurvivorFacts ==
  ASSUME NEW C, NEW cd, Sound(C, cd), Cardinality(C) > 1,
         NEW have \in BOOLEAN, NEW at, at.num \in Int, at.den \in Int
  PROVE  LET S == Survivors(C, cd, have, at)
             p == Pick(C, cd, have, at)
         IN /\ S \in SUBSET C /\ Cardinality(S) >= Best(C, cd) /\ p.lo \in Int
            /\ \A k \in S : Lo(cd, k) <= p.lo /\ p.lo <= Hi(cd, k)
            /\ \E k \in S : Lo(cd, k) = p.lo /\ p.hi <= Hi(cd, k)
<1> DEFINE S == Survivors(C, cd, have, at)
           p == Pick(C, cd, have, at)
<1>1. p \in Regions(C, cd)
  BY PickFacts
<1>2. PICK k \in C : p.lo = Lo(cd, k) /\ p.hi <= Hi(cd, k) /\ OpenAfter(C, cd, k) = Best(C, cd)
  BY <1>1, RegionFacts
<1> HIDE DEF p
<1>3. Cardinality(C) \in Nat /\ ~(Cardinality(C) <= 1) /\ IsFiniteSet(C)
  BY FS_CardinalityType DEF Sound
<1>4. S = {j \in C : Lo(cd, j) <= p.lo /\ p.lo <= Hi(cd, j)}
  BY <1>3 DEF Survivors, InRegion, p
<1>5. \A j \in C : Lo(cd, j) \in Int /\ Hi(cd, j) \in Int /\ Lo(cd, j) < Hi(cd, j)
  BY Edges
<1>6. k \in S /\ p.lo \in Int
  BY <1>2, <1>4, <1>5
<1>7. Across(C, cd, Lo(cd, k)) \subseteq S
  BY <1>2, <1>4, <1>5 DEF Across
<1>8. IsFiniteSet(S) /\ S \in SUBSET C
  <2>1. S \in SUBSET C
    BY <1>4
  <2> HIDE DEF S
  <2> QED BY <1>3, <2>1, FS_Subset
<1>9. OpenAfter(C, cd, k) = Cardinality(Open(C, cd, k)) /\ Open(C, cd, k) \in SUBSET S
  <2>1. OpenAfter(C, cd, k) = Cardinality(Open(C, cd, k)) /\ Open(C, cd, k) \in SUBSET Across(C, cd, Lo(cd, k))
    BY OpenCounted
  <2> HIDE DEF S
  <2> QED BY <1>7, <2>1
<1>10. Cardinality(S) >= Best(C, cd)
  <2> HIDE DEF S
  <2>1. Cardinality(Open(C, cd, k)) <= Cardinality(S) /\ IsFiniteSet(Open(C, cd, k))
    BY <1>8, <1>9, FS_Subset
  <2>2. Cardinality(S) \in Nat /\ Cardinality(Open(C, cd, k)) \in Nat
    BY <1>8, <2>1, FS_CardinalityType
  <2> QED BY <1>2, <1>9, <2>1, <2>2
<1> QED BY <1>2, <1>4, <1>6, <1>8, <1>10 DEF p

(* The candidates of an intersection, and what it left: its survivors.     *)
CandidatesSound ==
  /\ cand \in [Entrants -> [offset : Offsets, dist : Distances, w : Weights]]
  /\ haveLast \in BOOLEAN /\ ref.num \in Int /\ ref.den = 1

CandInv ==
  /\ part = "intersection" => CandidatesSound
  /\ used # {} => CandidatesSound /\ used = Survivors(Entrants, cand, haveLast, ref)

LEMMA EntrantsSound ==
  ASSUME CandidatesSound
  PROVE  Sound(Entrants, cand) /\ Cardinality(Entrants) = NumCandidates /\ NumCandidates \in Nat \ {0}
<1>1. NumCandidates \in Nat \ {0} /\ 1 \in Entrants /\ Entrants \in SUBSET Nat
  BY CandidateAssumption DEF Entrants
<1>2. IsFiniteSet(Entrants) /\ Cardinality(Entrants) = NumCandidates
  BY <1>1, FS_Interval DEF Entrants
<1>3. \A k \in Entrants : cand[k].offset \in Int /\ cand[k].dist \in Nat \ {0} /\ cand[k].w \in Nat \ {0}
  BY CandidateAssumption DEF CandidatesSound
<1> QED BY <1>1, <1>2, <1>3 DEF Sound

(* The survivors share a point, they are as many as any overlap, and when  *)
(* there was a choice they were chosen by it.                              *)
LEMMA SurvivorsAre ==
  ASSUME CandidatesSound, used = Survivors(Entrants, cand, haveLast, ref), used # {}
  PROVE  /\ used \in SUBSET Entrants /\ IsFiniteSet(used) /\ LargestSetSurvives
         /\ \E x \in Int : \A k \in used : Lo(cand, k) <= x /\ x <= Hi(cand, k)
<1>1. Sound(Entrants, cand) /\ Cardinality(Entrants) = NumCandidates /\ NumCandidates \in Nat \ {0}
  BY EntrantsSound
<1>2. Best(Entrants, cand) = LargestOverlap /\ Best(Entrants, cand) \in Nat
  <2>1. LargestOverlap = Max({Cardinality(Across(Entrants, cand, x)) : x \in {Lo(cand, k) : k \in Entrants}})
    BY DEF LargestOverlap, OverlapAt, Across
  <2> QED BY <1>1, <2>1, PeakIsOverlap
<1>3. IsFiniteSet(Entrants)
  BY <1>1 DEF Sound
<1>4. CASE NumCandidates > 1
  <2>1. haveLast \in BOOLEAN /\ ref.num \in Int /\ ref.den \in Int
    BY DEF CandidatesSound
  <2>2. LET p == Pick(Entrants, cand, haveLast, ref)
        IN /\ used \in SUBSET Entrants /\ Cardinality(used) >= Best(Entrants, cand) /\ p.lo \in Int
           /\ \A k \in used : Lo(cand, k) <= p.lo /\ p.lo <= Hi(cand, k)
    BY <1>1, <1>4, <2>1, SurvivorFacts
  <2>3. IsFiniteSet(used)
    BY <1>3, <2>2, FS_Subset
  <2> QED BY <1>2, <2>2, <2>3 DEF LargestSetSurvives
<1>5. CASE NumCandidates = 1
  <2>1. Entrants = {1}
    BY <1>5 DEF Entrants
  <2>2. used = Entrants
    BY <1>1, <1>5 DEF Survivors
  <2>3. Lo(cand, 1) \in Int /\ Lo(cand, 1) <= Hi(cand, 1)
    BY <1>1, <2>1, Edges
  <2>4. Best(Entrants, cand) <= Cardinality(used)
    <3>1. Best(Entrants, cand) \in {OpenAfter(Entrants, cand, k) : k \in Entrants}
      BY <1>1, PeakIsOverlap
    <3>2. PICK k \in Entrants : Best(Entrants, cand) = OpenAfter(Entrants, cand, k)
      BY <3>1
    <3>3. /\ OpenAfter(Entrants, cand, k) = Cardinality(Open(Entrants, cand, k))
          /\ Open(Entrants, cand, k) \in SUBSET Entrants
      BY <1>1, OpenCounted DEF Open
    <3> QED BY <1>3, <2>2, <3>2, <3>3, FS_Subset
  <2>5. Cardinality(used) >= LargestOverlap
    <3>1. Cardinality(used) \in Nat
      BY <1>3, <2>2, FS_CardinalityType
    <3> QED BY <1>2, <2>4, <3>1
  <2>6. LargestSetSurvives
    BY <1>5, <2>5 DEF LargestSetSurvives
  <2> QED BY <1>3, <2>1, <2>2, <2>3, <2>6
<1> QED BY <1>1, <1>4, <1>5

LEMMA HonestIntersection ==
  ASSUME CandInv
  PROVE  IntersectionHonest
<1> SUFFICES ASSUME used # {}
             PROVE  /\ LargestSetSurvives /\ SurvivorsShareAPoint
                    /\ ServedIntervalCoversTruth /\ TieKeepsServedTime
  BY DEF IntersectionHonest, Done
<1>1. CandidatesSound /\ used = Survivors(Entrants, cand, haveLast, ref)
  BY DEF CandInv
<1>2. /\ used \in SUBSET Entrants /\ IsFiniteSet(used) /\ LargestSetSurvives
      /\ \E x \in Int : \A k \in used : Lo(cand, k) <= x /\ x <= Hi(cand, k)
  BY <1>1, SurvivorsAre
<1>3. Sound(Entrants, cand) /\ Cardinality(Entrants) = NumCandidates /\ NumCandidates \in Nat \ {0}
  BY <1>1, EntrantsSound
<1>4. \A k \in used : /\ Lo(cand, k) \in Int /\ Hi(cand, k) \in Int
                     /\ cand[k].w \in Nat /\ cand[k].offset \in Int /\ cand[k].dist \in Int
  <2> SUFFICES ASSUME NEW k \in used
               PROVE  /\ Lo(cand, k) \in Int /\ Hi(cand, k) \in Int
                      /\ cand[k].w \in Nat /\ cand[k].offset \in Int /\ cand[k].dist \in Int
    OBVIOUS
  <2>1. k \in Entrants
    BY <1>2
  <2>2. Lo(cand, k) \in Int /\ Hi(cand, k) \in Int
    BY <1>3, <2>1, Edges
  <2>3. cand[k].w \in Nat /\ cand[k].offset \in Int /\ cand[k].dist \in Int
    BY <1>3, <2>1 DEF Sound
  <2> QED BY <2>2, <2>3
<1> DEFINE los == {Lo(cand, k) : k \in used}
           his == {Hi(cand, k) : k \in used}
<1>5. /\ Max(los) \in los /\ (\A y \in los : Max(los) >= y)
      /\ Min(his) \in his /\ (\A y \in his : Min(his) <= y)
  <2> DEFINE f == [k \in used |-> Lo(cand, k)]
             g == [k \in used |-> Hi(cand, k)]
  <2>1. DOMAIN f = used /\ DOMAIN g = used /\ los = {f[k] : k \in used} /\ his = {g[k] : k \in used}
    OBVIOUS
  <2>2. los \in SUBSET Int /\ his \in SUBSET Int /\ los # {} /\ his # {}
    BY <1>4
  <2>3. IsFiniteSet(los) /\ IsFiniteSet(his)
    <3> HIDE DEF f, g, los, his
    <3> QED BY <1>2, <2>1, ImageFinite
  <2> HIDE DEF los, his
  <2> QED BY <2>2, <2>3, MaxIs
<1>6. PICK x \in Int : \A k \in used : Lo(cand, k) <= x /\ x <= Hi(cand, k)
  BY <1>2
<1>7. SurvivorsShareAPoint
  <2>1. Max(los) \in Int /\ Max(los) <= x /\ Min(his) \in Int /\ x <= Min(his)
    BY <1>4, <1>5, <1>6
  <2> HIDE DEF los, his
  <2>2. Max(los) <= Min(his)
    BY <2>1
  <2> QED BY <2>2 DEF SurvivorsShareAPoint, los, his
<1>8. ServedIntervalCoversTruth
  <2> DEFINE o == CombinedOffset(used, cand)
  <2>1. ASSUME NEW y \in Int, \A k \in used : Lo(cand, k) <= y /\ y <= Hi(cand, k)
        PROVE  /\ Abs(y * o.den - o.num) <= CombinedDispersion(used, cand)
               /\ \A k \in used : Abs(cand[k].offset * o.den - o.num) <= CombinedDispersion(used, cand)
    <3>1. Contain(used, cand, y)
      BY <1>4, <2>1 DEF Contain, Lo, Hi
    <3> QED BY <1>2, <3>1, CombinedFigures
  <2>2. ASSUME NEW y \in Max(los)..Min(his)
        PROVE  Abs(y * o.den - o.num) <= CombinedDispersion(used, cand)
    <3>1. y \in Int /\ \A k \in used : Lo(cand, k) <= y /\ y <= Hi(cand, k)
      <4>1. Max(los) \in Int /\ Min(his) \in Int
        BY <1>4, <1>5
      <4>2. y \in Int /\ Max(los) <= y /\ y <= Min(his)
        BY <4>1
      <4>3. \A k \in used : Lo(cand, k) <= Max(los) /\ Min(his) <= Hi(cand, k)
        BY <1>4, <1>5, <4>1
      <4> HIDE DEF los, his
      <4> QED BY <1>4, <4>1, <4>2, <4>3
    <3> HIDE DEF o
    <3> QED BY <2>1, <3>1
  <2>3. \A k \in used : Abs(cand[k].offset * o.den - o.num) <= CombinedDispersion(used, cand)
    BY <1>6, <2>1
  <2> HIDE DEF o
  <2> QED BY <2>2, <2>3 DEF ServedIntervalCoversTruth, o
<1>9. TieKeepsServedTime
  <2> DEFINE p == Pick(Entrants, cand, haveLast, ref)
             R == Regions(Entrants, cand)
             Contains(r) == r.lo * ref.den <= ref.num /\ ref.num <= r.hi * ref.den
  <2> SUFFICES ASSUME haveLast, NumCandidates > 1, NEW r \in R, Contains(r)
               PROVE  \E k \in used : Lo(cand, k) <= ref.num /\ ref.num <= Hi(cand, k)
    BY DEF TieKeepsServedTime
  <2>1. haveLast \in BOOLEAN /\ ref.num \in Int /\ ref.den \in Int /\ ref.den = 1
    BY <1>1 DEF CandidatesSound
  <2>2. p \in R /\ ~(Away(ref, r) < Away(ref, p))
    BY <1>3, <2>1, PickFacts
  <2>3. \E k \in used : Lo(cand, k) = p.lo /\ p.hi <= Hi(cand, k)
    BY <1>1, <1>3, <2>1, SurvivorFacts
  <2>4. p.lo \in Int /\ p.hi \in Int /\ r.lo \in Int /\ r.hi \in Int
    BY <1>3, <2>2, RegionFacts
  <2> HIDE DEF p, R
  <2>5. Away(ref, r) = 0
    BY <2>1, <2>4 DEF Away
  <2>6. p.lo <= ref.num /\ ref.num <= p.hi
    BY <2>1, <2>2, <2>4, <2>5 DEF Away
  <2> QED BY <1>4, <2>1, <2>3, <2>4, <2>6
<1> QED BY <1>2, <1>7, <1>8, <1>9

(* The intersection against its definition, for any number of candidates   *)
(* with any offsets, half-widths and weights: the survivors are a largest  *)
(* set of intervals with a point in common, of two such sets the one with  *)
(* the served time in it, and the dispersion of the answer covers every    *)
(* time on which they agree and each of their readings (the sweep of       *)
(* Selector::combine and the combination after it).                        *)
THEOREM IntersectionIsHonest == JudgementSpec => []IntersectionHonest
<1>1. JudgementInit => CandInv
  <2> SUFFICES ASSUME JudgementInit PROVE CandInv
    OBVIOUS
  <2>1. used = {}
    BY DEF JudgementInit
  <2>2. ASSUME part = "intersection" PROVE CandidatesSound
    <3>1. /\ cand \in [Entrants -> [offset : Offsets, dist : Distances, w : Weights]]
          /\ haveLast \in BOOLEAN
          /\ ref \in {[num |-> o, den |-> 1] : o \in IF haveLast THEN Offsets ELSE {0}}
      BY <2>2 DEF JudgementInit
    <3>2. ref.num \in Int /\ ref.den = 1
      BY <3>1, CandidateAssumption
    <3> QED BY <3>1, <3>2 DEF CandidatesSound
  <2> QED BY <2>1, <2>2 DEF CandInv
<1>2. CandInv /\ [JudgementNext]_judgementVars => CandInv'
  <2> SUFFICES ASSUME CandInv, [JudgementNext]_judgementVars PROVE CandInv'
    OBVIOUS
  <2>1. CASE Intersect
    <3>1. /\ part' = part /\ part = "intersection" /\ cand' = cand /\ haveLast' = haveLast /\ ref' = ref
          /\ used' = Survivors(Entrants, cand, haveLast, ref)
      BY <2>1 DEF Intersect, candVars
    <3> QED BY <3>1 DEF CandInv, CandidatesSound
  <2>2. ASSUME UNCHANGED <<part, candVars, used>> PROVE CandInv'
    BY <2>2 DEF CandInv, CandidatesSound, candVars
  <2>3. CASE Switch
    BY <2>2, <2>3 DEF Switch
  <2>4. CASE Pass
    BY <2>2, <2>4 DEF Pass
  <2>5. CASE UNCHANGED judgementVars
    BY <2>2, <2>5 DEF judgementVars
  <2> QED BY <2>1, <2>3, <2>4, <2>5 DEF JudgementNext, Over
<1> QED BY <1>1, <1>2, HonestIntersection, PTL DEF JudgementSpec
=============================================================================
