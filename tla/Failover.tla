------------------------------ MODULE Failover ------------------------------
(***************************************************************************)
(* Which class of source serves: the two timers and the latch of           *)
(* Selector::combine (src/src/Selector.cpp), fed once per pass with        *)
(* whether each class could be used in that pass.                          *)
(***************************************************************************)
EXTENDS DaemonClock

CONSTANTS
  SecondaryMode,  \* "always", "standby" or "cold" (ClockConfig::secondary)
  FailoverAfter,  \* ClockConfig::failoverAfterSec
  FailbackAfter   \* ClockConfig::failbackAfterSec

ASSUME ModeAssumption == SecondaryMode \in {"always", "standby", "cold"}
ASSUME DelayAssumption == FailoverAfter \in Nat /\ FailbackAfter \in Nat

VARIABLES
  onSecondary,          \* m_onSecondary
  primaryLostSince,     \* m_primaryLostSince, 0 while the primary is usable
  primaryHealthySince,  \* m_primaryHealthySince, 0 while it is not
  secondaryActive,      \* m_secondaryActive
  runUsable,            \* history: what the last pass found the primary to be
  runFrom,              \* history: the first pass of the run of passes that found that
  failedOverAt          \* history: the pass of the last failover, 0 if none

failoverVars == <<onSecondary, primaryLostSince, primaryHealthySince, secondaryActive,
                  runUsable, runFrom, failedOverAt>>
clockedFailoverVars == <<now, failoverVars>>

FailoverTypeOK ==
  /\ now \in Nat \ {0}
  /\ onSecondary \in BOOLEAN /\ secondaryActive \in BOOLEAN
  /\ primaryLostSince \in Nat /\ primaryHealthySince \in Nat
  /\ runUsable \in BOOLEAN /\ runFrom \in Nat /\ failedOverAt \in Nat

FailoverInit ==
  /\ ClockInit
  /\ onSecondary = FALSE
  /\ primaryLostSince = 0 /\ primaryHealthySince = 0
  /\ secondaryActive = (SecondaryMode # "cold")
  /\ runUsable = FALSE /\ runFrom = 0 /\ failedOverAt = 0

-----------------------------------------------------------------------------
\* A slip the checks must catch: a timer that is always restarted.
HealthySinceRestarted(usable) == IF ~usable THEN 0 ELSE now

(* The timers after a pass: each keeps the instant its condition began.    *)
LostSince(usable) ==
  IF usable THEN 0 ELSE IF primaryLostSince <= 0 THEN now ELSE primaryLostSince

HealthySince(usable) ==
  IF ~usable THEN 0 ELSE IF primaryHealthySince <= 0 THEN now ELSE primaryHealthySince

\* How long the primary has been lost or healthy, as of this pass.
LostFor(usable) == IF usable THEN 0 ELSE now - LostSince(usable)
HealthyFor(usable) == IF usable THEN now - HealthySince(usable) ELSE 0

\* Slips: no hold-down on the way over, none on the way back.
OverAtOnce(usable, secondaryUsable) ==
  /\ SecondaryMode # "always"
  /\ IF onSecondary THEN ~(usable /\ HealthyFor(usable) >= FailbackAfter)
                    ELSE ~usable /\ secondaryUsable
BackAtOnce(usable, secondaryUsable) ==
  /\ SecondaryMode # "always"
  /\ IF onSecondary THEN ~usable
                    ELSE ~usable /\ secondaryUsable /\ LostFor(usable) >= FailoverAfter

(* The latch: over after one hold-down, back after a longer one.           *)
OnSecondary(usable, secondaryUsable) ==
  /\ SecondaryMode # "always"
  /\ IF onSecondary
     THEN ~(usable /\ HealthyFor(usable) >= FailbackAfter)
     ELSE ~usable /\ secondaryUsable /\ LostFor(usable) >= FailoverAfter

\* A slip: the standby dropped as soon as the primary is seen again.
DroppedOnRelock(usable, over) == SecondaryMode # "cold" \/ over \/ ~usable

(* Whether the secondary class is to hold connections.  Only cold mode     *)
(* ever says no; it comes up the moment the primary drops, and an active   *)
(* standby is held until the primary has proved itself.                    *)
SecondaryActive(usable, over) ==
  \/ SecondaryMode # "cold"
  \/ over
  \/ ~usable
  \/ secondaryActive /\ HealthyFor(usable) < FailbackAfter

\* One pass, given whether each class has its minimum of candidates.
ClassStep(usable, secondaryUsable) ==
  LET over == OnSecondary(usable, secondaryUsable) IN
  /\ primaryLostSince' = LostSince(usable)
  /\ primaryHealthySince' = HealthySince(usable)
  /\ onSecondary' = over
  /\ secondaryActive' = SecondaryActive(usable, over)
  /\ runUsable' = usable
  /\ runFrom' = IF runFrom = 0 \/ runUsable # usable THEN now ELSE runFrom
  /\ failedOverAt' = IF over /\ ~onSecondary THEN now ELSE failedOverAt

FailoverNext == (\E u, s \in BOOLEAN : ClassStep(u, s)) /\ Sleep

FailoverSpec == FailoverInit /\ [][FailoverNext]_clockedFailoverVars
-----------------------------------------------------------------------------
\* The latch moves only on a condition that held in every pass of the
\* hold-down: over to the secondary after FailoverAfter of an unusable
\* primary, back after FailbackAfter of a usable one (ClockConfig's two
\* delays; Selector.cpp restarts a timer at every change of verdict).
HoldDown ==
  [][/\ ~onSecondary /\ onSecondary' => ~runUsable' /\ now - runFrom' >= FailoverAfter
     /\ onSecondary /\ ~onSecondary' => runUsable' /\ now - runFrom' >= FailbackAfter]_clockedFailoverVars

\* A flapping primary cannot turn into a sawtooth on the clients: between
\* two failovers lie at least both hold-downs, however the primary flaps
\* and however sparsely the passes run.
SwitchSpacing ==
  [][(failedOverAt > 0 /\ failedOverAt' # failedOverAt) =>
        failedOverAt' - failedOverAt >= FailoverAfter + FailbackAfter]_clockedFailoverVars

\* The hysteresis is not a one-way door: a pass that finds the primary
\* usable, as every pass of the last FailbackAfter did, leaves it serving.
NotOneWay ==
  [][runUsable' /\ now - runFrom' >= FailbackAfter => ~onSecondary']_clockedFailoverVars

\* A standby that is up stays up, and is up whenever it serves, until the
\* primary has been usable in every pass of the failback interval; so a
\* receiver that re-locks and loses it again does not tear a cold standby
\* down between attempts.
StandbyHeld ==
  [][/\ onSecondary' => secondaryActive'
     /\ secondaryActive /\ ~secondaryActive' =>
          runUsable' /\ now - runFrom' >= FailbackAfter]_clockedFailoverVars

(* The latch of Selector::combine neither flaps nor sticks, and never      *)
(* leaves the clients without the class that serves them.                  *)
Hysteresis == HoldDown /\ SwitchSpacing /\ NotOneWay /\ StandbyHeld
=============================================================================
