------------------------------ MODULE SpikeHold -----------------------------
(***************************************************************************)
(* OffsetEstimator::holdThroughSpikes: a radio source whose jitter rises   *)
(* far above its usual keeps the last level published while it was calm,   *)
(* and afterwards slews to the live one.  Levels are taken along the       *)
(* crystal's rate, so a held level is a constant; the window's median is   *)
(* an input, and so is where the jitter stands against the threshold and   *)
(* against calm, half of it.                                               *)
(***************************************************************************)
EXTENDS Integers

CONSTANTS
  Levels,        \* the live levels the window may show
  BaselineMin,   \* kBaselineMinRecords
  MaxCalmAge,    \* kMaxCalmAgeSec
  CalmToRelease, \* kCalmToReleaseSec
  MaxHold,       \* kMaxHoldSec
  Rejoin,        \* kRejoinSec
  MinSlew,       \* kRejoinMinSlewSecPerSec
  MaxGapTime,    \* bound on the time between two samples
  MaxRef         \* bound on the clock

ASSUME HoldAssumption ==
  /\ Levels \subseteq Int
  /\ {BaselineMin, MaxCalmAge, CalmToRelease, MaxHold, MinSlew, MaxRef} \subseteq Nat
  /\ {Rejoin, MaxGapTime} \subseteq Nat \ {0}

VARIABLES
  ref,       \* the newest sample's instant
  live,      \* m_est.liveOffsetSec
  published, \* m_est.offsetSec
  records,   \* m_jitterHistory: how many, up to the number that arms the judgement
  calm,      \* m_haveCalm, m_calmAt, m_calmOffset
  hold,      \* m_holding, m_holdStart, m_calmSince
  rearm,     \* m_rearmOnCalm
  gap, slew  \* m_gap, m_gapSlew

holdVars == <<ref, live, published, records, calm, hold, rearm, gap, slew>>

Mag(x) == IF x < 0 THEN -x ELSE x
NoCalm == [have |-> FALSE, at |-> 0, level |-> 0]
NoHold == [on |-> FALSE, from |-> 0, calmSince |-> -1]

HoldInit ==
  /\ ref = 0 /\ live \in Levels /\ published = live
  /\ records = 0 /\ calm = NoCalm /\ hold = NoHold /\ rearm = FALSE
  /\ gap = 0 /\ slew = 0

\* Slip: the gap is closed at once.
SteppedOut(dt) == 0

\* What is left of the last hold's gap after dt.
Slewed(dt) ==
  CASE Mag(gap) <= slew * dt -> 0
    [] gap > slew * dt -> gap - slew * dt
    [] OTHER -> gap + slew * dt

\* The slew that closes a gap of g within Rejoin, rounded up to a whole unit.
SlewFor(g) == LET s == (Mag(g) + Rejoin - 1) \div Rejoin IN IF s > MinSlew THEN s ELSE MinSlew

Starts(jitter, t) ==
  /\ records >= BaselineMin /\ ~rearm /\ jitter = "spike"
  /\ calm.have /\ t - calm.at <= MaxCalmAge

CalmSince(jitter, t) ==
  IF jitter # "calm" THEN -1 ELSE IF hold.calmSince >= 0 THEN hold.calmSince ELSE t

Settled(since, t) == since >= 0 /\ t - since >= CalmToRelease

\* Slip: a hold has no end.
NeverExpires(t) == FALSE
Expired(t) == t - hold.from >= MaxHold

NewCalm(jitter, t, level) ==
  IF records < BaselineMin \/ jitter = "calm"
  THEN /\ calm' = [have |-> TRUE, at |-> t, level |-> level]
       /\ rearm' = FALSE
  ELSE UNCHANGED <<calm, rearm>>

(* One sample, dt after the last: not holding, or a hold that begins with  *)
(* this one.                                                               *)
Follow(l, jitter, dt) ==
  LET t == ref + dt
  IN /\ ~hold.on /\ t <= MaxRef
     /\ ref' = t /\ live' = l /\ gap' = Slewed(dt)
     /\ records' = IF records < BaselineMin THEN records + 1 ELSE records
     /\ UNCHANGED slew
     /\ IF Starts(jitter, t)
        THEN /\ hold' = [on |-> TRUE, from |-> t, calmSince |-> -1]
             /\ published' = calm.level
             /\ UNCHANGED <<calm, rearm>>
        ELSE /\ published' = l + Slewed(dt)
             /\ NewCalm(jitter, t, l + Slewed(dt))
             /\ UNCHANGED hold

\* A sample during a hold, which may be its last.
Hold(l, jitter, dt) ==
  LET t       == ref + dt
      since   == CalmSince(jitter, t)
      settled == Settled(since, t)
  IN /\ hold.on /\ t <= MaxRef
     /\ ref' = t /\ live' = l /\ published' = calm.level
     /\ IF settled \/ Expired(t)
        THEN /\ hold' = NoHold
             /\ gap' = calm.level - l
             /\ slew' = SlewFor(calm.level - l)
             /\ calm' = NoCalm
             /\ rearm' = (rearm \/ ~settled)
        ELSE /\ hold' = [hold EXCEPT !.calmSince = since]
             /\ gap' = Slewed(dt)
             /\ UNCHANGED <<slew, calm, rearm>>
     /\ UNCHANGED records

\* OffsetEstimator::clear: the next sample starts everything over.
ClearHold ==
  /\ records > 0
  /\ published' = live /\ records' = 0 /\ calm' = NoCalm /\ hold' = NoHold
  /\ rearm' = FALSE /\ gap' = 0 /\ slew' = 0
  /\ UNCHANGED <<ref, live>>

Jitters == {"calm", "raised", "spike"}
=============================================================================
