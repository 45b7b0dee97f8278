---------------------------- MODULE SourceTiming ----------------------------
(***************************************************************************)
(* The decoder callbacks of Source.cpp: how a radio source turns a decoded *)
(* minute and the second edges after it into an offset of UTC from the     *)
(* daemon clock.  A `time` event, once admitted by the continuity check,   *)
(* leaves an anchor (an edge and the UTC it names); every measured second  *)
(* after it extends the anchor into a sample of the filter.                *)
(*                                                                         *)
(* The clock moves in minutes; the instant modelled is the middle of one.  *)
(* A frame is decoded in the minute after the one it describes.  A month   *)
(* ends at the start of minute MonthEnd, and a leap second may be inserted *)
(* there, announced by the frames or not.  UTC labels and offsets are in   *)
(* quarter seconds.                                                        *)
(*                                                                         *)
(* Whether a decoded time may be believed is for TimeContinuity.cpp: UTC   *)
(* does not jump, so a reading that contradicts the source's own history   *)
(* of UTC minus the daemon clock is refused until it has held, in every    *)
(* reading, for long enough to replace it.  Offsets are along the          *)
(* crystal's own rate, which every source shares.                          *)
(***************************************************************************)
EXTENDS Integers, FiniteSets, FiniteSetsExt

CONSTANTS
  Errors,         \* by how much a decoded minute may be wrong
  MonthEnd,       \* the minute a month begins
  LeapWindow,     \* minutes after MonthEnd in which a leap second is still looked for
  LeapConfirm,    \* kLeapConfirmFrames
  AnchorMaxAge,   \* kAnchorMaxAgeSec
  LevelWindow,    \* OffsetTuning::levelWindowSec
  MinLevel,       \* OffsetTuning::minLevelSamples
  OffsetStale,    \* kOffsetStaleSec
  MaxMinute,      \* bound on the clock
  FirstReadings, FirstSpan,  \* kFirstReadings, kFirstSpanSec: the first time
  AdoptReadings, AdoptSpan,  \* kAdoptReadings, kAdoptSpanSec: a time that contradicts the history
  DriftEvery                 \* minutes in which the crystal may drift a quarter second (kDriftPpm)

ASSUME TimingAssumption ==
  /\ Errors \subseteq Int /\ 0 \in Errors /\ \A e \in Errors : e % 4 = 0  \* whole seconds
  /\ {MonthEnd, LeapWindow, LeapConfirm, AnchorMaxAge, LevelWindow, MinLevel, OffsetStale,
      MaxMinute, FirstSpan, AdoptSpan} \subseteq Nat
  /\ {FirstReadings, AdoptReadings, DriftEvery} \subseteq Nat \ {0}
  /\ MinLevel <= LevelWindow + 1  \* the window has room for the samples a level needs

VARIABLES
  minute,     \* the clock
  stage,      \* which callbacks of this minute are still to come
  leap,       \* whether this month ends in a leap second
  lock,       \* m_snap.clockState
  frameAt,    \* m_frameStartSample as the minute the frame began, 0 without one
  leapFrames, \* m_leapFrames
  warned,     \* a leap warning was believed within the day (m_leapWarnAt)
  anchor,     \* m_haveAnchor, m_anchorEdgeSample, m_anchorUtcMs
  samples,    \* m_offsets, the level window
  continuity, \* m_continuity
  timeCheck   \* m_snap.timeCheck

timingVars ==
  <<minute, stage, leap, lock, frameAt, leapFrames, warned, anchor, samples, continuity,
    timeCheck>>
-----------------------------------------------------------------------------
(* The history a time is judged by.                                        *)
JumpLimit == 2  \* kJumpLimitSec
Agree     == 1  \* kAgreeSec
Second    == 4  \* a leap second

Size(x) == IF x < 0 THEN -x ELSE x
Drift(span) == Size(span) \div DriftEvery

\* readings = 0 stands for m_pending = false; have, for m_have.
NoHistory ==
  [have |-> FALSE, offset |-> 0, at |-> 0,
   readings |-> 0, pending |-> 0, firstAt |-> 0, lastAt |-> 0]

\* Slip: the run is dated from its last reading.
DatedByLast(c, x, t) ==
  LET agrees == c.readings > 0 /\ Size(x - c.pending) <= Agree + Drift(t - c.lastAt)
  IN [c EXCEPT !.firstAt = t, !.readings = IF agrees THEN @ + 1 ELSE 1, !.pending = x, !.lastAt = t]

NotePending(c, x, t) ==
  LET agrees == c.readings > 0 /\ Size(x - c.pending) <= Agree + Drift(t - c.lastAt)
  IN [c EXCEPT !.firstAt = IF agrees THEN @ ELSE t,
               !.readings = IF agrees THEN @ + 1 ELSE 1,
               !.pending = x, !.lastAt = t]

StartHistory(c, x, t) ==
  [c EXCEPT !.have = TRUE, !.offset = x, !.at = t, !.readings = 0]

NoteFiltered(c, x, t) == [c EXCEPT !.have = TRUE, !.offset = x, !.at = t]

Held(c, readings, span) == c.readings >= readings /\ c.lastAt - c.firstAt >= span

(* What judge() makes of an implied offset x read at t: the outcome, and   *)
(* the state it leaves behind.                                             *)
JudgeTime(c, x, t, leapWindow) ==
  LET jump == x - c.offset
      p    == NotePending(c, x, t)
      Verdict(outcome, after) == [outcome |-> outcome, after |-> after]
  IN CASE ~c.have /\ Held(p, FirstReadings, FirstSpan)
            -> Verdict("FirstConfirmed", StartHistory(p, x, t))
       [] ~c.have /\ ~Held(p, FirstReadings, FirstSpan)
            -> Verdict("Confirming", p)
       [] c.have /\ Size(jump) <= JumpLimit + Drift(t - c.at)
            -> Verdict("Accepted", [c EXCEPT !.readings = 0])
       [] OTHER ->
            IF leapWindow /\ Size(Size(jump) - Second) <= Agree
            THEN Verdict("LeapSecond", StartHistory(c, x, t))
            ELSE IF Held(p, AdoptReadings, AdoptSpan)
                 THEN Verdict("Adopted", StartHistory(p, x, t))
                 ELSE Verdict("Refused", p)

DiscardFiltered(v) == v.outcome \in {"Adopted", "LeapSecond"}
Admitted(v) == v.outcome \notin {"Confirming", "Refused"}
-----------------------------------------------------------------------------
Label(m) == 240 * m + 120   \* where the daemon clock stands in minute m
Boundary == 240 * MonthEnd  \* the UTC midnight that ends the month

\* UTC minus the daemon clock: an inserted second sets UTC back by one.
Truth(m) == IF leap /\ m >= MonthEnd THEN -Second ELSE 0

NoAnchor == [have |-> FALSE, at |-> 0, offset |-> 0]

TimingInit ==
  /\ minute = 2 /\ stage = "frame" /\ leap \in BOOLEAN
  /\ lock = "nosignal" /\ frameAt = 0 /\ leapFrames = 0 /\ warned = FALSE
  /\ anchor = NoAnchor /\ samples = {} /\ continuity = NoHistory /\ timeCheck = ""

\* The median of the samples, exact because offsets are even.
Ranked(S, k) ==
  CHOOSE x \in {s.offset : s \in S} :
    /\ Cardinality({s \in S : s.offset < x}) < k
    /\ Cardinality({s \in S : s.offset <= x}) >= k
MedianOffset(S) ==
  LET n == Cardinality(S) IN (Ranked(S, (n + 1) \div 2) + Ranked(S, n \div 2 + 1)) \div 2

Newest(S)  == Max({s.at : s \in S})
Valid(S)   == Cardinality(S) >= MinLevel
HaveOffset ==
  Valid(samples) /\ lock = "locked" /\ minute - Newest(samples) <= OffsetStale

HeldOut == timeCheck # "" /\ ~anchor.have
Ready == lock = "locked" /\ ~HeldOut
-----------------------------------------------------------------------------
ClockState(s) ==
  /\ s # lock
  /\ lock' = s
  /\ anchor' = IF s = "locked" THEN anchor ELSE NoAnchor
  /\ UNCHANGED <<minute, stage, leap, frameAt, leapFrames, warned, samples, continuity, timeCheck>>

ClockFrame(leapPending) ==
  LET n == IF ~leapPending THEN 0
           ELSE IF leapFrames < LeapConfirm THEN leapFrames + 1 ELSE LeapConfirm
  IN /\ stage = "frame" /\ lock \in {"acquiring", "locked"}
     /\ stage' = "time"
     /\ frameAt' = minute - 1
     /\ leapFrames' = n
     /\ warned' = (warned \/ n >= LeapConfirm)
     /\ UNCHANGED <<minute, leap, lock, anchor, samples, continuity, timeCheck>>

(* Whether the continuity check may take a whole second for a leap second: *)
(* the hours after a month end, with a warning believed in the last day.   *)
InLeapWindow(decoded) ==
  decoded >= Boundary /\ decoded < Boundary + 240 * LeapWindow /\ warned

\* Slip: a month's end is like any other midnight.
BoundaryIgnored(base, decoded) == FALSE
(* A frame that began before the month's end says nothing of an edge after *)
(* it.                                                                     *)
CrossesBoundary(base, decoded) == base < Boundary /\ decoded >= Boundary

CheckAfter(v) ==
  CASE v.outcome = "Confirming" -> "confirming"
    [] v.outcome = "Refused" -> "refused"
    [] OTHER -> ""

(* onClockTime: the time the voted frame names, wrong by err, carried to   *)
(* the edge in whole seconds of the daemon clock.                          *)
ClockTime(err) ==
  LET implied == Truth(frameAt) + err
      base    == 240 * frameAt + err
      decoded == Label(minute) + implied
      v       == JudgeTime(continuity, implied, minute, InLeapWindow(decoded))
  IN /\ stage = "time" /\ lock = "locked" /\ frameAt # 0
     /\ stage' = "second"
     /\ IF CrossesBoundary(base, decoded)
        THEN /\ anchor' = NoAnchor
             /\ UNCHANGED <<samples, continuity, timeCheck>>
        ELSE /\ continuity' = v.after
             /\ samples' = IF DiscardFiltered(v) THEN {} ELSE samples
             /\ timeCheck' = CheckAfter(v)
             /\ anchor' = IF Admitted(v)
                          THEN [have |-> TRUE, at |-> minute, offset |-> implied]
                          ELSE anchor
     /\ UNCHANGED <<minute, leap, lock, frameAt, leapFrames, warned>>

\* An extended edge at or past the midnight after the anchor's own day.
PastBoundary ==
  /\ Label(anchor.at) + anchor.offset < Boundary
  /\ Label(minute) + anchor.offset >= Boundary

AddSample(x) ==
  LET S == samples \union {[at |-> minute, offset |-> x]}
  IN {s \in S : s.at >= minute - LevelWindow}

(* onClockSecond with a measured, servable edge, and the recomputation of  *)
(* the offset after it.                                                    *)
ClockSecond ==
  /\ stage = "second"
  /\ stage' = "done"
  /\ IF ~anchor.have
     THEN UNCHANGED <<anchor, samples, continuity>>
     ELSE IF minute - anchor.at > AnchorMaxAge \/ PastBoundary
     THEN anchor' = NoAnchor /\ UNCHANGED <<samples, continuity>>
     ELSE /\ samples' = AddSample(anchor.offset)
          /\ continuity' = IF Valid(samples')
                           THEN NoteFiltered(continuity, MedianOffset(samples'), minute)
                           ELSE continuity
          /\ UNCHANGED anchor
  /\ UNCHANGED <<minute, leap, lock, frameAt, leapFrames, warned, timeCheck>>

(* A callback of this minute that does not come: no frame, no vote, no     *)
(* host time for the edge yet, an edge not measured or not fit to serve.   *)
Skip ==
  /\ stage # "done"
  /\ stage' = CASE stage = "frame" -> "second" [] stage = "time" -> "second" [] OTHER -> "done"
  /\ UNCHANGED <<minute, leap, lock, frameAt, leapFrames, warned, anchor, samples, continuity,
                 timeCheck>>

NextMinute ==
  /\ stage = "done" /\ minute < MaxMinute
  /\ minute' = minute + 1
  /\ stage' = "frame"
  /\ UNCHANGED <<leap, lock, frameAt, leapFrames, warned, anchor, samples, continuity, timeCheck>>

\* The mapping of samples to host time is lost; the decoder's lock survives.
DiscardTiming ==
  /\ anchor.have \/ samples # {}
  /\ anchor' = NoAnchor
  /\ samples' = {}
  /\ UNCHANGED <<minute, stage, leap, lock, frameAt, leapFrames, warned, continuity, timeCheck>>

\* Slip: the history goes with the stream.
StreamForgotten ==
  /\ lock # "stopped"
  /\ lock' = "stopped"
  /\ frameAt' = 0 /\ leapFrames' = 0 /\ samples' = {} /\ anchor' = NoAnchor
  /\ continuity' = NoHistory
  /\ UNCHANGED <<minute, stage, leap, warned, timeCheck>>

\* A new connection: everything but the history, which is about UTC and not the stream.
ResetStream ==
  /\ lock # "stopped"
  /\ lock' = "stopped"
  /\ frameAt' = 0 /\ leapFrames' = 0
  /\ anchor' = NoAnchor /\ samples' = {}
  /\ UNCHANGED <<minute, stage, leap, warned, continuity, timeCheck>>

TimingNext ==
  \/ \E s \in {"nosignal", "acquiring", "locked"} : ClockState(s)
  \/ \E b \in BOOLEAN : ClockFrame(b)
  \/ \E e \in Errors : ClockTime(e)
  \/ ClockSecond
  \/ Skip
  \/ NextMinute
  \/ DiscardTiming
  \/ ResetStream

TimingSpec == TimingInit /\ [][TimingNext]_timingVars
=============================================================================
