--------------------------- MODULE StreamTimeline ---------------------------
(***************************************************************************)
(* The audio path of Source.cpp: handleAudio, trackTimeline and timeBlock. *)
(* The decoder counts samples, so a frame that goes missing where nothing  *)
(* here can see it slips every later sample one frame early.  Each frame   *)
(* is stamped with the time its first sample reached the server; the stamp *)
(* less the sample count steps up by what is missing, and the step is read *)
(* off the minimum of one block of frames because the stamps are late by   *)
(* the server's scheduling, never early.                                   *)
(*                                                                         *)
(* Time and counts are in quarter frames.                                  *)
(***************************************************************************)
EXTENDS Integers

CONSTANTS
  BlockLen,   \* kBlockSec
  MaxFill,    \* kMaxFillSec
  MaxBack,    \* kMaxBackStepSec
  PendingFor, \* kTimingPendingSec
  MaxJitter,  \* bound on how late a stamp may be, in frames
  MaxFrames   \* bound on the frames the server cuts from the stream

ASSUME TimelineAssumption ==
  {BlockLen, MaxFill, MaxBack, PendingFor, MaxJitter, MaxFrames} \subseteq Nat

VARIABLES
  sent,       \* frames the server has cut from radiod's samples so far
  shift,      \* how far radiod has moved its capture times (samples lost at the SDR)
  mode,       \* m_timing
  waited,     \* frames since m_timingPendingSince
  written,    \* m_samplesWritten
  origin,     \* m_tsHave, and m_tsOriginNanos less m_tsOriginSample
  base,       \* m_tsBaseline
  blk,        \* m_tsBlockHave, m_tsBlockStartNanos, m_tsBlockMin
  rebuilt     \* whether the last frame made discardTiming run

timelineVars == <<sent, shift, mode, waited, written, origin, base, blk, rebuilt>>

Frame == 4
NoOrigin == [have |-> FALSE, at |-> 0]
NoBlock  == [have |-> FALSE, start |-> 0, min |-> 0]

TimelineInit ==
  /\ sent = 0 /\ shift = 0 /\ mode = "pending" /\ waited = 0 /\ written = 0
  /\ origin = NoOrigin /\ base = 0 /\ blk = NoBlock /\ rebuilt = FALSE

\* The nearest whole number of frames, halves rounded up (std::llround of a positive step).
WholeFrames(step) == (2 * step + Frame) \div (2 * Frame)

\* Slip: the step is filled by the frame it was noticed in only.
OneFrame(step) ==
  [fill |-> IF 2 * step > Frame /\ step <= MaxFill THEN Frame ELSE 0,
   drop |-> step > MaxFill \/ step < -MaxBack]

(* trackTimeline's verdict on a finished block: what is filled in, what    *)
(* the baseline becomes, and whether the mapping to host time is dropped.  *)
BlockVerdict(step) ==
  LET frames   == WholeFrames(step)
      reanchor == mode = "capture" /\ 2 * step > Frame /\ step # frames * Frame
  IN CASE step > MaxFill \/ step < -MaxBack -> [fill |-> 0, drop |-> TRUE]
       [] step <= MaxFill /\ 2 * step > Frame /\ ~reanchor
            -> [fill |-> frames * Frame, drop |-> FALSE]
       [] OTHER -> [fill |-> 0, drop |-> FALSE]

(* trackTimeline for a frame stamped `stamp`: the count after filling, and *)
(* the tracker's own state.  Nothing but the frame length is kept of a     *)
(* stamp that is missing.                                                  *)
Tracked(stamp) ==
  LET o     == IF origin.have THEN origin ELSE [have |-> TRUE, at |-> stamp - written]
      b0    == IF origin.have THEN base ELSE 0
      k0    == IF origin.have THEN blk ELSE NoBlock
      ends  == k0.have /\ stamp - k0.start >= BlockLen
      v     == IF ends THEN BlockVerdict(k0.min - b0) ELSE [fill |-> 0, drop |-> FALSE]
      count == written + v.fill
      d     == stamp - o.at - count
  IN [origin |-> o, count |-> count, drop |-> v.drop,
      base |-> IF ends THEN k0.min - v.fill ELSE b0,
      blk |-> IF k0.have /\ ~ends
              THEN [k0 EXCEPT !.min = IF d < @ THEN d ELSE @]
              ELSE [have |-> TRUE, start |-> stamp, min |-> d]]

Track(t) ==
  /\ origin' = t.origin /\ base' = t.base /\ blk' = t.blk /\ rebuilt' = t.drop
  /\ written' = t.count + Frame

(* timeBlock: a receiver that does not say which clock it stamps on is     *)
(* timed by arrival after a while.                                         *)
TimeBlock ==
  IF mode # "pending" THEN UNCHANGED <<mode, waited>>
  ELSE IF waited > PendingFor THEN mode' = "arrival" /\ waited' = 0
  ELSE waited' = waited + 1 /\ UNCHANGED mode

\* The stamps a frame may carry: exact when the receiver stamps capture times.
Stamps == {Frame * (sent + j) + shift : j \in IF mode = "capture" THEN {0} ELSE 0..MaxJitter}

Cut == sent < MaxFrames /\ sent' = sent + 1

\* A good frame.
Audio(stamp) ==
  /\ Cut /\ Track(Tracked(stamp)) /\ TimeBlock
  /\ UNCHANGED shift

\* A good frame without a stamp: the samples count, the timeline is not touched.
AudioUnstamped ==
  /\ Cut /\ written' = written + Frame /\ rebuilt' = FALSE /\ TimeBlock
  /\ UNCHANGED <<shift, origin, base, blk>>

\* The header survived and the body did not: tracked, and concealed by silence.
AudioUndecodable(stamp) ==
  /\ Cut /\ written > 0 /\ Track(Tracked(stamp))
  /\ UNCHANGED <<shift, mode, waited>>

\* Nothing of the frame survived, or it is no frame of this protocol: concealed, untracked.
AudioUnreadable ==
  /\ Cut /\ written > 0
  /\ written' = written + Frame /\ origin' = NoOrigin /\ rebuilt' = FALSE
  /\ UNCHANGED <<shift, mode, waited, base, blk>>

\* External: a frame the server drops, or the network.
Lost ==
  /\ Cut /\ rebuilt' = FALSE
  /\ UNCHANGED <<shift, mode, waited, written, origin, base, blk>>

\* External: radiod re-anchors its capture times by less than a frame.
ReAnchor ==
  /\ mode = "capture" /\ shift = 0 /\ shift' = Frame - 1 /\ rebuilt' = FALSE
  /\ UNCHANGED <<sent, mode, waited, written, origin, base, blk>>

(* onServerClockId and setTiming: the receiver says which clock it stamps  *)
(* on, once per connection, perhaps after it was timed by arrival: a change *)
(* of a decided mode drops the mapping.                                    *)
ServerClockId(m) ==
  /\ m # mode /\ mode # "capture"
  /\ mode' = m /\ waited' = 0
  /\ rebuilt' = (mode # "pending")
  /\ UNCHANGED <<sent, shift, written, origin, base, blk>>

TimelineNext ==
  \/ \E s \in Stamps : Audio(s) \/ AudioUndecodable(s)
  \/ AudioUnstamped \/ AudioUnreadable \/ Lost \/ ReAnchor
  \/ \E m \in {"capture", "arrival"} : ServerClockId(m)
=============================================================================
