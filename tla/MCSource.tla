------------------------------ MODULE MCSource ------------------------------
(***************************************************************************)
(* A radio source's measurement, in five independent parts: the decoded    *)
(* time across a month end (SourceTiming), the sample count against the    *)
(* stream (StreamTimeline), the published level through a jitter spike     *)
(* (SpikeHold), and the station a shared carrier's delay is charged for    *)
(* and the network's share of it (DelayModel).  A behaviour is of one      *)
(* part, chosen at the start, so that their states add up and do not       *)
(* multiply.                                                               *)
(***************************************************************************)
EXTENDS SourceTiming, StreamTimeline, SpikeHold, DelayModel

Parts == {"timing", "stream", "hold", "tag", "trip"}

VARIABLE part  \* which part this behaviour is of

VARIABLES
  wrongRun,   \* timing: readings in a row that were wrong in the same way
  lastRead,   \* ...and the offset they implied
  confirmed,  \* a time has been confirmed since the start
  fooled,     \* a misread no continuity check can tell from the truth
  rightFor    \* minutes in a row read right, from frame to measured second, and
              \* not taken for drift

VARIABLES
  floor,      \* timeline: the block being filled holds a stamp that is not late
  based,      \* a block with such a stamp has ended since the tracker started
  settled,    \* stamped frames since the last loss or re-anchoring
  blind       \* a loss the tracker cannot see, or a mapping it gave up

VARIABLES
  noisy,      \* spike: how long the jitter has not been calm
  still       \* how long the live level has not moved

VARIABLES
  heard,      \* tag: judged seconds in a row that spoke for one station, and which
  quiet       \* seconds since one spoke for the station whose path is charged

VARIABLES
  answered,   \* round trip: the last ping has been answered
  overdue,    \* pings in a row sent with the one before unanswered, up to two
  short       \* a round trip has been taken for shorter than it was

misreadVars == <<wrongRun, lastRead, confirmed, fooled>>
timingAll   == <<timingVars, misreadVars, rightFor>>
streamAll   == <<timelineVars, floor, based, settled, blind>>
holdAll     == <<holdVars, noisy, still>>
tagAll      == <<tagVars, heard, quiet>>
rttAll      == <<rttVars, answered, overdue, short>>
vars        == <<part, timingAll, streamAll, holdAll, tagAll, rttAll>>

NotHeard == [station |-> "unknown", for |-> 0]

\* The leap second and the first level are drawn in the part they matter to only.
Init ==
  /\ part \in Parts
  /\ TimingInit /\ (part # "timing" => ~leap)
  /\ wrongRun = 0 /\ lastRead = 0 /\ confirmed = FALSE /\ fooled = FALSE /\ rightFor = 0
  /\ TimelineInit /\ floor = FALSE /\ based = FALSE /\ settled = 0 /\ blind = FALSE
  /\ HoldInit /\ (part # "hold" => live = 0) /\ noisy = 0 /\ still = 0
  /\ TagInit /\ heard = NotHeard /\ quiet = 0
  /\ RttInit /\ answered = TRUE /\ overdue = 0 /\ short = FALSE
-----------------------------------------------------------------------------
Needed == IF confirmed THEN AdoptReadings ELSE FirstReadings

\* After a month's end, wrong by what a leap second of either sign may account for.
PassesForLeap(e) == minute > MonthEnd /\ (Size(e) = Second \/ e = 2 * Second)
\* So long after the last time that the crystal's drift may account for a second.
PassesForDrift(x) ==
  \/ continuity.have /\ x # continuity.offset /\ Drift(minute - continuity.at) >= 2
  \/ continuity.readings > 0 /\ x # continuity.pending /\ Drift(minute - continuity.lastAt) >= 2

(* What the source holds is of one time.  A reading that is let through as *)
(* drift leaves an anchor beside a history of another.                     *)
OneTime ==
  /\ anchor.have => anchor.offset = continuity.offset
  /\ \A s \in samples : s.offset = continuity.offset

(* A reading is wrong by its difference to the truth of the minute it is   *)
(* read in; one refused for crossing the month's end is not judged at all. *)
ReadTime(e) ==
  LET x     == Truth(frameAt) + e
      right == x = Truth(minute)
      unjudged == CrossesBoundary(240 * frameAt + e, Label(minute) + x)
  IN /\ ClockTime(e)
     /\ rightFor' = IF right /\ ~unjudged /\ OneTime' THEN rightFor ELSE 0
     /\ IF unjudged
        THEN UNCHANGED misreadVars
        ELSE /\ lastRead' = x
             /\ wrongRun' = IF right THEN 0 ELSE IF x = lastRead THEN wrongRun + 1 ELSE 1
             /\ confirmed' = (confirmed \/ continuity'.have)
             /\ fooled' = (fooled \/ wrongRun' >= Needed \/ PassesForLeap(e) \/ PassesForDrift(x))

\* Losing the stream, or skipping any part of a minute, ends a run of right minutes.
Spoil ==
  /\ \/ \E s \in {"nosignal", "acquiring", "locked"} : ClockState(s)
     \/ Skip \/ DiscardTiming \/ ResetStream
  /\ rightFor' = 0 /\ UNCHANGED misreadVars

ReadFrame == (\E b \in BOOLEAN : ClockFrame(b)) /\ rightFor' = rightFor + 1 /\ UNCHANGED misreadVars
Edge      == (ClockSecond \/ NextMinute) /\ UNCHANGED <<misreadVars, rightFor>>

TimingStep ==
  /\ part = "timing"
  /\ (\E e \in Errors : ReadTime(e)) \/ Spoil \/ ReadFrame \/ Edge
  /\ UNCHANGED <<part, streamAll, holdAll, tagAll, rttAll>>
-----------------------------------------------------------------------------
\* Stamped frames that make sure of two whole blocks.
Resolved == 2 * (BlockLen \div Frame + 1 + MaxJitter)

Stamped(s) ==
  LET onTime == s = Frame * sent + shift
      closes == origin.have /\ blk.have /\ s - blk.start >= BlockLen
  IN /\ Audio(s) \/ AudioUndecodable(s)
     /\ floor' = (onTime \/ (floor /\ origin.have /\ ~closes))
     /\ based' = (based \/ (closes /\ floor))
     /\ settled' = IF settled < Resolved THEN settled + 1 ELSE settled
     /\ blind' = (blind \/ rebuilt' \/ (closes /\ ~floor))

(* What the tracker cannot see: a loss before its first block has ended or *)
(* in the blocks around a re-anchoring, or one it had not filled when the  *)
(* header of a frame was lost.                                             *)
Unseen ==
  /\ Lost /\ settled' = 0
  /\ blind' = (blind \/ ~based \/ (shift > 0 /\ settled < Resolved))
  /\ UNCHANGED <<floor, based>>

Moved ==
  /\ ReAnchor /\ settled' = 0 /\ blind' = (blind \/ settled < Resolved)
  /\ UNCHANGED <<floor, based>>

Untracked ==
  /\ AudioUnreadable /\ based' = FALSE
  /\ blind' = (blind \/ (settled < Resolved /\ written # Frame * sent))
  /\ UNCHANGED <<floor, settled>>

Untouched ==
  /\ AudioUnstamped \/ \E m \in {"capture", "arrival"} : ServerClockId(m)
  /\ UNCHANGED <<floor, based, settled, blind>>

StreamStep ==
  /\ part = "stream"
  /\ (\E s \in Stamps : Stamped(s)) \/ Unseen \/ Moved \/ Untracked \/ Untouched
  /\ UNCHANGED <<part, timingAll, holdAll, tagAll, rttAll>>
-----------------------------------------------------------------------------
Sample(l, j, dt) ==
  /\ Follow(l, j, dt) \/ Hold(l, j, dt)
  /\ noisy' = IF j = "calm" THEN 0 ELSE noisy + dt
  /\ still' = IF l = live THEN still + dt ELSE 0

HoldStep ==
  /\ part = "hold"
  /\ \/ \E l \in Levels, j \in Jitters, dt \in 1..MaxGapTime : Sample(l, j, dt)
     \/ ClearHold /\ UNCHANGED <<noisy, still>>
  /\ UNCHANGED <<part, timingAll, streamAll, tagAll, rttAll>>

\* More, up to what the properties tell apart.
UpTo(limit, n) == IF n < limit THEN n + 1 ELSE n

\* Long enough for a switch that a release cuts short, and a first tag after it.
LongHeard == StationSwitch + StationConfirm - 1

HeardSecond(e, timed, together) ==
  LET judged == locked = StationWarm
      v == TickVerdict(e)
      for == CASE v = "unknown" -> 0
               [] v # "unknown" /\ v = heard.station -> UpTo(LongHeard, heard.for)
               [] OTHER -> 1
  IN /\ HearSecond(e, timed, together)
     /\ heard' = IF judged THEN [station |-> v, for |-> for] ELSE heard
     /\ quiet' = IF judged /\ Supported(path, e) THEN 0 ELSE UpTo(StationConfirm, quiet)

UnheardSecond == IdleSecond /\ quiet' = UpTo(StationConfirm, quiet) /\ UNCHANGED heard

TagStep ==
  /\ part = "tag"
  /\ \/ \E e \in Evidence, timed, together \in BOOLEAN : HeardSecond(e, timed, together)
     \/ UnheardSecond
     \/ LoseDecoder /\ heard' = NotHeard /\ UNCHANGED quiet
     \/ (StartDecoder \/ LockTick \/ LoseTick) /\ UNCHANGED <<heard, quiet>>
  /\ UNCHANGED <<part, timingAll, streamAll, holdAll, rttAll>>
-----------------------------------------------------------------------------
Pinged ==
  /\ SendPing /\ answered' = FALSE /\ UNCHANGED short
  /\ overdue' = IF answered THEN 0 ELSE UpTo(2, overdue)

Ponged ==
  /\ Pong /\ answered' = (Len(flight) = 1) /\ UNCHANGED overdue
  /\ short' = (short \/ (overdue < 2 /\ sentAge \in 1 .. MaxPong /\ sentAge < Head(flight)))

TripStep ==
  /\ part = "trip"
  /\ \/ Pinged
     \/ Ponged
     \/ /\ (\E i \in DOMAIN flight : Unanswered(i)) \/ PassTime \/ Reconnect \/ HttpProbe \/ Packet
           \/ \E how \in {"capture", "arrival"} : SetTiming(how)
        /\ UNCHANGED <<answered, overdue, short>>
  /\ UNCHANGED <<part, timingAll, streamAll, holdAll, tagAll>>

Next == TimingStep \/ StreamStep \/ HoldStep \/ TagStep \/ TripStep

Spec == Init /\ [][Next]_vars
-----------------------------------------------------------------------------
(* No second goes into the filter a whole second or more out, across a     *)
(* month end with a leap second or without one, announced or not, through  *)
(* any number of misreads that do not hold, and through a reconnect, which *)
(* is where a misread lock is likeliest (onClockTime, onClockSecond);      *)
(* unless one passes for a leap second or for hours of drift.              *)
SamplesAreTrue == fooled \/ \A s \in samples : s.offset = Truth(s.at)

\* Minutes in which a time read in every one holds for as long as it must.
HoldsFor == Max({FirstReadings, FirstSpan + 1, AdoptReadings, AdoptSpan + 1})

(* A wrong history is not for ever: a source that reads every minute right *)
(* for as long as a contradicting time must hold, and a filter's minimum   *)
(* after it, serves the right offset, whatever it believed before ("a      *)
(* wrong history corrects itself unattended", TimeContinuity.h).  A right  *)
(* time that comes after hours of silence, let through by the allowance    *)
(* for drift beside a history a second off, is not yet one of them: they   *)
(* count from when the history, the anchor and the filter agree.           *)
HistoryCorrectsItself ==
  stage = "done" /\ rightFor >= HoldsFor + MinLevel
    => Ready /\ HaveOffset /\ MedianOffset(samples) = Truth(minute)

(* Lost audio is put back: the sample count never runs ahead of the        *)
(* stream, and two blocks after the last loss it is in step again, however *)
(* late the stamps in between, as long as each block holds one that is not *)
(* (trackTimeline).                                                        *)
InStep ==
  blind \/ /\ written <= Frame * sent
           /\ settled >= Resolved => written = Frame * sent

\* As long as a hold of a level as old as may be held, and the slew out of it, can take.
HoldOver == MaxCalmAge + MaxHold + Rejoin + MaxGapTime

(* A hold through a jitter spike ends, and ends gently: nothing moves      *)
(* while it lasts, afterwards the published level moves by what the live   *)
(* one does and by the slew, and a source that stays noisy is published at *)
(* its live level once a hold of the oldest level that may be held, the    *)
(* longest there may be, and the slew out of it have passed                *)
(* (holdThroughSpikes).                                                    *)
HoldEndsGently ==
  /\ [](noisy >= HoldOver /\ still >= HoldOver => published = live)
  /\ [][part = "hold" /\ records' # 0 /\ (hold.on \/ ~hold'.on) =>
          Mag(published' - published) <=
            IF hold.on THEN 0 ELSE Mag(live' - live) + slew * (ref' - ref)]_vars

(* The path charged is the heard station's: a station decisively heard for *)
(* as long as a switch and a first tag take is the one charged; the path   *)
(* goes from one station to the other only on as many such seconds in a    *)
(* row as a switch takes, and is not given up within those a first tag     *)
(* takes of the last that spoke for it, lost ticks, reconnections and new  *)
(* decoders included; and an edge timed by one station's tick is charged   *)
(* the other's path at most in the second the tag changes (onSeriesSample, *)
(* ensureDecoder, feedSamples).                                            *)
PathIsTheStations ==
  /\ [](heard.for >= LongHeard => tag.station = heard.station /\ path = heard.station)
  /\ [][{tag.station, tag'.station} = {"wwv", "wwvh"} => heard'.for >= StationSwitch]_vars
  /\ [][path' # path => quiet' >= StationConfirm]_vars
  /\ [][edge'.timer # edge'.path => edge' = edge \/ tag'.station # tag.station]_vars

(* A pong is not timed by a later ping than its own, which would read as   *)
(* too short a round trip and, as the least of twelve, be kept for six     *)
(* minutes: not after lost pongs, late ones or a reconnection, unless two  *)
(* pings in a row were sent with the one before unanswered (onJsonPong).   *)
RoundTripNotShort == ~short
=============================================================================
