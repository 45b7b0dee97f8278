----------------------------- MODULE MCDecoding -----------------------------
(***************************************************************************)
(* From the air to a second with a time on it.  The parts: the voter fed   *)
(* minutes misread in every way; the five decoders fed the seconds of a    *)
(* broadcast that fades, strays and has a leap second; and the two clocks  *)
(* that date a sample, by arrival and by the receiver's stamps.            *)
(***************************************************************************)
EXTENDS FrameVoter, LfFrames, Dcf77Frame, SampleClock

CONSTANTS
  Parts,      \* the parts of the model that are looked at
  WwvSec,     \* seconds in a minute, where decades are counted
  WwvFaults,  \* the faults there
  Decade, SlipMarks, SoundMarks, MaxFalseMarks,
  MaxPackets, \* packets of the arrival part
  MaxDelay,   \* how late one may be
  MaxSeconds, \* seconds of the capture part
  Slew,       \* ppm the host clock is slewed by
  MaxSlewed,  \* seconds it is slewed for
  MaxMissing, \* seconds packets stop for, once
  MaxTroubles \* how many spells of slewing and of missing packets, and restarts, there are

VARIABLES
  part,      \* the part of the model a behaviour is about
  slid,      \* history: the start of the last ALS162 frame in which a second passed uncounted
             \* while the count was ahead, a leap second having been counted; 0 for none
  newest,    \* the minute of the voter's newest frame
  misreads,  \* how each frame in its window was misread
  sample,    \* the sample the last packet ends, or starts, with
  now,       \* the daemon's clock
  base,      \* when the stream's sample 0 was
  fast,      \* for each point of the envelope: some packet was on time
  prompt,    \* a packet of the bucket being filled was on time
  dmr,       \* what the host clock has been slewed by
  slewed,    \* seconds of it,
  lastSlew,  \*   the last of them,
  spells,    \*   the spells they make, and
  way,       \*   which way they go
  swamped,   \* history: half of the guard's rates or more once had slewing in them
  missing    \* packets lost in a row, once; Ended when they are back

Wwv == INSTANCE WwvFrame WITH Sec <- WwvSec, MaxFaults <- WwvFaults

voteVars == <<voterVars, newest, misreads>>
arrivalVars == <<clockVars, fast, prompt>>
slewVars == <<dmr, slewed, lastSlew, spells, way>>
captureVars == <<guardVars, marks, slewVars, swamped, missing>>
streamVars == <<sample, now, base>>
vars == <<part, voteVars, airVars, slid, dec, arrivalVars, captureVars, streamVars>>

Decoders == {"msf", "wwvb", "allouis", "dcf77", "wwv"}
AllParts == Decoders \cup {"voter", "arrival", "capture"}
-----------------------------------------------------------------------------
(* The voter.                                                              *)
-----------------------------------------------------------------------------
\* The last minute of an hour, and of a day, and two others.
Starts == {[minute |-> 1, hour |-> 1, day |-> 1], [minute |-> 2, hour |-> 2, day |-> 1],
           [minute |-> 1, hour |-> 3, day |-> 1], [minute |-> 2, hour |-> 5, day |-> 1]}

Bits == UNION {{<<f, k>> : k \in DOMAIN Weights[f]} : f \in Fields}
Whole == <<"all", 0>>
\* A bit drowned in noise, misread clearly, or lost; and a minute unread.
Misreads == [bit : Bits, how : {"noise", "flip", "lost"}] \cup [bit : {Whole}, how : {"none", "blank"}]

Opposite(s) == IF s = "one" THEN "zero" ELSE "one"
Reading(time, mis) ==
  [f \in Fields |-> [k \in DOMAIN Weights[f] |->
    LET sent == EncodeField(f, time[f])[k]
    IN CASE mis.how = "blank" -> [is |-> "unknown", conf |-> 0]
         [] mis = [bit |-> <<f, k>>, how |-> "noise"] -> [is |-> Opposite(sent), conf |-> Faded]
         [] mis = [bit |-> <<f, k>>, how |-> "flip"] -> [is |-> Opposite(sent), conf |-> Clear]
         [] mis = [bit |-> <<f, k>>, how |-> "lost"] -> [is |-> "unknown", conf |-> Faded]
         [] OTHER -> [is |-> sent, conf |-> Clear]]]

\* The minute after, by the minute of the day; every day is the first of its year.
NextMinute(time) ==
  LET t == MinutesInHour * time.hour + time.minute + 1
  IN [minute |-> t % MinutesInHour, hour |-> (t \div MinutesInHour) % HoursInDay, day |-> 1]

VoteMinute ==
  /\ part = "voter" /\ Len(frames) < VoterWindow
  /\ \E mis \in Misreads :
       LET time == IF frames = <<>> THEN newest ELSE NextMinute(newest)
       IN AddFrame(Reading(time, mis)) /\ newest' = time /\ misreads' = Append(misreads, mis)
  /\ UNCHANGED <<part, airVars, slid, dec, arrivalVars, captureVars, streamVars>>
VoteReset ==
  /\ part = "voter" /\ VoterReset /\ misreads' = <<>> /\ newest' \in Starts
  /\ UNCHANGED <<part, airVars, slid, dec, arrivalVars, captureVars, streamVars>>
-----------------------------------------------------------------------------
(* The decoders.                                                           *)
-----------------------------------------------------------------------------
MsfAir ==
  /\ part = "msf" /\ Passes
  /\ \/ HeardWell /\ dec' = MsfSecond(dec, Heard(MsfContent))
     \/ Faulted("gone") /\ dec' = MsfSecond(dec, Heard(Unread))
     \/ Faulted("no") /\ dec' = MsfSecond(dec, Heard(Stray))
WwvbAir ==
  /\ part = "wwvb" /\ Passes
  /\ \/ HeardWell /\ dec' = WwvbSecond(dec, Heard(WwvbContent))
     \/ Faulted("gone") /\ dec' = WwvbSecond(dec, Heard(Unread))
     \/ Faulted("no") /\ dec' = WwvbSecond(dec, Heard(Stray))
\* A second misread names the one after it.
AllouisHeard ==
  \/ HeardWell /\ dec' = AllouisStep(dec, Heard(AllouisContent), TRUE)
  \/ Faulted("gone") /\ dec' = AllouisStep(dec, Heard(Unread), FALSE)
  \/ Faulted("weak") /\ dec' = AllouisStep(dec, Heard(Unread), TRUE)
  \/ Faulted("no") /\ dec' = AllouisStep(dec, Heard((pos + 1) % (Sec - 1)), TRUE)
\* A silent second is not counted, which puts a count right that was ahead.
AllouisSilent ==
  /\ Faulted("no") /\ dec' = AllouisSkip(dec)
  /\ slid' = IF leapAt # 0 /\ minute > leapAt /\ dec.core.anchored /\ dec.core.sofNext = (pos + 1) % Sec
             THEN dec.core.frStart ELSE slid
AllouisAir == part = "allouis" /\ Passes /\ ((AllouisHeard /\ UNCHANGED slid) \/ AllouisSilent)
\* A second well heard, faded, lost to one demodulator, strayed in one, and
\* with PM locking where no second begins.
DcfHearings ==
  LET hearing(fault, am, pm, there, falsely) ==
        [fault |-> fault, am |-> am, pm |-> pm, there |-> there, falsely |-> falsely]
  IN {hearing("none", AmContent, PmContent, "clear", FALSE),
      hearing("gone", Unread, Unread, "none", FALSE), hearing("weak", Unread, Unread, "faint", FALSE),
      hearing("pm", AmContent, Unread, "none", FALSE), hearing("am", Unread, PmContent, "clear", FALSE),
      hearing("no", Stray, PmContent, "clear", FALSE), hearing("no", AmContent, Stray, "clear", FALSE),
      hearing("no", AmContent, PmContent, "none", TRUE)}
Dcf77Air ==
  /\ part = "dcf77" /\ Passes
  /\ \E h \in DcfHearings :
       /\ IF h.fault = "none" THEN HeardWell ELSE Faulted(h.fault)
       /\ h.falsely => ~dec.pmLocked
       /\ dec' = DcfSecond(IF h.falsely THEN PmLockAt(dec, FALSE) ELSE dec, Both(h.am, h.pm), h.there)
WwvAir ==
  /\ part = "wwv" /\ Wwv!Passes
  /\ \/ Wwv!HeardWell /\ dec' = Wwv!WwvSecond(dec, Wwv!Heard(Wwv!WwvContent))
     \/ Wwv!Faulted("gone") /\ dec' = Wwv!WwvSecond(dec, Wwv!Heard(Wwv!Unread))
     \/ Wwv!Faulted("no") /\ dec' = Wwv!WwvSecond(dec, Wwv!Heard(Wwv!Stray))

FreshDecoder ==
  CASE part = "msf" -> MsfFresh
    [] part = "wwvb" -> WwvbFresh
    [] part = "allouis" -> AllouisFresh
    [] part = "dcf77" -> Dcf77Fresh
    [] OTHER -> Wwv!WwvFresh

\* Each has time for a lock, for a fault after it, and to lock again.
LastMinute == CASE part = "wwv" -> MaxMinute + 2 [] part = "dcf77" -> MaxMinute - 1 [] OTHER -> MaxMinute
OnAir ==
  /\ minute <= LastMinute
  /\ AllouisAir \/ ((MsfAir \/ WwvbAir \/ Dcf77Air \/ WwvAir) /\ UNCHANGED slid)
  /\ UNCHANGED <<part, voteVars, arrivalVars, captureVars, streamVars>>
\* The behaviour ends with the stream retuned and the decoder reset.
Retune ==
  /\ part \in Decoders /\ minute > LastMinute
  /\ dec' = FreshDecoder /\ clean' = 0
  /\ UNCHANGED <<part, leapAt, minute, pos, label, second, fading, faults, slid, voteVars, arrivalVars,
                 captureVars, streamVars>>
-----------------------------------------------------------------------------
(* Dating a sample by when its packet arrived.                             *)
-----------------------------------------------------------------------------
\* A packet arrives, in order, as late as the one before it or up to MaxDelay.
Arrive ==
  /\ part = "arrival" /\ sample < MaxPackets
  /\ \E delay \in 0 .. MaxDelay :
       /\ base + sample + 1 + delay >= now
       /\ sample' = sample + 1 /\ now' = base + sample' + delay
       /\ Observe(sample', now')
       /\ LET soon == prompt \/ delay = 0
              grown == Append(fast, soon)
              closed == bucket # <<>> /\ bucket' = <<>>
          IN /\ prompt' = (soon /\ ~closed)
             /\ fast' = IF closed THEN SubSeq(grown, Len(grown) - Len(envelope') + 1, Len(grown)) ELSE fast
  /\ UNCHANGED <<part, base, voteVars, airVars, slid, dec, captureVars>>
\* The stream starts over, and its samples are counted from nothing.
Reconnect ==
  /\ part = "arrival" /\ sample > 0 /\ base = 0
  /\ SampleClockReset /\ sample' = 0 /\ base' = now + 1 /\ fast' = <<>> /\ prompt' = FALSE
  /\ UNCHANGED <<part, now, voteVars, airVars, slid, dec, captureVars>>
-----------------------------------------------------------------------------
(* Dating a sample by the receiver's stamp.                                *)
-----------------------------------------------------------------------------
Troubles == spells + (IF missing > 0 THEN 1 ELSE 0) + (IF base > 0 THEN 1 ELSE 0)
\* A second of the host clock, slewed in spells of one way: two that undo
\* each other between readings leave nothing to see.
HostSecond ==
  \/ UNCHANGED slewVars
  \/ /\ slewed < MaxSlewed /\ slewed' = slewed + 1 /\ lastSlew' = now + 1
     /\ IF spells > 0 /\ lastSlew = now
        THEN UNCHANGED <<spells, way>>
        ELSE Troubles < MaxTroubles /\ spells' = spells + 1 /\ way' \in (IF spells = 0 THEN {-1, 1} ELSE {way})
     /\ dmr' = dmr + way' * Slew

\* A stamp is wrong while a slew is in the window it is made from.
StampError == IF slewed' > 0 /\ now' - lastSlew' < ExposureSec THEN 1 ELSE 0

\* The rates the guard takes the usual one from, when there are enough of
\* them, are not mostly those of an undisturbed clock.
Swamped(h) ==
  LET rates == Slopes(h, 1)
  IN Len(rates) >= MinSlopes /\ 2 * Cardinality({i \in DOMAIN rates : rates[i] # 0}) >= Len(rates)

\* timeBlock: the guard takes a reading with every packet, and the stamp is
\* used when it trusts the host clock.
Packet ==
  /\ GuardSample(now', dmr')
  /\ \E h \in {readings'} : swamped' = (swamped \/ Swamped(h))
  /\ IF Steady(now)' THEN ObserveMark(sample', now' + StampError) ELSE UNCHANGED marks
Ended == MaxMissing + 1
Capture ==
  /\ part = "capture" /\ now < MaxSeconds /\ now' = now + 1 /\ HostSecond
  /\ UNCHANGED <<part, base, voteVars, airVars, slid, dec, arrivalVars>>
  /\ sample' = now' - base
  /\ \/ Packet /\ missing' = (IF missing > 0 THEN Ended ELSE 0)
     \/ /\ missing < MaxMissing /\ missing' = missing + 1 /\ Troubles' <= MaxTroubles
        /\ UNCHANGED <<guardVars, marks, swamped>>
\* A stream begins, and its samples are counted from nothing: the marks go.
Begin ==
  /\ part = "capture" /\ base = 0 /\ marks # <<>> /\ base' = now /\ sample' = 0
  /\ Troubles < MaxTroubles /\ CaptureReset
  /\ UNCHANGED <<part, now, slewVars, swamped, missing, guardVars, voteVars, airVars, slid, dec, arrivalVars>>
-----------------------------------------------------------------------------
Off == leapAt = 0 /\ minute = 1 /\ pos = 0 /\ second = 1 /\ label = 0 /\ fading = "no" /\ faults = 0 /\ clean = 0
Init ==
  /\ part \in Parts /\ slid = 0
  /\ VoterInit /\ misreads = <<>> /\ (IF part = "voter" THEN newest \in Starts ELSE newest = [minute |-> 0])
  /\ (IF part = "wwv" THEN Wwv!AirInit ELSE IF part \in Decoders THEN AirInit ELSE Off)
  /\ dec = FreshDecoder
  /\ SampleClockInit /\ fast = <<>> /\ prompt = FALSE
  /\ GuardInit /\ CaptureInit /\ swamped = FALSE /\ missing = 0
  /\ dmr = 0 /\ slewed = 0 /\ lastSlew = 0 /\ spells = 0 /\ way = 1
  /\ sample = 0 /\ now = 0 /\ base = 0

\* The packets and the seconds of the model are used up.
Over ==
  /\ (part = "arrival" /\ sample = MaxPackets) \/ (part = "capture" /\ now = MaxSeconds)
  /\ UNCHANGED vars

Next == VoteMinute \/ VoteReset \/ OnAir \/ Retune \/ Arrive \/ Reconnect \/ Capture \/ Begin \/ Over

Spec == Init /\ [][Next]_vars
-----------------------------------------------------------------------------
\* One bit of one place read from noise or lost, or one minute unread.
Unclean == {i \in DOMAIN misreads : misreads[i].how # "none"}
Mild ==
  /\ \A i \in DOMAIN misreads : misreads[i].how # "flip"
  /\ \A i, j \in Unclean : i = j \/ (misreads[i].bit = misreads[j].bit /\ misreads[i].how # "blank")

HeldOrWorthless(res, normal) ==
  res.quality > 0 => \A f \in Fields : res.value[f] \in HeldValues(normal, f)

(* A time voted is a time sent: with a fade that takes the same bit of     *)
(* any of the minutes, or the whole of one, the voter locks on the newest  *)
(* frame's true minute, hour and day or not at all, over the end of an     *)
(* hour and of a day too; read clearly, two minutes are enough; and        *)
(* whatever is misread, bits that each won their vote do not compose a     *)
(* value no frame of the window held (composeHeld), unless it is given no  *)
(* quality.                                                                *)
VotedIsTrue ==
  /\ Mild /\ Locked(frames) => ComputeResolution(frames).value = newest
  /\ Unclean = {} /\ Len(frames) >= MinFramesForLock => Locked(frames)
  /\ frames # <<>> => HeldOrWorthless(ComputeResolution(frames), BuildNormalizedFrames(frames))

\* The decoder tells no time, the right one, or one the daemon refuses.
ToldRight ==
  LET told == IF part = "wwv" THEN Wwv!Told(dec.core) ELSE Told(dec.core)
      refused == IF part = "wwv" THEN Wwv!Refused(dec.core) ELSE Refused(dec.core)
  IN dec.core.tells => told = label \/ (refused /\ ~dec.core.baseWarned)

(* Every second a decoder puts a time on is that second: through fades,    *)
(* strays, an anchor taken in the wrong place, a count that slips, and a   *)
(* leap second, announced or missed.  Where the warning was never read,    *)
(* the daemon refuses the times past that midnight itself.  Except that an *)
(* ALS162 second that is silent, and so not counted, while the count is a  *)
(* second ahead because a leap second was, may have the time told wrongly  *)
(* that is counted from that frame.                                        *)
TimeTold == ToldRight \/ (slid > 0 /\ dec.core.base = slid)

(* "the position codes find the count again after" (AllouisDecoder.cpp,    *)
(* finalizeFrame): past a leap second the ALS162 decoder, which stopped    *)
(* telling the time before it, tells the right one.                        *)
CountFoundAfterLeap == part = "allouis" /\ leapAt # 0 /\ minute > leapAt => ToldRight

\* Seconds of good signal after which each decoder has its lock.
Soon == [msf |-> 3 * Sec, wwvb |-> 5 * Sec, allouis |-> 4 * Sec, dcf77 |-> 4 * Sec, wwv |-> 6 * WwvSec]
(* No fault leaves a decoder out for good: with the signal back, it drops  *)
(* what it has anchored wrongly, and locks, within minutes.                *)
RelocksInTime == part \in Decoders /\ clean >= Soon[part] => dec.core.locked

(* One packet on time in each bucket is enough: whatever the others'       *)
(* delays, and over a reconnection, the line dates every sample exactly.   *)
EnvelopeExact ==
  LET fit == Refit
  IN FitValid /\ (\A i \in DOMAIN fast : fast[i]) => HostResidual(fit, sample) = fit.n * fit.den * base

(* No sample is dated by a stamp made while the host clock was slewed, for *)
(* however long, or by one of an earlier stream, also when the packets     *)
(* stop while it is; as long as most of the rates in the guard's history   *)
(* are of a clock that was not slewed.  Sixteen minutes of history make a  *)
(* minute's slew "a few of them" (SampleClock.h); in the first two minutes *)
(* it may be most of them, and its rate is then taken for the usual one.   *)
CaptureTrusted ==
  part = "capture" /\ ~swamped => \A s \in 0 .. sample : CaptureReaches(s) => CapturedAt(s) = s + base
=============================================================================
