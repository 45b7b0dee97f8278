----------------------------- MODULE Broadcast ------------------------------
(***************************************************************************)
(* What a time-signal station sends, how badly it may be heard, and what   *)
(* the five decoders (src/clock) do alike with a minute once they have one *)
(* : they vote it, they lock or they stop certifying.  Each decoder's own  *)
(* part, where a minute begins and ends, is a module that extends this one.*)
(*                                                                         *)
(* A second is read whole.  Its content is its number in the minute, so    *)
(* that a frame that is not seconds 0, 1, 2, ... of one minute, in order   *)
(* and read, fails the checks of the code and decodes to nothing; which    *)
(* values get past misread bits is FrameVoter's subject.  The edge is the  *)
(* second's: how it is measured is signal processing, and not here.        *)
(***************************************************************************)
EXTENDS Integers, Sequences, FiniteSetsExt

CONSTANTS
  Sec,        \* seconds in a minute (60)
  MaxMinute,  \* minutes on the air
  MonthEnd,   \* the minute a leap second may follow: the last of a month
  MaxFaults   \* fades, stray readings and slips in them

ASSUME BroadcastAssumption ==
  Sec \in Nat /\ Sec > 5 /\ MaxMinute \in Nat /\ MonthEnd \in 1 .. MaxMinute /\ MaxFaults \in Nat

VARIABLES
  leapAt,   \* the minute that has a leap second, 0 when none has
  minute,   \* the minute on the air, and
  pos,      \*   the second of it
  label,    \* the time the last second really was, 0 for a leap second
  second,   \* seconds the receiver has taken in: the sample clock
  fading,   \* "no", or how the signal is out of reach: "weak" or "gone"
  faults,   \* faults so far
  clean,    \* seconds read since the last one, or since a leap second
  dec       \* the decoder

airVars == <<leapAt, minute, pos, label, second, fading, faults, clean>>

Length(m) == IF m = leapAt THEN Sec + 1 ELSE Sec

\* Contents no second of a minute has: the leap second, a clear reading of
\* a marker where none was sent, and a second that could not be read.
Extra == Sec
Stray == Sec + 1
Unread == Sec + 2
Heard(content) == [is |-> content, of |-> minute]

\* The leap warning, sent through the month's last hours.
Warned(m) == leapAt # 0 /\ m <= MonthEnd
LeapSecondPossible(m) == m = MonthEnd
-----------------------------------------------------------------------------
\* The voter, as a decoder sees it: a window of minutes, 0 for one that was
\* not decoded, which its bits spell as minute 0 of the hour.
VoteWindow == 4
VoteAge == 3
MinutesPerHour == 4
Spelt(m) == m % MinutesPerHour
VoteWeight(age) == <<100, 90, 81, 73>>[age + 1]

Brought(votes, i) == votes[i] + Len(votes) - i
Backing(votes, m) ==
  MapThenSumSet(LAMBDA i : VoteWeight(Len(votes) - i),
                {i \in DOMAIN votes : votes[i] # 0 /\ Brought(votes, i) = m})
Certified(votes) ==
  /\ \E i \in 2 .. Len(votes) : Spelt(votes[i]) = Spelt(votes[i - 1] + 1)
  /\ \E i \in DOMAIN votes : votes[i] # 0 /\ Len(votes) - i <= VoteAge
VotedMinute(votes) ==
  LET held == {Brought(votes, i) : i \in {j \in DOMAIN votes : votes[j] # 0}}
  IN CHOOSE m \in held : \A n \in held : Backing(votes, n) <= Backing(votes, m)

\* Extend the window, oldest out.
Cast(votes, m) ==
  LET grown == Append(votes, m)
  IN IF Len(grown) > VoteWindow THEN Tail(grown) ELSE grown
-----------------------------------------------------------------------------
\* What every decoder keeps, after reset().
CoreFresh ==
  [anchored |-> FALSE, sof |-> -1, sofNext |-> 0, frame |-> <<>>, frStart |-> 0,
   locked |-> FALSE, haveVoted |-> FALSE, voted |-> 0, votes |-> <<>>,
   haveLastFrame |-> FALSE, lastFrameStart |-> 0, lastLeapWarn |-> FALSE,
   unconfirmedRun |-> 0, blindSeconds |-> 0,
   base |-> 0, baseWarned |-> FALSE, tells |-> FALSE]

Demote(d) == [d EXCEPT !.haveVoted = FALSE, !.locked = FALSE]

\* Slip: any earlier frame is the one before.
AnyGap(d, gap) == d.haveLastFrame
\* The frame starts one whole minute, or a leap minute, after the last.
Consecutive(d, gap) == d.haveLastFrame /\ d.frStart - d.lastFrameStart = gap

\* A minute is handed on (onFrame) and voted; m is 0 when undecoded.  The
\* window starts over when a minute was missed.
VoteFrame(d, m, gap) ==
  LET votes == Cast(IF Consecutive(d, gap) THEN d.votes ELSE <<>>, m)
  IN [d EXCEPT !.base = d.frStart, !.baseWarned = m # 0 /\ Warned(m), !.votes = votes,
               !.haveLastFrame = TRUE, !.lastFrameStart = d.frStart,
               !.voted = IF Certified(votes) THEN VotedMinute(votes) ELSE @]

\* Certified and sound, the minute is told; else the lock is let go.
Conclude(d, sound) ==
  IF Certified(d.votes) /\ sound THEN [d EXCEPT !.haveVoted = TRUE, !.locked = TRUE] ELSE Demote(d)

\* A leap second is to follow the minute just decoded, as this frame's
\* warning or the one before it says.
LeapNext(d, m) == m # 0 /\ (Warned(m) \/ d.lastLeapWarn) /\ LeapSecondPossible(m)
-----------------------------------------------------------------------------
(* The time the daemon makes of the second just told (onClockTime): the    *)
(* voted minute's start plus the whole seconds since that frame began,     *)
(* refused past a midnight a leap second may precede.                      *)
Told(d) == d.voted * Sec + (second - 1 - d.base)
Refused(d) == d.voted <= MonthEnd /\ Told(d) >= (MonthEnd + 1) * Sec

AirInit ==
  /\ leapAt \in {0, MonthEnd}
  /\ minute = 1 /\ pos \in 0 .. Sec - 1 /\ second = 1 /\ label = 0
  /\ fading = "no" /\ faults = 0 /\ clean = 0

\* The next second goes out.
Passes ==
  /\ IF pos + 1 < Length(minute) THEN pos' = pos + 1 /\ minute' = minute
     ELSE pos' = 0 /\ minute' = minute + 1
  /\ second' = second + 1
  /\ label' = IF pos < Sec THEN minute * Sec + pos ELSE 0
  /\ UNCHANGED leapAt

HeardWell ==
  fading' = "no" /\ faults' = faults /\ clean' = (IF pos = Sec THEN 0 ELSE clean + 1)
\* A fault of one second, or the first or a further second of a fade.
Faulted(fade) ==
  /\ faults' = (IF fade # "no" /\ fading = fade THEN faults ELSE faults + 1)
  /\ faults' <= MaxFaults
  /\ fading' = fade /\ clean' = 0
=============================================================================
