------------------------------ MODULE WwvFrame ------------------------------
(***************************************************************************)
(* WwvDecoder: WWV's minute has a marker in the last second of every       *)
(* decade and no pulse at all in its first.  The minute is found by        *)
(* scoring two minutes of seconds at every offset, and afterwards counted; *)
(* a marker a second from its place casts doubt on the count at once, and  *)
(* a whole minute of them moves it by that second.  A leap second is an    *)
(* ordinary zero before the hole.                                          *)
(***************************************************************************)
EXTENDS Broadcast

CONSTANTS
  Decade,         \* seconds between markers (10)
  SlipMarks,      \* markers a second out of place that are a slip (4 of 6)
  SoundMarks,     \* markers in their places that vouch for a minute (4 of 6)
  MaxFalseMarks   \* markers elsewhere in a minute that is sound (5)

BadFrames == 3        \* unsound minutes in a row that undo the anchor
RecCap == 3 * Sec     \* kRecCap

WwvContent == pos
MarkerSec(s) == s % Decade = Decade - 1
WwvMarker(r) == (r.is < Sec /\ MarkerSec(r.is)) \/ r.is = Stray
Confident(r) == r.is # Unread
\* No pulse: the hole, and a second lost in a fade.
Low(r) == r.is \in {0, Unread}

WwvFresh ==
  [core |-> CoreFresh, recs |-> <<>>, recBase |-> 0, secIndex |-> 0, anchorSec0 |-> 0, nextFrame |-> 0,
   suspectSec |-> -1, lastRealign |-> -1, badFrameStreak |-> 0, haveLastFields |-> FALSE,
   lastFields |-> 0, tickLocked |-> FALSE]

\* What structure has proved wrong is forgotten, down to the tick.
SoftReacquire(d) ==
  [WwvFresh EXCEPT !.recBase = d.secIndex, !.secIndex = d.secIndex,
                   !.core.base = d.core.base, !.core.baseWarned = d.core.baseWarned]

WwvLeapPossible(d) == d.haveLastFields /\ LeapSecondPossible(d.lastFields)

\* Record number k, counted from the first second processed.
Rec(d, k) == d.recs[k - d.recBase + 1]
-----------------------------------------------------------------------------
\* The minutes that fit after an offset, and one's second s.
Fits(recs, off) == (Len(recs) - off) \div Sec
In(recs, off, t, s) == recs[off + Sec * t + s + 1]

MarkerScore(recs, off, t) ==
  MapThenSumSet(LAMBDA s : IF WwvMarker(In(recs, off, t, s)) THEN (IF MarkerSec(s) THEN 2 ELSE -1) ELSE 0,
                0 .. Sec - 1)
Hole(recs, off, t) ==
  /\ Low(In(recs, off, t, 0))
  /\ 2 * Cardinality({s \in 1 .. Sec - 1 : ~Low(In(recs, off, t, s))}) > Sec
\* The minute's bits are in one second; read from another it is noise.
MinuteAt(recs, off, t) == LET r == In(recs, off, t, 1) IN IF r.is = 1 THEN Spelt(r.of) ELSE 0

Anchor(recs, off) ==
  LET minutes == 0 .. Fits(recs, off) - 1
  IN [marker |-> MapThenSumSet(LAMBDA t : MarkerScore(recs, off, t), minutes),
      hole |-> Cardinality({t \in minutes : Hole(recs, off, t)}),
      inc |-> Cardinality({t \in minutes \ {0} :
                MinuteAt(recs, off, t) = MinuteAt(recs, off, t - 1) + 1})]
Score(a) == a.marker + 4 * a.inc + 3 * a.hole

\* The best offset is taken, the first of equals, if its structure holds.
TryAnchor(d) ==
  LET offs == {off \in 0 .. Sec - 1 : Fits(d.recs, off) >= 2}
      scored == {[off |-> off, a |-> Anchor(d.recs, off)] : off \in offs}
      top == {x \in scored : \A y \in scored : Score(y.a) <= Score(x.a)}
      best == CHOOSE x \in top : \A y \in top : x.off <= y.off
  IN IF d.core.anchored \/ Len(d.recs) < 2 * Sec \/ ~(best.a.marker > 0 /\ best.a.inc >= 1 /\ best.a.hole >= 1)
     THEN d
     ELSE [d EXCEPT !.core.anchored = TRUE, !.anchorSec0 = d.recBase + best.off,
                    !.nextFrame = d.recBase + best.off]
-----------------------------------------------------------------------------
WwvDecode(frame) ==
  IF \A s \in 1 .. Sec - 1 : MarkerSec(s) \/ (frame[s + 1].is = s /\ frame[s + 1].of = frame[2].of)
  THEN frame[2].of ELSE 0

Marks(frame, offset) ==
  Cardinality({s \in 0 .. Sec - 1 : WwvMarker(frame[s + 1]) /\ s % Decade = (Decade - 1 + offset) % Decade})

(* One whole minute.  A suspect one takes its slot in the window and votes *)
(* nothing.  Told are the voted fields, at the second just processed, with *)
(* this minute's start; between minutes the daemon counts on from it.      *)
FeedFrame(d, frame) ==
  LET c == [d.core EXCEPT !.frStart = frame[1].at]
      suspect == d.suspectSec \in d.nextFrame .. d.nextFrame + Sec - 1
      ok == Marks(frame, 0)
      sound == ok >= SoundMarks
               /\ Cardinality({s \in 0 .. Sec - 1 : WwvMarker(frame[s + 1])}) - ok <= MaxFalseMarks
      streak == IF sound THEN 0 ELSE d.badFrameStreak + 1
      m == IF suspect THEN 0 ELSE WwvDecode(frame)
      votes == Cast(c.votes, m)
      certified == Certified(votes)
      fields == IF certified THEN VotedMinute(votes) ELSE m
      leapNext == ~suspect /\ ((m # 0 /\ Warned(m)) \/ c.lastLeapWarn) /\ LeapSecondPossible(fields)
      voted == [c EXCEPT !.votes = votes, !.lastLeapWarn = IF suspect THEN @ ELSE m # 0 /\ Warned(m)]
      ended == CASE certified /\ (suspect \/ leapNext) -> Demote(voted)
                 [] certified /\ ~suspect /\ ~leapNext /\ ~sound -> voted
                 [] certified /\ ~suspect /\ ~leapNext /\ sound ->
                      [voted EXCEPT !.locked = TRUE, !.haveVoted = TRUE, !.voted = fields,
                                    !.base = c.frStart, !.baseWarned = m # 0 /\ Warned(m)]
                 [] OTHER -> Demote(voted)
  IN IF streak >= BadFrames THEN SoftReacquire(d)
     ELSE [d EXCEPT !.core = ended, !.badFrameStreak = streak, !.nextFrame = @ + Sec,
                    !.haveLastFields = ~suspect, !.lastFields = IF suspect THEN @ ELSE fields]

\* The anchor is moved by a second; a second time in one place is too often.
Realign(d, shift) ==
  IF d.nextFrame = d.lastRealign THEN SoftReacquire(d)
  ELSE [d EXCEPT !.core = [@ EXCEPT !.locked = FALSE], !.anchorSec0 = @ + shift, !.nextFrame = @ + shift,
                 !.lastRealign = d.nextFrame + shift, !.suspectSec = -1]

\* One turn of feedPendingFrames: the oldest minute that is complete, if one is.
FeedPendingFrame(d) ==
  LET base == d.nextFrame - d.recBase
      frame == SubSeq(d.recs, base + 1, base + Sec)
      late == Marks(frame, 1)
      early == Marks(frame, -1)
      misplaced == (late >= SlipMarks \/ early >= SlipMarks) /\ Marks(frame, 0) <= SoundMarks - 2
  IN IF ~d.core.anchored \/ d.nextFrame + Sec > d.secIndex THEN d
     ELSE IF base < 0 THEN [d EXCEPT !.nextFrame = @ + Sec]
     ELSE IF misplaced THEN Realign(d, IF late >= early THEN 1 ELSE -1)
     ELSE FeedFrame(d, frame)

\* There are no more turns than these: the minutes the records hold, each moved once.
MaxTurns == 2 * (RecCap \div Sec) + 1
FeedPendingFrames(d) ==
  LET fed[n \in 0 .. MaxTurns] == IF n = 0 THEN d ELSE FeedPendingFrame(fed[n - 1])
  IN fed[MaxTurns]
-----------------------------------------------------------------------------
\* The second of the minute the count has second k as.
SecOfFrame(d, k) == IF d.core.anchored THEN (k - d.anchorSec0) % Sec ELSE -1

\* A second that contradicts the count, before it is told.
SlipSeen(d, r, sof) ==
  LET prev == d.recs[Len(d.recs)]
      late == WwvMarker(r) /\ sof % Decade = 0 /\ ~WwvMarker(prev)
      early == Confident(r) /\ ~WwvMarker(r) /\ MarkerSec(sof) /\ WwvMarker(prev)
      leapHole == sof = 1 /\ WwvLeapPossible(d) /\ Low(r) /\ ~Low(prev)
  IN d.core.anchored /\ sof > 0 /\ d.recs # <<>> /\ (late \/ early \/ leapHole)

WwvProcess(d0, r) ==
  LET sof == SecOfFrame(d0, d0.secIndex)
      d == IF SlipSeen(d0, r, sof) THEN [d0 EXCEPT !.suspectSec = d0.secIndex, !.core.locked = FALSE] ELSE d0
      full == Len(d.recs) = RecCap
      kept == [d EXCEPT !.core.sof = sof, !.secIndex = @ + 1,
                        !.recBase = IF full THEN @ + 1 ELSE @,
                        !.recs = Append(IF full THEN Tail(@) ELSE @, [is |-> r.is, of |-> r.of, at |-> second])]
      done == FeedPendingFrames(TryAnchor(kept))
  IN [done EXCEPT !.core.tells = done.core.locked]

\* Nothing is cut into seconds until the tick is locked.
WwvSecond(d, r) ==
  IF d.tickLocked THEN WwvProcess(d, r)
  ELSE [d EXCEPT !.tickLocked = Confident(r), !.core.tells = FALSE]
=============================================================================
