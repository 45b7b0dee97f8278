------------------------------ MODULE LfFrames ------------------------------
(***************************************************************************)
(* Three broadcasts on low frequencies, MSF's and WWVB's on 60 kHz and     *)
(* ALS162's on 162 kHz, as MsfDecoder, WwvbDecoder and AllouisDecoder read *)
(* them from a classified second on.                                       *)
(***************************************************************************)
EXTENDS Broadcast
-----------------------------------------------------------------------------
(* MsfDecoder: MSF's minute starts at its marker and ends at the           *)
(* identifier that no other part of it can spell, and the next marker.     *)
(* Its fields are counted back from the end, so that an inserted second    *)
(* shifts none of them; nothing announces one.                             *)
CONSTANTS
  IdLen,     \* seconds of the identifier (8)
  BlindMax   \* seconds without an edge before the anchor goes (90)

ASSUME MsfAssumption == IdLen \in 2 .. Sec - 3 /\ BlindMax \in Nat

FirstCoded == 2       \* the first second of the fields counted from the end (17)
FrameCap == Sec + 2
MaxUnconfirmed == 2   \* kMaxUnconfirmedMinutes

\* Where the extra second goes: before the fields counted from the end.
MsfContent == IF Length(minute) = Sec \/ pos < FirstCoded THEN pos
              ELSE IF pos = FirstCoded THEN Extra ELSE pos - 1

MsfFresh == [core |-> CoreFresh, hist |-> <<>>, lastFrameLen |-> 0]

\* A clear marker, genuine or not.
ConfMarker(r) == r.is \in {0, Stray}

\* The identifier, its bits all read, at the end of a run of seconds.
IdentifierEnds(seconds) ==
  /\ Len(seconds) >= IdLen
  /\ \A j \in 1 .. IdLen : seconds[Len(seconds) - IdLen + j].is = Sec - IdLen + j - 1

DropAnchor(c) ==
  [c EXCEPT !.anchored = FALSE, !.sofNext = 0, !.haveVoted = FALSE, !.frame = <<>>,
            !.frStart = 0, !.unconfirmedRun = 0]
StartFrame(c, r) == [c EXCEPT !.frame = <<r>>, !.frStart = second, !.sofNext = 1, !.sof = 0]

\* The coded seconds are all there, in their places from the end of the n.
MsfDecode(frame, n) ==
  LET at(p) == frame[p + (n - Sec) + 1]
      whole == \A p \in FirstCoded .. Sec - 1 : at(p).is = p
  IN IF n >= Sec - 1 /\ Len(frame) >= n /\ whole THEN at(Sec - 1).of ELSE 0

(* The minute in the frame has ended after n seconds.  It is confirmed by  *)
(* the identifier or by both markers and contradicted by an identifier     *)
(* clearly wrong; a minute that was not Sec long is decoded and not told.  *)
MsfFinalize(d, n, endMarker) ==
  LET c == d.core
      tail == SubSeq(c.frame, n - IdLen + 1, n)
      idOk == IdentifierEnds(SubSeq(c.frame, 1, n))
      idWrong == Cardinality({j \in 1 .. IdLen : tail[j].is \notin {Unread, Sec - IdLen + j - 1}})
      confirmed == idWrong < 2 /\ (idOk \/ (ConfMarker(c.frame[1]) /\ endMarker))
      run == IF confirmed THEN 0 ELSE c.unconfirmedRun + 1
      m == IF confirmed THEN MsfDecode(c.frame, n) ELSE 0
      gone == [Demote(DropAnchor(c)) EXCEPT !.haveLastFrame = FALSE]
      voted == VoteFrame([c EXCEPT !.unconfirmedRun = run], m, d.lastFrameLen)
  IN IF idWrong >= 2 \/ run > MaxUnconfirmed THEN [d EXCEPT !.core = gone]
     ELSE [d EXCEPT !.core = Conclude(voted, confirmed /\ n = Sec), !.lastFrameLen = n]

\* The second that ended a minute is second 0 of the next; if the anchor
\* was let go, only when it is a clear marker.
AfterFinalize(d, r) ==
  [d EXCEPT !.core = IF @.anchored \/ ConfMarker(r)
                     THEN StartFrame([@ EXCEPT !.anchored = TRUE], r)
                     ELSE [@ EXCEPT !.sof = -1]]

MsfUnanchored(d, r) ==
  [d EXCEPT !.core =
     IF ConfMarker(r) THEN StartFrame([@ EXCEPT !.anchored = TRUE], r)
     ELSE IF IdentifierEnds(d.hist)
     THEN [@ EXCEPT !.anchored = TRUE, !.sof = Sec - 1, !.sofNext = 0, !.frame = <<>>]
     ELSE [@ EXCEPT !.sof = -1]]

\* A second counted into the minute; the identifier may end it here.
MsfCounted(d, r) ==
  LET sof == d.core.sofNext
      kept == [d EXCEPT !.core.frame = Append(@, r), !.core.sof = sof, !.core.sofNext = sof + 1]
      ended == MsfFinalize(kept, sof + 1, FALSE)
  IN IF sof \in Sec - 2 .. Sec /\ IdentifierEnds(kept.core.frame)
     THEN [ended EXCEPT !.core.sofNext = 0]
     ELSE kept

MsfAnchored(d, r) ==
  LET sof == d.core.sofNext
      slipped == [Demote(d.core) EXCEPT !.haveLastFrame = FALSE, !.unconfirmedRun = 0]
      lost == [Demote(DropAnchor(d.core)) EXCEPT !.sof = -1]
  IN CASE sof = 0 -> [d EXCEPT !.core = StartFrame(@, r)]
       [] sof >= Sec - 1 /\ ConfMarker(r) -> AfterFinalize(MsfFinalize(d, sof, TRUE), r)
       [] sof \in 1 .. Sec - 2 /\ ConfMarker(r) -> [d EXCEPT !.core = StartFrame(slipped, r)]
       [] sof >= Sec /\ ~ConfMarker(r) /\ IdentifierEnds(d.core.frame) ->
            AfterFinalize(MsfFinalize(d, sof, FALSE), r)
       [] OTHER -> IF sof >= FrameCap - 1 THEN [d EXCEPT !.core = lost] ELSE MsfCounted(d, r)

\* onTime is called: locked, with a voted minute, in a labelled second.
MsfTells(c) == c.locked /\ c.haveVoted /\ c.sof \in 0 .. Sec - 1

\* processSecond and handleSecond.
MsfSecond(d0, r) ==
  LET blind == IF r.is = Unread THEN d0.core.blindSeconds + 1 ELSE 0
      d == [d0 EXCEPT !.core.blindSeconds = blind,
                      !.hist = Append(IF Len(@) = IdLen THEN Tail(@) ELSE @, r)]
      handled == IF d.core.anchored THEN MsfAnchored(d, r) ELSE MsfUnanchored(d, r)
      done == [handled EXCEPT !.core.tells = MsfTells(handled.core)]
  IN IF blind >= BlindMax
     THEN [done EXCEPT !.core = [Demote(DropAnchor(@)) EXCEPT !.blindSeconds = 0], !.hist = <<>>]
     ELSE done
-----------------------------------------------------------------------------
(* WwvbDecoder: WWVB's minute is framed by markers at fixed seconds, and   *)
(* two in a row are the last second of one minute and the first of the     *)
(* next.  Every second is classified as something, so a fade misreads      *)
(* markers rather than leaving them out.  A leap second is a third marker. *)

\* kMarkerSeconds, on the scale of the model's minute.
Markers == {0, 2, Sec - 1}

WwvbContent == pos
IsMarker(r) == r.is \in Markers \cup {Extra, Stray}

WwvbFresh ==
  [core |-> CoreFresh, havePrev |-> FALSE, prev |-> FALSE, prevPrev |-> FALSE,
   leapInserted |-> FALSE, haveLastFields |-> FALSE, lastFields |-> 0]

\* With no minute decoded to judge by, a leap second cannot be ruled out.
WwvbLeapPossible(d) == d.haveLastFields => LeapSecondPossible(d.lastFields)

BeginFrame(c) == [c EXCEPT !.frStart = second, !.frame = <<>>]

Acquire(d) ==
  LET minuteMark == d.havePrev /\ d.prev
  IN IF minuteMark
     THEN [d EXCEPT !.core = BeginFrame([@ EXCEPT !.anchored = TRUE, !.sof = 0, !.sofNext = 1])]
     ELSE [d EXCEPT !.core.sof = -1]

\* A third marker in a row: the second labelled 0 was the leap second.
LeapSeen(d) ==
  [d EXCEPT !.core = BeginFrame([Demote(@) EXCEPT !.sof = 0, !.sofNext = 1]), !.leapInserted = TRUE]

\* The count goes on; a clear reading that breaks the skeleton of markers
\* ends the lock at once, and the minute's end decides.
CountOn(d, r) ==
  LET sof == d.core.sofNext
      begun == IF sof = 0 THEN BeginFrame(d.core) ELSE d.core
      counted == [begun EXCEPT !.sof = sof, !.sofNext = (sof + 1) % Sec]
      broken == r.is # Unread /\ (IsMarker(r) # (sof \in Markers))
  IN [d EXCEPT !.core = IF broken THEN Demote(counted) ELSE counted]

UpdateSync(d, r) ==
  LET marker == IsMarker(r)
      third == d.core.sofNext = 1 /\ marker /\ d.prev /\ d.prevPrev /\ WwvbLeapPossible(d)
      synced == IF ~d.core.anchored THEN (IF marker THEN Acquire(d) ELSE [d EXCEPT !.core.sof = -1])
                ELSE IF third THEN LeapSeen(d) ELSE CountOn(d, r)
  IN [synced EXCEPT !.prevPrev = d.havePrev /\ d.prev, !.prev = marker, !.havePrev = TRUE]

\* A minute whose seconds were all read in their places names itself.
WwvbDecode(frame) ==
  IF \A i \in 1 .. Sec : frame[i].is = i - 1 THEN frame[Sec].of ELSE 0

\* Slip: the anchor is kept.
OnlyDemoted(d) == [d EXCEPT !.core = Demote(@)]
\* The anchor, the window and what was known of the last minute go.
Undone(d) ==
  [WwvbFresh EXCEPT !.core.sof = d.core.sof, !.core.sofNext = d.core.sofNext, !.core.base = d.core.base,
                    !.core.baseWarned = d.core.baseWarned]

(* The minute's end.  A broken skeleton drops the anchor and the window;   *)
(* a sound minute is voted, the one after a leap second at a distance of a *)
(* minute and a second.                                                    *)
WwvbFinalize(d) ==
  LET c == d.core
      sound == Len(c.frame) >= Sec /\ \A s \in Markers : IsMarker(c.frame[s + 1])
      m == WwvbDecode(c.frame)
      voted == VoteFrame(c, m, IF d.leapInserted THEN Sec + 1 ELSE Sec)
      fields == IF Certified(voted.votes) THEN voted.voted ELSE m
      leapNext == ((m # 0 /\ Warned(m)) \/ c.lastLeapWarn) /\ LeapSecondPossible(fields)
      ended == Conclude([voted EXCEPT !.lastLeapWarn = m # 0 /\ Warned(m)], ~leapNext)
  IN IF sound
     THEN [d EXCEPT !.core = ended, !.leapInserted = FALSE, !.haveLastFields = TRUE, !.lastFields = fields]
     ELSE Undone(d)

RecordFrameSecond(d, r) ==
  LET kept == [d EXCEPT !.core.frame = Append(@, r)]
  IN IF d.core.sof = Sec - 1 THEN WwvbFinalize(kept) ELSE kept

\* classifyAndAdvance.
WwvbSecond(d, r) ==
  LET synced == UpdateSync(d, r)
      done == IF synced.core.anchored /\ synced.core.sof >= 0 THEN RecordFrameSecond(synced, r) ELSE synced
  IN [done EXCEPT !.core.tells = done.core.locked /\ done.core.haveVoted]
-----------------------------------------------------------------------------
(* AllouisDecoder: every second of ALS162 but the last names itself by its *)
(* position code.  The minute is found from two seconds that follow each   *)
(* other, held by counting, and followed to where the codes say it is when *)
(* two in a row say otherwise.  Unread bits are filled in by the minute's  *)
(* checks.                                                                 *)
CONSTANTS
  ConfirmMatches,  \* seconds that must name themselves in a minute (30)
  UnnamedMax,      \* seconds that name nothing before the phase is wrong (30)
  DarkMax,         \* seconds with nothing timed before it is lost (60)
  FoldSeconds      \* seconds the fold takes to find the second (12)

ASSUME AllouisAssumption ==
  ConfirmMatches \in 1 .. Sec - 1 /\ {UnnamedMax, DarkMax, FoldSeconds} \subseteq Nat

MaxErasures == 1        \* kMaxErasures, 2 of 59
UnconfirmedMinutes == 2  \* kMaxUnconfirmedMinutes

\* The extra second carries no code of its own.
AllouisContent == pos
NoKey == -1
\* The second a position code names; the last of the minute has none.
Key(r) == IF r.is \in 0 .. Sec - 2 THEN r.is ELSE NoKey
ReadsAsLast(r) == r.is = Sec - 1

AllouisFresh ==
  [core |-> CoreFresh, seen |-> <<>>, matches |-> 0, mismatches |-> 0, slipRun |-> 0,
   unnamedRun |-> 0, found |-> FALSE, fold |-> 0]

\* The anchor is dropped; the last frame's start is kept.
LoseAnchor(d) ==
  [d EXCEPT !.core = [@ EXCEPT !.anchored = FALSE, !.sofNext = 0, !.haveVoted = FALSE, !.frame = <<>>,
                               !.frStart = 0, !.unconfirmedRun = 0, !.lastLeapWarn = FALSE],
            !.matches = 0, !.mismatches = 0, !.slipRun = 0]

BlankFrame == [i \in 1 .. Sec |-> [is |-> Unread, of |-> 0]]
AnchorAt(d, sof) ==
  [d EXCEPT !.core = [@ EXCEPT !.anchored = TRUE, !.sofNext = sof, !.frame = BlankFrame,
                               !.frStart = IF sof = 0 THEN second ELSE @],
            !.matches = 0, !.mismatches = 0, !.slipRun = 0]

\* Two seconds in a row that name themselves one after the other, or a
\* last second and a first.
Anchoring(d, r) ==
  IF d.core.anchored \/ d.seen = <<>> THEN d
  ELSE LET p == d.seen[1]
       IN IF Key(r) # NoKey /\ ((Key(p) # NoKey /\ Key(r) = Key(p) + 1) \/ (Key(r) = 0 /\ ReadsAsLast(p)))
          THEN AnchorAt(d, Key(r)) ELSE d

\* Does the second name itself as the count has it?
Slipped(d) == [d EXCEPT !.core = [Demote(@) EXCEPT !.haveLastFrame = FALSE]]
CheckName(d, r) ==
  LET sof == d.core.sofNext
      named == Key(r) # NoKey /\ Key(r) # sof
      counted == [d EXCEPT !.mismatches = @ + 1, !.slipRun = @ + 1]
  IN CASE sof < Sec - 1 /\ named -> IF counted.slipRun >= 2 THEN AnchorAt(Slipped(counted), Key(r)) ELSE counted
       [] sof < Sec - 1 /\ ~named -> [d EXCEPT !.slipRun = 0, !.matches = @ + (IF Key(r) = sof THEN 1 ELSE 0)]
       [] OTHER -> [d EXCEPT !.mismatches = @ + (IF Key(r) # NoKey THEN 1 ELSE 0)]

\* Exactly one filling of the unread bits passes the checks: that of the
\* minute they are the bits of.
AllouisDecode(frame) ==
  LET unread == {i \in 1 .. Sec - 1 : frame[i].is = Unread}
      rest == (1 .. Sec - 1) \ unread
  IN IF /\ Cardinality(unread) <= MaxErasures
        /\ \A i \in rest : frame[i].is = i - 1
        /\ \A i, j \in rest : frame[i].of = frame[j].of
     THEN frame[Max(rest)].of ELSE 0

(* The minute's end.  One that two seconds contradict, or the third in a   *)
(* row unconfirmed, is not handed on; the count is kept.                   *)
AllouisFinalize(d) ==
  LET c == d.core
      contradicted == d.mismatches > 1
      confirmed == Len(c.frame) >= Sec /\ d.matches >= ConfirmMatches /\ ~contradicted
      run == IF confirmed THEN 0 ELSE c.unconfirmedRun + 1
      m == IF confirmed THEN AllouisDecode(c.frame) ELSE 0
      voted == VoteFrame([c EXCEPT !.unconfirmedRun = run], m, Sec)
      ended == Conclude([voted EXCEPT !.lastLeapWarn = m # 0 /\ Warned(m)], confirmed /\ ~LeapNext(c, m))
      refused == [Demote(c) EXCEPT !.haveLastFrame = FALSE,
                                   !.unconfirmedRun = IF contradicted THEN @ ELSE run]
  IN [d EXCEPT !.core = IF contradicted \/ run > UnconfirmedMinutes THEN refused ELSE ended,
               !.matches = 0, !.mismatches = 0]

Begun(d) ==
  IF d.core.sofNext # 0 THEN d
  ELSE [d EXCEPT !.core.frStart = second, !.core.frame = BlankFrame, !.matches = 0, !.mismatches = 0]
RecordedAt(d, r, sof) ==
  LET kept == [d EXCEPT !.core = [@ EXCEPT !.frame[sof + 1] = r, !.sof = sof, !.sofNext = (sof + 1) % Sec]]
  IN IF sof = Sec - 1 THEN AllouisFinalize(kept) ELSE kept
Counted(d, r) == RecordedAt(d, r, d.core.sofNext)

Placed(d, r) == IF d.core.anchored THEN Counted(CheckName(Begun(d), r), r) ELSE [d EXCEPT !.core.sof = -1]
AllouisTelling(d) == [d EXCEPT !.core.tells = d.core.locked /\ d.core.haveVoted /\ d.core.sof >= 0]
HandleSecond(d, r) == AllouisTelling(Placed(Anchoring(d, r), r))

\* processSecond: and when nothing has been timed, or nothing named with
\* the carrier there, for too long, the second is looked for again.
Watched(handled, d, r, present) ==
  LET blind == IF r.is = Unread THEN d.core.blindSeconds + 1 ELSE 0
      unnamed == IF Key(r) # NoKey \/ ~present \/ (handled.core.anchored /\ handled.core.sofNext = 0)
                 THEN 0 ELSE d.unnamedRun + 1
      done == [handled EXCEPT !.core.blindSeconds = blind, !.unnamedRun = unnamed, !.seen = <<r>>]
  IN IF blind >= DarkMax \/ unnamed >= UnnamedMax
     THEN [LoseAnchor(done) EXCEPT !.core.locked = FALSE, !.core.blindSeconds = 0, !.seen = <<>>,
                                   !.unnamedRun = 0, !.found = FALSE, !.fold = 0]
     ELSE done
AllouisSecond(d, r, present) == Watched(HandleSecond(d, r), d, r, present)

\* foldStep: the excursion is found once it has been in the same place for
\* long enough with the carrier there; until then no second is processed.
FoldStep(d, r) ==
  LET fold == IF r.is = Unread THEN 0 ELSE d.fold + 1
  IN [d EXCEPT !.fold = IF fold >= FoldSeconds THEN 0 ELSE fold, !.found = fold >= FoldSeconds,
               !.core.tells = FALSE]

AllouisStep(d, r, present) ==
  IF d.found THEN AllouisSecond(d, r, present) ELSE FoldStep(d, r)

\* A second whose phase cannot be measured passes uncounted.
AllouisSkip(d) == [d EXCEPT !.core.tells = FALSE]
=============================================================================
