----------------------------- MODULE Dcf77Frame -----------------------------
(***************************************************************************)
(* Dcf77Decoder: DCF77 sends its minute twice, as cuts of the amplitude    *)
(* and as bursts of phase, and the decoder reads both.  AM finds the       *)
(* minute from its one second without a cut, the last; PM from the word    *)
(* its last and first seconds spell.  Each confirms the count for the      *)
(* other, either gives the time, and two times that disagree give none.    *)
(***************************************************************************)
EXTENDS Broadcast

CONSTANTS
  SyncLen,      \* seconds of the sync word, the last and the first ones (16)
  PmMissLimit,  \* seconds without a burst before PM is searched for (10)
  SeedSeconds,  \* seconds the search for the second, or for PM, takes
  DcfBlindMax   \* seconds with neither measured before it is lost (90)

ASSUME Dcf77Assumption ==
  SyncLen \in 2 .. Sec - 2 /\ {PmMissLimit, SeedSeconds, DcfBlindMax} \subseteq Nat \ {0}

MaxUnconfirmedMinutes == 2
MaxStructFaults == 2

\* The last second has no cut; in a leap minute it has, and the extra one
\* has none.
AmContent == CASE pos = Sec - 1 /\ Length(minute) > Sec -> Extra
               [] pos = Sec -> Sec - 1
               [] OTHER -> pos
PmContent == IF pos = Sec THEN Sec - 1 ELSE pos
Both(am, pm) == [am |-> am, pm |-> pm, of |-> minute]

AmMarker(r) == r.am \in {Sec - 1, Stray}
\* pmFixedBit: the seconds whose burst is the same in every minute.
PmFixed(sof) == sof = Sec - 1 \/ sof <= SyncLen - 2
PmMatches(r, sof) == r.pm = sof
PmWrong(r, sof) == r.pm \notin {Unread, sof}

Dcf77Fresh ==
  [core |-> CoreFresh, segValid |-> FALSE, inPhase |-> FALSE, seed |-> 0,
   pmLocked |-> FALSE, pmMiss |-> 0, pmSeen |-> 0, hist |-> <<>>,
   leapMinute |-> FALSE, leapInserted |-> FALSE, structFaults |-> 0,
   lastFrom |-> {}, prevFrom |-> {}]

DcfDrop(d) ==
  [d EXCEPT !.core = [@ EXCEPT !.anchored = FALSE, !.sofNext = 0, !.lastLeapWarn = FALSE,
                               !.haveVoted = FALSE, !.haveLastFrame = FALSE, !.votes = <<>>,
                               !.frame = <<>>, !.unconfirmedRun = 0],
            !.leapMinute = FALSE, !.leapInserted = FALSE, !.structFaults = 0]
DcfDemote(d) == [d EXCEPT !.core = Demote(@)]

\* AM has lately decoded a minute, as it could not at the wrong phase.
AmDecoding(d) == d.core.anchored /\ ("am" \in d.lastFrom \/ "am" \in d.prevFrom)

(* PM has found a burst, at the true second or not.  Where the second was  *)
(* already cut elsewhere PM wins, and what was counted there goes, unless  *)
(* AM is decoding: then it is interference, and refused.                   *)
PmLockAt(d, truly) ==
  LET taken == [d EXCEPT !.pmLocked = TRUE, !.pmMiss = 0, !.pmSeen = 0,
                         !.segValid = TRUE, !.inPhase = truly]
      moved == d.segValid /\ d.inPhase # truly
  IN CASE ~d.segValid -> [taken EXCEPT !.hist = <<>>]
       [] moved /\ AmDecoding(d) -> [d EXCEPT !.pmSeen = 0]
       [] moved /\ ~AmDecoding(d) -> [DcfDrop(DcfDemote(taken)) EXCEPT !.hist = <<>>]
       [] OTHER -> taken
-----------------------------------------------------------------------------
\* The last seconds spell the sync word, and AM does not deny the first.
PmSyncHere(hist) ==
  LET at(j) == hist[Len(hist) - SyncLen + j]
  IN /\ Len(hist) >= SyncLen
     /\ \A j \in 1 .. SyncLen : PmMatches(at(j), IF j = 1 THEN Sec - 1 ELSE j - 2)
     /\ at(1).am # Unread => AmMarker(at(1))
\* This second clearly had no cut, and the one before had.
AmMarkerHere(hist) ==
  Len(hist) >= 2 /\ AmMarker(hist[Len(hist)]) /\ hist[Len(hist) - 1].am # Unread
                 /\ ~AmMarker(hist[Len(hist) - 1])

DcfDecode(frame, demodulator) ==
  IF \A s \in SyncLen - 1 .. Sec - 2 : frame[s + 1][demodulator] = s THEN frame[Sec - 1].of ELSE 0
\* The time of a minute and who gave it: PM first, and neither when the two
\* disagree.
Taken(frame) ==
  LET pm == DcfDecode(frame, "pm")
      am == DcfDecode(frame, "am")
  IN CASE pm # 0 /\ am # 0 -> IF pm = am THEN [m |-> pm, from |-> {"pm", "am"}] ELSE [m |-> 0, from |-> {}]
       [] pm # 0 /\ am = 0 -> [m |-> pm, from |-> {"pm"}]
       [] pm = 0 /\ am # 0 -> [m |-> am, from |-> {"am"}]
       [] OTHER -> [m |-> 0, from |-> {}]

\* tentativeLeapMinute, once the time code is complete.
TentativeLeap(frame) ==
  LET pm == DcfDecode(frame, "pm")
      m == IF pm # 0 THEN pm ELSE DcfDecode(frame, "am")
  IN m # 0 /\ Warned(m) /\ LeapSecondPossible(m)

\* Two readings in a minute that its skeleton denies end the lock.
CheckStructure(d, r, sof) ==
  LET expectMark == (sof = Sec - 1 /\ ~d.leapMinute) \/ sof = Sec
      faulty == (IF r.am # Unread /\ AmMarker(r) # expectMark THEN 1 ELSE 0)
                + (IF PmFixed(sof) /\ sof < Sec /\ PmWrong(r, sof) THEN 1 ELSE 0)
      counted == [d EXCEPT !.structFaults = (IF sof = 0 THEN 0 ELSE @) + faulty]
  IN IF ~d.core.locked THEN d
     ELSE IF counted.structFaults >= MaxStructFaults THEN DcfDemote(counted) ELSE counted

(* The minute's end: confirmed when a feature is where it belongs,         *)
(* contradicted when one is clearly elsewhere and the other demodulator    *)
(* does not outweigh it, else faded.                                       *)
DcfFinalize(d) ==
  LET c == d.core
      fixed == {s \in 0 .. Sec - 1 : PmFixed(s)}
      last == c.frame[Sec]
      pmWrong == \E s \in fixed : PmWrong(c.frame[s + 1], s)
      pmStrong == ~pmWrong /\ Cardinality({s \in fixed : PmMatches(c.frame[s + 1], s)}) >= SyncLen - 1
      amStrong == IF d.leapMinute THEN last.am = Extra ELSE AmMarker(last)
      lastWrong == last.am # Unread /\ AmMarker(last) = d.leapMinute
      stray == \E s \in 0 .. Sec - 2 : AmMarker(c.frame[s + 1])
      amWrong == lastWrong \/ (~amStrong /\ stray)
      contradicted == (amWrong /\ ~pmStrong) \/ (pmWrong /\ ~amStrong)
      confirmed == (amStrong \/ pmStrong) /\ ~contradicted
      run == IF confirmed THEN 0 ELSE c.unconfirmedRun + 1
      use == IF confirmed THEN Taken(c.frame) ELSE [m |-> 0, from |-> {}]
      voted == VoteFrame([c EXCEPT !.unconfirmedRun = run], use.m,
                         IF d.leapInserted THEN Sec + 1 ELSE Sec)
      leapNext == d.leapMinute \/ LeapNext(c, use.m)
      ended == Conclude([voted EXCEPT !.lastLeapWarn = use.m # 0 /\ Warned(use.m)], confirmed /\ ~leapNext)
  IN IF contradicted \/ run > MaxUnconfirmedMinutes THEN DcfDemote(DcfDrop(d))
     ELSE [d EXCEPT !.core = ended, !.leapInserted = FALSE, !.prevFrom = d.lastFrom, !.lastFrom = use.from]

\* Where the count goes on after the minute's last second.
NextMinuteFrom(d) ==
  IF d.core.anchored THEN [d EXCEPT !.core.sofNext = IF d.leapMinute THEN Sec ELSE 0] ELSE d
JudgedLeap(d) == [d EXCEPT !.leapMinute = TentativeLeap(d.core.frame)]
Recorded(d, r, sof) ==
  LET kept == [d EXCEPT !.core.frame = Append(@, r), !.core.sof = sof, !.core.sofNext = sof + 1]
  IN CASE sof = Sec - 1 -> NextMinuteFrom(DcfFinalize(kept))
       [] sof = Sec - 2 -> JudgedLeap(kept)
       [] OTHER -> kept

DcfUnanchored(d, r) ==
  LET n == Len(d.hist)
      sof == SyncLen - 2
      synced == [d EXCEPT !.core = [@ EXCEPT !.anchored = TRUE, !.frStart = second - sof,
                                             !.frame = SubSeq(d.hist, n - sof, n - 1)]]
  IN IF PmSyncHere(d.hist) THEN Recorded(synced, r, sof)
     ELSE IF AmMarkerHere(d.hist)
     THEN [d EXCEPT !.core = [@ EXCEPT !.anchored = TRUE, !.sof = Sec - 1, !.sofNext = 0]]
     ELSE [d EXCEPT !.core.sof = -1]

DcfAnchored(d0, r) ==
  LET sof == d0.core.sofNext
      begun == IF sof = 0 THEN [d0 EXCEPT !.core.frStart = second, !.core.frame = <<>>] ELSE d0
      d == CheckStructure(begun, r, sof)
  IN IF sof = Sec
     THEN [d EXCEPT !.leapInserted = TRUE, !.core.sof = sof, !.core.sofNext = 0]
     ELSE Recorded(d, r, sof)

Telling(d) == [d EXCEPT !.core.tells = d.core.locked /\ d.core.haveVoted]
DcfHandleSecond(d, r) == Telling(IF d.core.anchored THEN DcfAnchored(d, r) ELSE DcfUnanchored(d, r))
-----------------------------------------------------------------------------
\* A second cut where there is none reads nothing, and PM reads nothing
\* while it is not tracked.
ReadAs(d, r) ==
  [r EXCEPT !.am = IF d.inPhase THEN @ ELSE Unread,
            !.pm = IF d.inPhase /\ d.pmLocked THEN @ ELSE Unread]

\* PM is let go after a run of seconds without its burst, unless what
\* little they hold says together that it is there (pmHoldEvidence).
PmTracked(d, measured, held) ==
  LET miss == IF measured THEN 0 ELSE Min({d.pmMiss + 1, PmMissLimit})
      gone == miss >= PmMissLimit /\ ~held
  IN IF ~d.pmLocked THEN d
     ELSE [d EXCEPT !.pmMiss = IF gone THEN 0 ELSE miss, !.pmLocked = ~gone]

\* Nothing measured for too long: the second is looked for again.
Kept(d) ==
  IF d.core.blindSeconds < DcfBlindMax THEN d
  ELSE [DcfDrop(DcfDemote(d)) EXCEPT !.segValid = FALSE, !.seed = 0, !.hist = <<>>,
                                     !.core.blindSeconds = 0]

(* processSecond.  there: the burst is in the air, clear, faint or not;    *)
(* the last two seconds' search may find it and PM locks.                  *)
DcfProcess(d, r, there) ==
  LET measured == d.pmLocked /\ d.inPhase /\ there = "clear"
      tracked == PmTracked(d, measured, d.inPhase /\ there = "faint")
      blind == IF r.am = Unread /\ ~measured THEN d.core.blindSeconds + 1 ELSE 0
  IN Kept(DcfHandleSecond([tracked EXCEPT !.core.blindSeconds = blind,
                                          !.hist = Append(IF Len(@) = SyncLen THEN Tail(@) ELSE @, r)], r))

\* The second is looked for in AM's edges.
DcfSeed(d, r) ==
  LET seed == IF r.am = Unread THEN 0 ELSE d.seed + 1
      found == seed >= SeedSeconds
  IN [d EXCEPT !.seed = IF found THEN 0 ELSE seed, !.segValid = found, !.inPhase = found, !.core.tells = FALSE]

\* One second of the stream: PM's search ends, or goes on, then the second.
PmSearched(d, there) ==
  LET seen == IF d.pmLocked \/ there # "clear" THEN 0 ELSE d.pmSeen + 1
  IN IF seen >= SeedSeconds THEN PmLockAt(d, TRUE) ELSE [d EXCEPT !.pmSeen = seen]
DcfCut(d, r, there) == IF d.segValid THEN DcfProcess(d, ReadAs(d, r), there) ELSE DcfSeed(d, r)
DcfSecond(d, r, there) == DcfCut(PmSearched(d, there), r, there)
=============================================================================
