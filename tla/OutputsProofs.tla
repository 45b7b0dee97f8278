--------------------------- MODULE OutputsProofs ----------------------------
(***************************************************************************)
(* What the two outputs that name seconds promise, for every day length,   *)
(* month end, error of the served clock, lateness of the thread and number *)
(* of clients: the line is at rest outside a pulse, pulses keep their      *)
(* distance, every second goes out under its own name, and a client that   *)
(* reads is never closed.                                                  *)
(***************************************************************************)
EXTENDS MCOutputs, FiniteSetTheorems, WellFoundedInduction, TLAPS

(* With an open port the line is raised in a pulse only, with none only    *)
(* after it would not be lowered, and never in the NMEA service.           *)
LineInv ==
  /\ line \in BOOLEAN /\ port \in BOOLEAN /\ refused \in BOOLEAN
  /\ line /\ port => pc = "hold"
  /\ line /\ ~port => refused
  /\ part \in {"nmea", "clients"} => ~line /\ pc # "hold"

(* No step leaves the line raised outside a pulse and not asked to go down.*)
LEMMA LineInvStep == LineInv /\ [Next]_vars => LineInv'
<1> SUFFICES ASSUME LineInv, [Next]_vars PROVE LineInv'
  OBVIOUS
<1> USE DEF LineInv
<1>1. CASE UNCHANGED vars
  BY <1>1 DEF vars, pulseVars, slotVars
<1>2. CASE PublishAny
  BY <1>2 DEF PublishAny, Publish, pulseVars
<1>3. CASE PulseStep
  <2>1. part' = part /\ part \in {"pulse", "port"}
    BY <1>3 DEF PulseStep
  <2>2. CASE PulsePlan
    BY <2>1, <2>2 DEF PulsePlan, OpenPort, ClosePort, Closed
  <2>3. ASSUME NEW z \in BOOLEAN, EndThread(z) PROVE LineInv'
    BY <2>1, <2>3 DEF EndThread, ClosePort, Closed
  <2>4. ASSUME NEW d \in Delays, NEW l \in BOOLEAN, NEW z \in BOOLEAN, EndPulse(d, l, z) PROVE LineInv'
    BY <2>1, <2>4 DEF EndPulse, ClosePort, Closed
  <2>5. ASSUME NEW d \in Delays, NEW l \in BOOLEAN, NEW w \in BOOLEAN, NEW z \in BOOLEAN,
               Act(d, l, w, z)
        PROVE  LineInv'
    BY <2>1, <2>5 DEF Act, ClosePort, Closed
  <2>6. CASE StopOutput /\ UNCHANGED pulseVars
    BY <2>1, <2>6 DEF StopOutput, pulseVars
  <2> QED BY <1>3, <2>2, <2>3, <2>4, <2>5, <2>6 DEF PulseStep, PulseNext
<1>4. CASE NmeaStep
  BY <1>4 DEF NmeaStep, NmeaNext, pulseVars, NmeaPlan, ServeSockets, Compose, NmeaStop,
     SendAll, PeerComes, PeerFails, slotVars
<1> QED BY <1>1, <1>2, <1>3, <1>4 DEF Next

(* The line starts at rest.                                                *)
LEMMA LineInvInit == Init => LineInv
  BY DEF Init, PulseInit, SlotInit, LineInv

(* Outside a pulse the line is raised only with the port closed, and then  *)
(* because the device would not lower it (openSerialPps, ~SerialPort,      *)
(* run): whichever of opening, setting the line, writing and closing       *)
(* fails, whenever the thread is stopped, for every width and lateness.    *)
THEOREM LineIsAtRest == Spec => []LineAtRest
<1>1. LineInv => LineAtRest
  BY DEF LineInv, LineAtRest
<1> QED
  BY <1>1, LineInvInit, LineInvStep, PTL DEF Spec
-----------------------------------------------------------------------------
(* The last pulse lies in the half second of the last slot, or half a      *)
(* second back, and what is planned with a clock lies half a second on.    *)
SpacingInv ==
  part \in {"pulse", "port"} =>
    /\ now \in Int /\ at \in Int /\ lastSlot \in Int /\ second \in Int
    /\ served.off \in Int /\ c.off \in Int
    /\ pulse.raised \in Int /\ pulse.raised <= now
    /\ lastSlot >= pulse.raised - MaxLate \/ now >= pulse.raised + Sec \div 2
    /\ pc = "sleep" /\ c.valid => at >= pulse.raised + Sec \div 2
    /\ pc = "sleep" /\ ~c.valid => at >= pulse.raised

(* The instant planned is past the half second that the last slot covers.  *)
LEMMA PlanFact ==
  ASSUME now \in Int, lastSlot \in Int, served.off \in Int, PlanSecond
  PROVE  /\ c' = served /\ second' \in Int /\ at' \in Int /\ at' > now
         /\ served.valid => at' > lastSlot + Sec \div 2
<1>1. /\ UtcAt(served, Later(now, lastSlot + Sec \div 2)) \in Int
      /\ UtcAt(served, Later(now, lastSlot + Sec \div 2)) >= now + served.off
      /\ UtcAt(served, Later(now, lastSlot + Sec \div 2)) >= lastSlot + 2 + served.off
  BY DEF UtcAt, Later, Sec
<1>2. ASSUME NEW x \in Int
      PROVE  x \div 4 \in Int /\ (x \div 4 + 1) * 4 > x
  OBVIOUS
<1> QED
  BY <1>1, <1>2 DEF PlanSecond, PlannedSecond, DaemonAtUtc, HostSecond, Sec

(* The offset of a published clock is an integer.                          *)
LEMMA ClocksTyped ==
  ASSUME NEW clk \in ClocksAt(now) PROVE clk.off \in Int
<1>1. ASSUME NEW o \in Offs PROVE o \in Int /\ o - Sec \in Int
  BY ErrorsAssumption DEF Offs, Sec
<1>2. clk = NoClock \/ clk.off \in Offs \/ clk.off \in {e - Sec : e \in Offs}
  BY DEF ClocksAt, Clocks
<1> QED
  BY <1>1, <1>2 DEF NoClock

(* What waking up for a second makes of the plan and of the pulse.         *)
LEMMA ActFact ==
  ASSUME NEW d \in Delays, NEW l \in BOOLEAN, NEW w \in BOOLEAN, NEW z \in BOOLEAN,
         Act(d, l, w, z), SpacingInv
  PROVE  /\ now' = Later(Later(now, at) + d, Due) /\ c' = Reread /\ at' = Due /\ lastSlot' = Due
         /\ UNCHANGED <<served, second>> /\ pc' # "sleep" /\ pc = "sleep"
         /\ \/ pulse' = pulse
            \/ /\ pulse' = [at |-> Due, raised |-> now'] /\ Reread.valid
               /\ now' - Due <= MaxLate
  BY Zenon DEF Act

(* The instant a planned second is due, once the clock is read again.      *)
LEMMA DueInt ==
  ASSUME SpacingInv, part \in {"pulse", "port"}
  PROVE  Due \in Int /\ Reread.off \in Int
  BY DEF SpacingInv, Due, Reread, DaemonAtUtc, Sec

(* The distance of the pulses survives every step, and the step itself    *)
(* keeps it.                                                               *)
LEMMA SpacingStep ==
  ASSUME SpacingInv, [Next]_vars
  PROVE  /\ SpacingInv'
         /\ pulse' # pulse => /\ pulse'.raised - pulse.raised >= Sec \div 2
                       /\ pulse'.raised - pulse'.at <= MaxLate
<1> DEFINE Apart == pulse' # pulse => /\ pulse'.raised - pulse.raised >= Sec \div 2
                       /\ pulse'.raised - pulse'.at <= MaxLate
<1> SUFFICES SpacingInv' /\ Apart OBVIOUS
<1>1. CASE UNCHANGED vars
  BY <1>1 DEF vars, pulseVars, slotVars, SpacingInv
<1>2. CASE PublishAny
  BY <1>2, ClocksTyped DEF PublishAny, Publish, pulseVars, SpacingInv
<1>3. CASE PulseStep
  <2>1. part \in {"pulse", "port"} /\ part' = part
    BY <1>3 DEF PulseStep
  <2>2. CASE PulsePlan
    BY <2>1, <2>2, PlanFact, PulseAssumption DEF PulsePlan, SpacingInv, Sec
  <2>3. ASSUME NEW z \in BOOLEAN, EndThread(z) PROVE SpacingInv' /\ Apart
    BY <2>1, <2>3 DEF EndThread, SpacingInv
  <2>4. ASSUME NEW d \in Delays, NEW l \in BOOLEAN, NEW z \in BOOLEAN, EndPulse(d, l, z) PROVE SpacingInv' /\ Apart
    BY <2>1, <2>4, PulseAssumption DEF EndPulse, SpacingInv, Later, Sec
  <2>5. ASSUME NEW d \in Delays, NEW l \in BOOLEAN, NEW w \in BOOLEAN, NEW z \in BOOLEAN,
               Act(d, l, w, z)
        PROVE  SpacingInv' /\ Apart
    <3>1. now' \in Int /\ now' >= now /\ now' >= at /\ now' >= Due
      BY <2>1, <2>5, ActFact, DueInt, PulseAssumption DEF SpacingInv, Later
    <3>2. CASE pulse' = pulse
      <4>1. ~c.valid => Due = at
        BY DEF Due, Moves
      <4>2. Due >= pulse.raised \/ now' >= pulse.raised + 2
        BY <2>1, <3>1, <4>1, <2>5, ActFact DEF SpacingInv, Sec
      <4> QED BY <2>1, <3>1, <3>2, <4>2, <2>5, ActFact, DueInt, PulseAssumption DEF SpacingInv, Sec
    <3>3. CASE pulse' # pulse
      <4>1. /\ pulse'.at = Due /\ pulse'.raised = now' /\ c.valid /\ now' - Due <= MaxLate
            /\ pc = "sleep" /\ c' = Reread /\ at' = Due /\ lastSlot' = Due
            /\ served' = served /\ second' = second /\ pc' # "sleep"
        BY <2>1, <3>3, <2>5, ActFact DEF Reread, Moves
      <4>2. Apart
        BY <2>1, <3>1, <4>1, DueInt, PulseAssumption DEF SpacingInv, Sec
      <4>3. lastSlot' >= pulse'.raised - MaxLate /\ c'.off \in Int /\ at' \in Int
        BY <2>1, <3>1, <4>1, DueInt, PulseAssumption DEF Sec
      <4>4. SpacingInv'
        BY <2>1, <3>1, <4>1, <4>3, DueInt DEF SpacingInv
       <4> QED BY <4>2, <4>4
    <3> QED BY <2>1, <3>2, <3>3
  <2>6. CASE StopOutput /\ UNCHANGED pulseVars
    BY <2>1, <2>6 DEF StopOutput, pulseVars, SpacingInv
  <2> QED BY <1>3, <2>2, <2>3, <2>4, <2>5, <2>6 DEF PulseStep, PulseNext
<1>4. CASE NmeaStep
  BY <1>4 DEF NmeaStep, SpacingInv, pulseVars
<1> QED BY <1>1, <1>2, <1>3, <1>4 DEF Next

(* At the start no pulse has been raised.                                  *)
LEMMA SpacingInit == Init => SpacingInv
  BY LabelerAssumption, PulseAssumption
     DEF Init, PulseInit, SlotInit, SpacingInv, NoClock, Never, Sec

(* Two pulses are half a second apart at the least and none is late, for   *)
(* every error of the served clock, every lateness of the sleep and every  *)
(* moment at which the clock is taken away, given back or stepped.         *)
THEOREM PulsesKeepApart == Spec => PulsesApart
<1>1. SpacingInv /\ [Next]_vars =>
        [pulse' # pulse => /\ pulse'.raised - pulse.raised >= Sec \div 2
                           /\ pulse'.raised - pulse'.at <= MaxLate]_vars
  BY SpacingStep
<1>2. SpacingInv /\ [Next]_vars => SpacingInv'
  BY SpacingStep
<1> QED
  BY <1>1, <1>2, SpacingInit, PTL DEF Spec, PulsesApart
-----------------------------------------------------------------------------
(* A clock as the Selector publishes it: under half a second out, or taken *)
(* back by the leap second, and then not before the last second of the     *)
(* month by its own reckoning.                                             *)
ClockOK(clk) ==
  /\ clk.valid \in BOOLEAN /\ clk.leap \in BOOLEAN /\ clk.off \in Int
  /\ clk.leap => leapDue
  /\ ~Stepped(clk) => 2 * clk.off > -Sec /\ 2 * clk.off < Sec
  /\ Stepped(clk) => /\ leapDue /\ ~clk.leap /\ now + clk.off > (MonthEnd - 2) * Sec
                     /\ 2 * (clk.off + Sec) > -Sec /\ 2 * (clk.off + Sec) < Sec

(* What the Selector publishes is such a clock.                            *)
LEMMA PublishedOK ==
  ASSUME NEW clk \in ClocksAt(now), now \in Int, leapDue \in BOOLEAN
  PROVE  ClockOK(clk)
<1>1. ASSUME NEW o \in Offs PROVE o \in Int /\ 2 * o > -Sec /\ 2 * o < Sec
  BY ErrorsAssumption DEF Offs, Sec
<1>2. CASE clk = NoClock
  BY <1>2 DEF NoClock, ClockOK, Stepped, Sec
<1>3. CASE clk \in Clocks(IF leapDue /\ ~Leapt(now) THEN BOOLEAN ELSE {FALSE}, Offs)
  <2>1. clk.off \in Offs /\ clk.valid = TRUE /\ clk.leap \in BOOLEAN /\ (clk.leap => leapDue)
    BY <1>3 DEF Clocks
  <2>2. ~Stepped(clk)
    BY <1>1, <2>1 DEF Stepped, Sec
  <2> QED BY <1>1, <2>1, <2>2, Zenon DEF ClockOK
<1>4. CASE clk \in Clocks({FALSE}, {e - Sec : e \in
                 {e \in Offs : leapDue /\ now + e > (MonthEnd - 1) * Sec}})
  <2>1. PICK e \in Offs : leapDue /\ now + e > (MonthEnd - 1) * Sec /\ clk.off = e - Sec
    BY <1>4 DEF Clocks
  <2>2. clk.valid = TRUE /\ clk.leap = FALSE
    BY <1>4 DEF Clocks
  <2>3. /\ e \in Int /\ 2 * e > -4 /\ 2 * e < 4 /\ MonthEnd \in Int /\ clk.off = e - 4
        /\ now + e > (MonthEnd - 1) * 4
    BY <1>1, <2>1, LabelerAssumption DEF Sec
  <2>4. Stepped(clk) /\ clk.off \in Int /\ now + clk.off > (MonthEnd - 2) * 4
    BY <2>3 DEF Stepped, Sec
  <2>5. clk.off + Sec = e
    BY <2>3 DEF Sec
  <2> QED BY <1>1, <2>1, <2>2, <2>4, <2>5, Zenon DEF ClockOK, Sec
<1> QED BY <1>2, <1>3, <1>4 DEF ClocksAt

Labelers == [have : BOOLEAN, last : [posix : Int, leap : BOOLEAN], announced : Int, leapAt : Int]

(* The leap second was announced, and not too long ago.                    *)
Told(ann) == ann # Never /\ MonthEnd - ann <= ArmedFor

(* ...by this reading or by an earlier one.                                *)
Announced(lab, r, pending) == IF pending THEN r ELSE lab.announced

(* What a call of next() makes of the count: it names the leap second, the *)
(* second expected, or what the clock says.                                *)
LeapNext(lab, r, ann) ==
  /\ ~lab.last.leap /\ Expected(lab) = MonthEnd /\ Told(ann)
  /\ r \in {Expected(lab), Expected(lab) - 1}
CountNext(lab, r) ==
  \/ r = Expected(lab)
  \/ lab.leapAt # Never /\ Expected(lab) - lab.leapAt < CatchUp /\ r = Expected(lab) + 1
LabelStep(lab, r, ann, runs, new) ==
  /\ new \in Labelers /\ new.have /\ new.announced = ann
  /\ \/ runs /\ LeapNext(lab, r, ann)
          /\ new.last.posix = Expected(lab) /\ new.last.leap /\ new.leapAt = Expected(lab)
     \/ runs /\ ~LeapNext(lab, r, ann) /\ CountNext(lab, r)
          /\ new.last.posix = Expected(lab) /\ ~new.last.leap /\ new.leapAt = lab.leapAt
     \/ (~runs \/ ~(LeapNext(lab, r, ann) \/ CountNext(lab, r)))
          /\ new.last.posix = r /\ ~new.last.leap /\ new.leapAt = lab.leapAt

(* PpsLabeler::next, case by case.                                         *)
LEMMA NextLabelFacts ==
  ASSUME NEW lab \in Labelers, NEW r \in Int, NEW pending \in BOOLEAN, NEW consecutive \in BOOLEAN
  PROVE  LabelStep(lab, r, Announced(lab, r, pending), lab.have /\ consecutive,
                   NextLabel(lab, r, pending, consecutive))
<1> DEFINE ann == Announced(lab, r, pending)
           new == NextLabel(lab, r, pending, consecutive)
<1> DEFINE l2 == [lab EXCEPT !.announced = IF pending THEN r ELSE @]
<1>1. /\ l2 \in Labelers /\ l2.announced = ann /\ l2.have = lab.have /\ l2.last = lab.last
      /\ l2.leapAt = lab.leapAt /\ lab.last.leap \in BOOLEAN /\ lab.have \in BOOLEAN
      /\ ann \in Int /\ lab.leapAt \in Int
  BY DEF Labelers, Announced
<1>2. new = CASE l2.have /\ consecutive /\ LeapNow(l2, r) -> Named(l2, Expected(l2), TRUE)
              [] l2.have /\ consecutive /\ ~LeapNow(l2, r) /\ InCount(l2, r)
                   -> Named(l2, Expected(l2), FALSE)
              [] ~(l2.have /\ consecutive) \/ ~(LeapNow(l2, r) \/ InCount(l2, r))
                   -> Named(l2, r, FALSE)
   BY Zenon DEF NextLabel
<1> HIDE DEF l2, ann, new
<1>3. Expected(l2) = Expected(lab) /\ Expected(lab) \in Int
  BY <1>1 DEF Expected, Labelers
<1>4. LeapNow(l2, r) <=> LeapNext(lab, r, ann)
  BY <1>1, <1>3 DEF LeapNow, Armed, Told, LeapNext
<1>5. InCount(l2, r) <=> CountNext(lab, r)
  BY <1>1, <1>3, LabelerAssumption DEF InCount, CountNext
<1>6. CASE lab.have /\ consecutive /\ LeapNow(l2, r)
  <2>1. new = Named(l2, Expected(lab), TRUE)
    BY <1>1, <1>2, <1>3, <1>6
  <2>2. /\ new \in Labelers /\ new.have /\ new.announced = ann /\ new.last.posix = Expected(lab)
        /\ new.last.leap /\ new.leapAt = Expected(lab)
    BY <1>1, <1>3, <2>1 DEF Named, Labelers
  <2> QED BY <1>4, <1>6, <2>2 DEF LabelStep, ann, new
<1>7. CASE lab.have /\ consecutive /\ ~LeapNow(l2, r) /\ InCount(l2, r)
  <2>1. new = Named(l2, Expected(lab), FALSE)
    BY <1>1, <1>2, <1>3, <1>7
  <2>2. /\ new \in Labelers /\ new.have /\ new.announced = ann /\ new.last.posix = Expected(lab)
        /\ ~new.last.leap /\ new.leapAt = lab.leapAt
    BY <1>1, <1>3, <2>1 DEF Named, Labelers
  <2> QED BY <1>4, <1>5, <1>7, <2>2 DEF LabelStep, ann, new
<1>8. CASE ~(lab.have /\ consecutive) \/ ~(LeapNow(l2, r) \/ InCount(l2, r))
  <2>1. new = Named(l2, r, FALSE)
    BY <1>1, <1>2, <1>8
  <2>2. /\ new \in Labelers /\ new.have /\ new.announced = ann /\ new.last.posix = r
        /\ ~new.last.leap /\ new.leapAt = lab.leapAt
    BY <1>1, <1>3, <2>1 DEF Named, Labelers
  <2> QED BY <1>4, <1>5, <1>8, <2>2 DEF LabelStep, ann, new
<1> QED BY <1>6, <1>7, <1>8

(* The second planned is due when the copied clock says, and away from the *)
(* leap second no clock has stepped and the second is not yet past.        *)
PlannedOK ==
  pc \in {"sleep", "wait"} /\ c.valid =>
    /\ at = second * Sec - c.off
    /\ \/ second >= MonthEnd - 1
       \/ now <= second * Sec + 1 /\ ~Stepped(served) /\ ~Stepped(c)

(* The count against the true second of the last slot: exact up to the    *)
(* leap second; past it exact while it counts on from an announced one, and *)
(* otherwise what the clock says, which is late by a second at the most.   *)
CountOK ==
  LET n == TrueSecond(lastSlot) IN
  /\ ~leapDue => labels.announced = Never /\ labels.leapAt = Never
  /\ labels.have =>
       /\ ~leapDue \/ n < MonthEnd => labels.last.posix = n /\ ~labels.last.leap
       /\ leapDue /\ n = MonthEnd /\ ~broken =>
            \/ labels.last.posix = MonthEnd
            \/ labels.last.posix = MonthEnd - 1 /\ ~labels.last.leap /\ ~Told(labels.announced)
       /\ leapDue /\ n > MonthEnd /\ ~broken =>
            labels.last.posix \in {n - 1, n} /\ ~labels.last.leap
       /\ leapDue /\ n >= MonthEnd /\ counted =>
            /\ labels.last.posix = (IF n = MonthEnd THEN n ELSE n - 1)
            /\ (labels.last.leap <=> n = MonthEnd) /\ labels.leapAt = MonthEnd

NameTypes ==
  /\ now \in Int /\ at \in Int /\ lastSlot \in Int /\ second \in Int
  /\ leapDue \in BOOLEAN /\ counted \in BOOLEAN /\ broken \in BOOLEAN
  /\ labels \in Labelers /\ ClockOK(served) /\ ClockOK(c)

NameInv == NameTypes /\ PlannedOK /\ CountOK /\ SecondsNamed

(* A slot that is out by less than half a second marks its own second.    *)
LEMMA TrueSecondFact ==
  ASSUME NEW s \in Int, NEW e \in Int, 2 * e > -Sec, 2 * e < Sec
  PROVE  TrueSecond(s * Sec - e) = s
  BY DEF TrueSecond, Sec

(* Two slots a second apart mark two successive seconds.                  *)
LEMMA NextSecondFact ==
  ASSUME NEW s \in Int
  PROVE  TrueSecond(s) \in Int /\ TrueSecond(s + Sec) = TrueSecond(s) + 1
  BY DEF TrueSecond, Sec

(* The instant due, and the second it marks, are integers.                *)
LEMMA DueTyped ==
  ASSUME NameTypes
  PROVE  Due \in Int /\ TrueSecond(Due) \in Int
  BY DEF NameTypes, ClockOK, Due, DaemonAtUtc, TrueSecond, Sec

(* The second planned and the true second of the slot acted on are the    *)
(* same, or one apart once the clock has taken the leap second.            *)
LEMMA SlotFacts ==
  ASSUME NameTypes, PlannedOK, pc \in {"sleep", "wait"}, Reread.valid
  PROVE  /\ ClockOK(Reread) /\ Due \in Int /\ TrueSecond(Due) \in Int
         /\ ~Stepped(Reread) => TrueSecond(Due) = second
         /\ Stepped(Reread) => TrueSecond(Due) = second + 1 /\ second >= MonthEnd - 1 /\ leapDue
<1>1. ClockOK(Reread) /\ c.valid /\ Due = second * Sec - Reread.off
  BY DEF NameTypes, PlannedOK, Reread, Due, Moves, DaemonAtUtc
<1>2. CASE ~Stepped(Reread)
  BY <1>1, <1>2, TrueSecondFact DEF NameTypes, ClockOK, Sec
<1>3. CASE Stepped(Reread)
  <2>1. Due = (second + 1) * Sec - (Reread.off + Sec)
    BY <1>1 DEF Sec, ClockOK, NameTypes
  <2>2. second >= MonthEnd - 1
    BY <1>1, <1>3 DEF PlannedOK, Reread
  <2>3. /\ Reread.off + Sec \in Int /\ second + 1 \in Int /\ leapDue
        /\ 2 * (Reread.off + Sec) > -Sec /\ 2 * (Reread.off + Sec) < Sec
    BY <1>1, <1>3 DEF NameTypes, ClockOK, Sec
  <2>4. TrueSecond(Due) = second + 1
    BY <2>1, <2>3, TrueSecondFact
  <2> QED BY <1>1, <1>3, <2>1, <2>2, <2>3, <2>4 DEF NameTypes, ClockOK, Sec
<1> QED BY <1>2, <1>3

(* What a step that names a second does, whichever output takes it.        *)
NamesSecond ==
  /\ labels' = Labelled(Due) /\ lastSlot' = Due /\ c' = Reread /\ UNCHANGED leapDue /\ Judge
  /\ \/ UNCHANGED <<sentence, excused>>
     \/ sentence' = Sentences(Due) /\ Excuse

(* Naming a second keeps the count: by cases on where the true second is   *)
(* with respect to the leap second.                                        *)
LEMMA NamingKeepsCount ==
  ASSUME NameInv, NamesSecond, pc \in {"sleep", "wait"}, NEW n, n = TrueSecond(Due)
  PROVE  /\ labels' \in Labelers /\ CountOK'
         /\ counted' \in BOOLEAN /\ broken' \in BOOLEAN
         /\ Reread.valid =>
              \/ labels'.last.posix = TrueLabel(n).posix /\ labels'.last.leap = TrueLabel(n).leap
              \/ leapDue /\ n = MonthEnd /\ ~counted'
              \/ leapDue /\ n > MonthEnd /\ ~counted' /\ ~Stepped(Reread)
              \/ broken'
<1>0. /\ n \in Int /\ TrueSecond(lastSlot) \in Int /\ labels \in Labelers /\ leapDue \in BOOLEAN
      /\ CountOK
  BY DueTyped, NextSecondFact DEF NameInv, NameTypes
<1>3. counted' \in BOOLEAN /\ broken' \in BOOLEAN
  BY DEF NamesSecond, Judge, NameInv, NameTypes
<1>1. CASE ~Reread.valid
  <2>1. labels' = [labels EXCEPT !.have = FALSE]
    BY <1>1 DEF NamesSecond, Labelled
  <2>2. /\ labels' \in Labelers /\ ~labels'.have /\ labels'.announced = labels.announced
        /\ labels'.leapAt = labels.leapAt
    BY <2>1, <1>0 DEF Labelers
  <2>3. CountOK'
    BY <1>0, <2>2 DEF CountOK, NamesSecond
  <2> QED BY <1>1, <1>3, <2>2, <2>3
<1>2. CASE Reread.valid
  <2> DEFINE con == Due = lastSlot + Sec
             ann == Announced(labels, second, Reread.leap)
             n0  == TrueSecond(lastSlot)
             exp == Expected(labels)
  <2>1. /\ second \in Int /\ con \in BOOLEAN /\ (con => n = n0 + 1)
        /\ Reread.leap \in BOOLEAN /\ (Reread.leap => leapDue)
    BY <1>2, SlotFacts, NextSecondFact DEF NameInv, NameTypes, ClockOK
  <2>2. \/ ~Stepped(Reread) /\ second = n
        \/ Stepped(Reread) /\ second = n - 1 /\ n >= MonthEnd /\ leapDue /\ ann = labels.announced
    <3>1. Stepped(Reread) => ~Reread.leap
      BY <1>2, SlotFacts DEF NameInv, ClockOK
    <3> QED BY <1>2, <2>1, <3>1, SlotFacts, LabelerAssumption DEF NameInv, Announced
  <2>3. LabelStep(labels, second, ann, labels.have /\ con, labels')
    <3>1. labels' = NextLabel(labels, second, Reread.leap, con)
      BY <1>2, Zenon DEF NamesSecond, Labelled, Consecutive
    <3> QED BY <1>0, <2>1, <3>1, NextLabelFacts, Zenon
  <2>4. /\ labels.last.posix \in Int /\ labels.last.leap \in BOOLEAN /\ labels.have \in BOOLEAN
        /\ labels.announced \in Int /\ labels.leapAt \in Int /\ exp \in Int
        /\ exp = IF labels.last.leap THEN labels.last.posix ELSE labels.last.posix + 1
    BY <1>0 DEF Labelers, Expected
  <2>6. labels'.last.leap \in BOOLEAN /\ labels'.last.posix \in Int /\ labels'.leapAt \in Int
    BY <2>3 DEF Labelers, LabelStep
  <2>7. /\ TrueSecond(lastSlot') = n /\ UNCHANGED leapDue
        /\ ~leapDue \/ n < MonthEnd => counted' /\ ~broken'
        /\ leapDue /\ n >= MonthEnd =>
             /\ counted' = (counted /\ labels.have /\ con /\ Told(ann) /\ n - MonthEnd < CatchUp)
             /\ broken' = IF n = MonthEnd THEN ~(labels.have /\ con)
                          ELSE broken /\ labels.have /\ con
    <3>1. lastSlot' = Due /\ TrueSecond(lastSlot') = n /\ UNCHANGED leapDue
          /\ labels'.have /\ labels'.announced = ann
      BY <2>3 DEF NamesSecond, LabelStep
    <3>2. ~leapDue \/ n < MonthEnd => counted' = TRUE /\ broken' = FALSE
      BY <3>1, Zenon DEF NamesSecond, Judge
    <3>3. ~(~leapDue \/ n < MonthEnd) =>
             /\ counted' = (counted /\ (labels.have /\ labels'.have /\ Consecutive(lastSlot'))
                              /\ (labels'.announced # Never /\ MonthEnd - labels'.announced <= ArmedFor)
                              /\ n - MonthEnd < CatchUp)
             /\ broken' = IF n = MonthEnd THEN ~(labels.have /\ labels'.have /\ Consecutive(lastSlot'))
                          ELSE broken /\ (labels.have /\ labels'.have /\ Consecutive(lastSlot'))
      BY <3>1, Zenon DEF NamesSecond, Judge
    <3>4. Consecutive(lastSlot') = con
      BY <3>1, Zenon DEF Consecutive
    <3>5. leapDue /\ n >= MonthEnd => ~(~leapDue \/ n < MonthEnd)
      BY <1>0, LabelerAssumption
    <3> QED BY <3>1, <3>2, <3>3, <3>4, <3>5, Zenon DEF Told
  <2> HIDE DEF con, ann, n0, exp
  <2> DEFINE Right == labels'.last.posix = TrueLabel(n).posix /\ labels'.last.leap = TrueLabel(n).leap
             Fine == \/ Right
                     \/ leapDue /\ n = MonthEnd /\ ~counted'
                     \/ leapDue /\ n > MonthEnd /\ ~counted' /\ ~Stepped(Reread)
                     \/ broken'
  <2>8. CASE ~leapDue \/ n < MonthEnd
    <3>1. second = n
      BY <2>2, <2>8, <1>0, LabelerAssumption
    <3>2. labels.have /\ con => labels.last.posix = n - 1 /\ ~labels.last.leap
      BY <1>0, <2>1, <2>8, LabelerAssumption DEF CountOK, n0
    <3>3. ~leapDue => ~Told(ann)
      BY <1>0, <2>1 DEF CountOK, Told, ann, Announced
    <3>4. ~(labels.have /\ con /\ LeapNext(labels, second, ann))
      BY <1>0, <2>1, <2>4, <2>8, <3>1, <3>2, <3>3, LabelerAssumption DEF LeapNext, exp
    <3>5. /\ labels'.last.posix = n /\ ~labels'.last.leap /\ labels'.leapAt = labels.leapAt
      BY <1>0, <2>1, <2>3, <2>4, <3>1, <3>2, <3>4 DEF LabelStep, CountNext, exp
    <3>6. ~leapDue => labels'.announced = Never /\ labels'.leapAt = Never
      BY <1>0, <2>1, <2>3, <3>5 DEF LabelStep, CountOK, ann, Announced
    <3>7. Right
      BY <1>0, <2>6, <2>8, <3>5, LabelerAssumption DEF TrueLabel
    <3>8. CountOK'
      <4>1. /\ ~(leapDue' /\ TrueSecond(lastSlot') = MonthEnd)
            /\ ~(leapDue' /\ TrueSecond(lastSlot') > MonthEnd)
            /\ ~(leapDue' /\ TrueSecond(lastSlot') >= MonthEnd)
        BY <1>0, <2>7, <2>8, LabelerAssumption
      <4> QED BY <2>7, <3>5, <3>6, <4>1, Zenon DEF CountOK
    <3> QED BY <1>2, <1>3, <2>3, <3>7, <3>8 DEF LabelStep
  <2>9. CASE leapDue /\ n = MonthEnd
    <3>0. (counted' => labels.have /\ con /\ Told(ann)) /\ (~broken' => labels.have /\ con)
      <4>1. n >= MonthEnd
        BY <1>0, <2>9, LabelerAssumption
      <4> QED BY <2>7, <2>9, <4>1, Zenon
    <3>1. labels.have /\ con => labels.last.posix = MonthEnd - 1 /\ ~labels.last.leap
      BY <1>0, <2>1, <2>9, LabelerAssumption DEF CountOK, n0
    <3>2. second \in {MonthEnd, MonthEnd - 1}
      BY <2>2, <2>9
    <3>3. labels.have /\ con /\ Told(ann) =>
            labels'.last.posix = MonthEnd /\ labels'.last.leap /\ labels'.leapAt = MonthEnd
      BY <1>0, <2>1, <2>3, <2>4, <3>1, <3>2, LabelerAssumption DEF LabelStep, LeapNext, exp
    <3>4. \/ labels'.last.posix = MonthEnd
          \/ /\ labels'.last.posix = MonthEnd - 1 /\ ~labels'.last.leap
             /\ ~(labels.have /\ con /\ Told(ann))
      BY <1>0, <2>1, <2>3, <2>4, <3>1, <3>2, <3>3, LabelerAssumption DEF LabelStep, CountNext, exp
    <3>5. Fine
      BY <1>0, <2>6, <3>0, <2>9, <3>3 DEF TrueLabel
    <3>6. CountOK'
      <4>1. ~(~leapDue' \/ TrueSecond(lastSlot') < MonthEnd) /\ ~(TrueSecond(lastSlot') > MonthEnd)
            /\ TrueSecond(lastSlot') = MonthEnd
        BY <1>0, <2>7, <2>9, LabelerAssumption
      <4>2. counted' => labels'.last.posix = MonthEnd /\ labels'.last.leap /\ labels'.leapAt = MonthEnd
        BY <2>6, <3>0, <3>3
      <4>3. ~broken' => labels.have /\ con
        BY <3>0
      <4>4. labels'.announced = ann
        BY <2>3 DEF LabelStep
      <4> QED BY <4>1, <4>2, <4>3, <4>4, <3>4, Zenon DEF CountOK
    <3> QED BY <1>2, <1>3, <2>3, <3>5, <3>6 DEF LabelStep
  <2>10. CASE leapDue /\ n > MonthEnd
    <3>0. /\ counted' => counted /\ labels.have /\ con /\ n - MonthEnd < CatchUp
          /\ ~broken' => ~broken \/ ~(labels.have /\ con)
      <4>1. n >= MonthEnd /\ n # MonthEnd
        BY <1>0, <2>10, LabelerAssumption
      <4> QED BY <2>7, <2>10, <4>1, Zenon
    <3> DEFINE Near == labels'.last.posix \in {n - 1, n} /\ ~labels'.last.leap
               Exact == labels'.last.posix = n - 1 /\ ~labels'.last.leap
               Kept == /\ ~broken' => Near
                       /\ counted' => Exact /\ labels'.leapAt = MonthEnd
                       /\ Stepped(Reread) /\ ~broken' => Exact
    <3>1. ASSUME ~(labels.have /\ con)
          PROVE  Kept
      BY <1>0, <2>1, <2>2, <2>3, <3>0, <3>1 DEF LabelStep
    <3>2. ASSUME labels.have /\ con
          PROVE  Kept
      <4>1. n0 >= MonthEnd /\ n0 = n - 1 /\ n0 \in Int
        BY <1>0, <2>1, <2>10, <3>2, LabelerAssumption DEF n0
      <4>2. counted =>
              /\ labels.last.posix = (IF n0 = MonthEnd THEN n0 ELSE n0 - 1)
              /\ (labels.last.leap <=> n0 = MonthEnd) /\ labels.leapAt = MonthEnd
        BY <1>0, <2>10, <3>2, <4>1 DEF CountOK, n0
      <4>3. ~broken =>
              \/ n0 = MonthEnd /\ labels.last.posix = MonthEnd
              \/ n0 = MonthEnd /\ labels.last.posix = MonthEnd - 1 /\ ~labels.last.leap
                   /\ ~Told(labels.announced)
              \/ n0 > MonthEnd /\ labels.last.posix \in {n0 - 1, n0} /\ ~labels.last.leap
        BY <1>0, <2>10, <3>2, <4>1, LabelerAssumption DEF CountOK, n0
      <4>4. ASSUME counted
            PROVE  Kept
        <5>1. exp = n - 1
          BY <1>0, <2>4, <4>1, <4>2, <4>4, LabelerAssumption
        <5>2. ~LeapNext(labels, second, ann)
          BY <1>0, <2>1, <2>4, <2>10, <4>1, <4>2, <4>4, <5>1, LabelerAssumption DEF LeapNext, exp
        <5>3. Near /\ labels'.leapAt = MonthEnd
          BY <1>0, <2>1, <2>2, <2>3, <4>2, <4>4, <5>1, <5>2 DEF LabelStep, exp
        <5>4. n - MonthEnd < CatchUp => CountNext(labels, second)
          BY <1>0, <2>1, <2>2, <4>2, <4>4, <5>1, LabelerAssumption DEF CountNext, exp, Never
        <5>5. n - MonthEnd < CatchUp => Exact
          BY <2>3, <3>2, <5>1, <5>2, <5>4 DEF LabelStep, exp
        <5>6. Stepped(Reread) => Exact
          BY <1>0, <2>1, <2>2, <2>3, <5>1, <5>2 DEF LabelStep, exp
        <5> QED BY <3>0, <5>3, <5>5, <5>6
      <4>5. ASSUME ~counted, ~broken
            PROVE  Kept
        <5>1. ~LeapNext(labels, second, ann)
          BY <1>0, <2>1, <2>2, <2>4, <2>10, <4>1, <4>3, <4>5, LabelerAssumption DEF LeapNext, exp
        <5>2. exp \in {n - 1, n}
          BY <1>0, <2>4, <4>1, <4>3, <4>5, LabelerAssumption
        <5>3. Near
          BY <1>0, <2>1, <2>2, <2>3, <5>1, <5>2 DEF LabelStep, exp
        <5>4. Stepped(Reread) => Exact
          BY <1>0, <2>1, <2>2, <2>3, <2>4, <5>1, <5>2 DEF LabelStep, CountNext, exp
        <5> QED BY <3>0, <4>5, <5>3, <5>4
      <4>6. ASSUME ~counted, broken
            PROVE  Kept
        BY <3>0, <3>2, <4>6
      <4> QED BY <4>4, <4>5, <4>6
    <3>3. Kept
      BY <3>1, <3>2
    <3>4. Fine
      <4>1. Exact => Right
        BY <1>0, <2>6, <2>10, LabelerAssumption DEF TrueLabel
      <4> QED BY <2>10, <3>3, <4>1
    <3>5. CountOK'
      <4>1. ~(~leapDue' \/ TrueSecond(lastSlot') < MonthEnd) /\ TrueSecond(lastSlot') # MonthEnd
        BY <1>0, <2>7, <2>10, LabelerAssumption
      <4> QED BY <2>7, <3>3, <4>1, Zenon DEF CountOK
    <3> QED BY <1>2, <1>3, <2>3, <3>4, <3>5 DEF LabelStep
  <2> QED BY <1>0, <2>8, <2>9, <2>10, LabelerAssumption
<1> QED BY <1>1, <1>2

(* ...and the sentences sent name that second.                             *)
LEMMA NamingKeeps ==
  ASSUME NameInv, NamesSecond, pc \in {"sleep", "wait"}
  PROVE  /\ labels' \in Labelers /\ counted' \in BOOLEAN /\ broken' \in BOOLEAN
         /\ CountOK' /\ SecondsNamed'
<1> DEFINE n == TrueSecond(Due)
<1>1. /\ labels' \in Labelers /\ counted' \in BOOLEAN /\ broken' \in BOOLEAN /\ CountOK'
      /\ Reread.valid =>
              \/ labels'.last.posix = TrueLabel(n).posix /\ labels'.last.leap = TrueLabel(n).leap
              \/ leapDue /\ n = MonthEnd /\ ~counted'
              \/ leapDue /\ n > MonthEnd /\ ~counted' /\ ~Stepped(Reread)
              \/ broken'
  BY NamingKeepsCount
<1> SUFFICES SecondsNamed'
  BY <1>1
<1>2. CASE UNCHANGED <<sentence, excused>>
  BY <1>2 DEF NameInv, SecondsNamed, NamesSecond, TrueName, TrueLabel, TrueSecond, NoCivil,
     CivilOf, Sec
<1>3. CASE sentence' = Sentences(Due) /\ Excuse
  <2>1. CASE ~Reread.valid
    <3>1. sentence'.civil = NoCivil
      BY <1>3, <2>1 DEF Sentences
    <3> QED BY <3>1 DEF SecondsNamed, NoCivil
  <2>2. CASE Reread.valid
    <3>1. sentence'.civil = CivilOf(labels'.last) /\ sentence'.slot = Due
      BY <1>3, <2>2 DEF Sentences, NamesSecond
    <3>2. \/ labels'.last.posix = TrueLabel(n).posix /\ labels'.last.leap = TrueLabel(n).leap
          \/ excused'
      BY <1>1, <1>3, <2>2, Zenon DEF Excuse, NamesSecond
    <3> QED BY <3>1, <3>2 DEF SecondsNamed, TrueName, TrueLabel, TrueSecond, CivilOf, NamesSecond,
            NoCivil, Sec
  <2> QED BY <2>1, <2>2
<1> QED BY <1>2, <1>3 DEF NamesSecond

(* A clock that could be published stays one as time goes on.             *)
LEMMA ClockKept ==
  ASSUME NEW clk, ClockOK(clk), now \in Int, now' \in Int, now' >= now, UNCHANGED leapDue,
         MonthEnd \in Nat
  PROVE  /\ clk.valid \in BOOLEAN /\ clk.leap \in BOOLEAN /\ clk.off \in Int
         /\ clk.leap => leapDue'
         /\ ~Stepped(clk) => 2 * clk.off > -Sec /\ 2 * clk.off < Sec
         /\ Stepped(clk) => /\ leapDue' /\ ~clk.leap /\ now' + clk.off > (MonthEnd - 2) * Sec
                            /\ 2 * (clk.off + Sec) > -Sec /\ 2 * (clk.off + Sec) < Sec
  BY DEF ClockOK, Sec

(* Where the second after an instant lies.                                 *)
LEMMA SecondArith ==
  ASSUME NEW s \in Int, NEW m \in Int, NEW t \in Int, NEW o \in Int, s * 4 > t + o
  PROVE  /\ t + o > (m - 2) * 4 => s >= m - 1
         /\ o >= -1 => t <= s * 4 + 1
  OBVIOUS

(* Planning a second.                                                      *)
LEMMA PlanIsOK ==
  ASSUME NameTypes, PlanSecond, UNCHANGED <<now, served>>, pc' \in {"sleep", "wait"}
  PROVE  second' \in Int /\ at' \in Int /\ PlannedOK'
<1>1. CASE ~served.valid
  BY <1>1 DEF NameTypes, PlanSecond, PlannedOK, HostSecond, Sec
<1>2. CASE served.valid
  <2> DEFINE x == UtcAt(served, Later(now, lastSlot + Sec \div 2))
  <2>1. x \in Int /\ x >= now + served.off
    BY DEF NameTypes, ClockOK, UtcAt, Later, Sec
  <2>2. second' = x \div 4 + 1 /\ at' = (x \div 4 + 1) * 4 - served.off /\ c' = served
    BY <1>2 DEF PlanSecond, PlannedSecond, DaemonAtUtc, Sec
  <2> HIDE DEF x
  <2>3. /\ second' \in Int /\ second' * 4 > now + served.off
        /\ at' = second' * 4 - served.off /\ at' \in Int
    BY <2>1, <2>2 DEF NameTypes, ClockOK
  <2>4. second' >= MonthEnd - 1 \/ (now <= second' * 4 + 1 /\ ~Stepped(served))
    <3>1. MonthEnd \in Int /\ now \in Int /\ served.off \in Int
      BY LabelerAssumption DEF NameTypes, ClockOK
    <3>2. CASE Stepped(served)
      <4>1. now + served.off > (MonthEnd - 2) * 4
        BY <3>2 DEF NameTypes, ClockOK, Sec
      <4> QED BY <2>3, <3>1, <4>1, SecondArith, Zenon
    <3>3. CASE ~Stepped(served)
      <4>1. served.off >= -1
        BY <3>1, <3>3 DEF NameTypes, ClockOK, Sec
      <4> QED BY <2>3, <3>1, <3>3, <4>1, SecondArith, Zenon
    <3> QED BY <3>2, <3>3
  <2> QED BY <2>2, <2>3, <2>4 DEF PlannedOK, Sec, Stepped
<1> QED BY <1>1, <1>2
(* All but the time, the place of the thread and the other side.           *)
counts == <<served, c, second, at, lastSlot, labels, sentence, leapDue, counted, broken, excused>>

(* A step that touches neither the clock nor the count.                    *)
LEMMA NameKept ==
  ASSUME NameInv, now' \in Int, now' >= now, UNCHANGED counts,
         pc' \notin {"sleep", "wait"} \/ UNCHANGED <<pc, now>>
  PROVE  NameInv'
<1>1. NameTypes'
  BY ClockKept, LabelerAssumption DEF NameInv, NameTypes, counts, ClockOK, Stepped, Sec
<1>2. PlannedOK'
  BY DEF NameInv, PlannedOK, counts, Stepped, Sec
<1>3. CountOK'
  BY DEF NameInv, CountOK, counts, Told, Never, TrueSecond, Sec
<1>4. SecondsNamed'
  BY DEF NameInv, SecondsNamed, counts, TrueName, TrueLabel, TrueSecond, CivilOf, NoCivil, Sec
<1> QED BY <1>1, <1>2, <1>3, <1>4 DEF NameInv

(* A clock published while the thread waits.                               *)
LEMMA PublishKeeps ==
  ASSUME NameInv, NEW clk \in ClocksAt(now), served' = clk,
         UNCHANGED <<now, pc, c, second, at, lastSlot, labels, sentence, leapDue, counted,
                     broken, excused>>
  PROVE  NameInv'
<1>1. ClockOK(clk) /\ now \in Int /\ second \in Int /\ MonthEnd \in Int
  BY PublishedOK, LabelerAssumption DEF NameInv, NameTypes
<1>2. NameTypes'
  BY <1>1 DEF NameInv, NameTypes, ClockOK, Stepped, Sec
<1>3. PlannedOK'
  <2>1. Stepped(clk) /\ now <= second * 4 + 1 => second >= MonthEnd - 1
    <3>1. Stepped(clk) => now + clk.off > (MonthEnd - 2) * 4 /\ clk.off <= -3 /\ clk.off \in Int
      BY <1>1 DEF ClockOK, Sec
    <3>2. ASSUME NEW o \in Int, o <= -3, NEW t \in Int, NEW m \in Int, NEW s \in Int,
                 t + o > (m - 2) * 4, t <= s * 4 + 1
          PROVE  s >= m - 1
      BY <3>2
    <3> QED BY <1>1, <3>1, <3>2
  <2> QED BY <2>1 DEF NameInv, PlannedOK, Stepped, Sec
<1>4. CountOK'
  BY DEF NameInv, CountOK, Told, Never, TrueSecond, Sec
<1>5. SecondsNamed'
  BY DEF NameInv, SecondsNamed, TrueName, TrueLabel, TrueSecond, CivilOf, NoCivil, Sec
<1> QED BY <1>2, <1>3, <1>4, <1>5 DEF NameInv

(* The top of either loop.                                                 *)
LEMMA PlanKeeps ==
  ASSUME NameInv, PlanSecond, pc' \in {"sleep", "wait"},
         UNCHANGED <<now, served, lastSlot, labels, sentence, leapDue, counted,
                     broken, excused>>
  PROVE  NameInv'
<1>1. second' \in Int /\ at' \in Int /\ PlannedOK'
  BY PlanIsOK DEF NameInv
<1>2. NameTypes'
  BY <1>1 DEF NameInv, NameTypes, ClockOK, Stepped, Sec, PlanSecond
<1>3. CountOK'
  BY DEF NameInv, CountOK, Told, Never, TrueSecond, Sec
<1>4. SecondsNamed'
  BY DEF NameInv, SecondsNamed, TrueName, TrueLabel, TrueSecond, CivilOf, NoCivil, Sec
<1> QED BY <1>1, <1>2, <1>3, <1>4 DEF NameInv

(* The clock read again is the one published or the one planned with.     *)
LEMMA RereadOK ==
  ASSUME NameTypes PROVE ClockOK(Reread)
  BY DEF NameTypes, Reread

(* A step that names a second, of either output. *)
LEMMA NameSecondKeeps ==
  ASSUME NameInv, NamesSecond, pc \in {"sleep", "wait"}, pc' \notin {"sleep", "wait"},
         now' \in Int, now' >= now, at' = Due, UNCHANGED <<served, second>>
  PROVE  NameInv'
<1>1. /\ labels' \in Labelers /\ counted' \in BOOLEAN /\ broken' \in BOOLEAN
      /\ CountOK' /\ SecondsNamed'
  BY NamingKeeps
<1>2. Due \in Int /\ ClockOK(Reread) /\ ClockOK(served) /\ now \in Int
  BY DueTyped, RereadOK DEF NameInv, NameTypes
<1>3. c' = Reread /\ lastSlot' = Due /\ UNCHANGED leapDue
  BY DEF NamesSecond
<1>4. ClockOK(c)' /\ ClockOK(served)'
  BY <1>2, <1>3, ClockKept, LabelerAssumption DEF ClockOK, Stepped, Sec
<1>5. NameTypes'
  BY <1>1, <1>2, <1>3, <1>4 DEF NameInv, NameTypes
<1>6. PlannedOK'
  BY DEF PlannedOK
<1> QED BY <1>1, <1>5, <1>6 DEF NameInv

(* A turn of the wait that ends before the second is due. *)
LEMMA TurnKeeps ==
  ASSUME NameInv, pc = "wait", Due > now, c' = Reread, at' = Due, now' = now + 1,
         UNCHANGED <<served, pc, second, lastSlot, labels, sentence, leapDue, counted,
                     broken, excused>>
  PROVE  NameInv'
<1>1. /\ Due \in Int /\ ClockOK(Reread) /\ ClockOK(served) /\ ClockOK(c) /\ now \in Int
      /\ second \in Int /\ MonthEnd \in Int
  BY DueTyped, RereadOK, LabelerAssumption DEF NameInv, NameTypes
<1>2. ClockOK(c)' /\ ClockOK(served)'
  BY <1>1, ClockKept, LabelerAssumption DEF ClockOK, Stepped, Sec
<1>3. NameTypes'
  BY <1>1, <1>2 DEF NameInv, NameTypes
<1>4. PlannedOK'
  <2>1. Reread.valid => c.valid /\ Due = second * 4 - Reread.off
    BY DEF NameInv, PlannedOK, Reread, Due, Moves, DaemonAtUtc, Sec
  <2>2. (~Stepped(served) /\ ~Stepped(c)) => ~Stepped(Reread)
    BY DEF Reread
  <2>3. Reread.valid /\ ~Stepped(Reread) => now + 1 <= second * 4 + 1
    <3>1. ~Stepped(Reread) => Reread.off >= -1 /\ Reread.off \in Int
      BY <1>1 DEF ClockOK, Sec
    <3>2. ASSUME NEW o \in Int, o >= -1, NEW t \in Int, NEW s \in Int, s * 4 - o > t
          PROVE  t + 1 <= s * 4 + 1
      BY <3>2
    <3> QED BY <1>1, <2>1, <3>1, <3>2
  <2>4. Reread.valid => second >= MonthEnd - 1 \/ (~Stepped(served) /\ ~Stepped(Reread))
    BY <2>1, <2>2 DEF NameInv, PlannedOK
  <2> QED BY <2>1, <2>3, <2>4 DEF PlannedOK, Sec, Stepped
<1>5. CountOK'
  BY DEF NameInv, CountOK, Told, Never, TrueSecond, Sec
<1>6. SecondsNamed'
  BY DEF NameInv, SecondsNamed, TrueName, TrueLabel, TrueSecond, CivilOf, NoCivil, Sec
<1> QED BY <1>3, <1>4, <1>5, <1>6 DEF NameInv

(* Every step of either output keeps the count and the names true.        *)
LEMMA NameStep == NameInv /\ [Next]_vars => NameInv'
<1> SUFFICES ASSUME NameInv, [Next]_vars PROVE NameInv'
  OBVIOUS
<1>0. now \in Int /\ at \in Int /\ c.valid \in BOOLEAN
  BY DEF NameInv, NameTypes, ClockOK
<1>1. CASE UNCHANGED vars
  BY <1>0, <1>1, NameKept DEF vars, slotVars, counts
<1>2. CASE PublishAny
  BY <1>2, PublishKeeps DEF PublishAny, Publish
<1>3. CASE PulseStep
  <2>1. CASE PulsePlan
    BY <1>3, <2>1, PlanKeeps DEF PulsePlan, PulseStep, Track, Names
  <2>2. ASSUME NEW z \in BOOLEAN, EndThread(z) PROVE NameInv'
    BY <1>0, <1>3, <2>2, NameKept DEF EndThread, counts, PulseStep, Track, Names
  <2>3. ASSUME NEW d \in Delays, NEW l \in BOOLEAN, NEW z \in BOOLEAN, EndPulse(d, l, z) PROVE NameInv'
    <3>1. now' \in Int /\ now' >= now
      BY <1>0, <2>3, PulseAssumption DEF EndPulse, Later
    <3> QED BY <1>3, <2>3, <3>1, NameKept DEF EndPulse, counts, PulseStep, Track, Names
  <2>4. ASSUME NEW d \in Delays, NEW l \in BOOLEAN, NEW w \in BOOLEAN, NEW z \in BOOLEAN,
               Act(d, l, w, z)
        PROVE  NameInv'
    <3>1. /\ now' = Later(Later(now, at) + d, Due) /\ c' = Reread /\ at' = Due /\ lastSlot' = Due
          /\ labels' = Labelled(Due) /\ (sentence' = Sentences(Due) \/ sentence' = sentence)
          /\ UNCHANGED <<served, second>> /\ pc = "sleep" /\ pc' \in {"top", "hold"}
      BY <2>4, Zenon DEF Act
    <3>2. now' \in Int /\ now' >= now
      BY <1>0, <3>1, DueTyped, PulseAssumption DEF Later, NameInv
    <3>3. UNCHANGED leapDue /\ Judge /\ (IF sentence' # sentence THEN Excuse ELSE UNCHANGED excused)
      BY <1>3, <3>1 DEF PulseStep, Track, Names
    <3>4. NamesSecond
      BY <3>1, <3>3 DEF NamesSecond
    <3> QED BY <3>1, <3>2, <3>4, NameSecondKeeps
  <2>5. CASE StopOutput /\ UNCHANGED pulseVars
    BY <1>0, <1>3, <2>5, NameKept DEF StopOutput, counts, PulseStep, Track, Names
  <2> QED BY <1>3, <2>1, <2>2, <2>3, <2>4, <2>5 DEF PulseStep, PulseNext
<1>4. CASE NmeaStep
  <2>1. CASE NmeaPlan
    BY <1>4, <2>1, PlanKeeps DEF NmeaPlan, NmeaStep, Track, Names
  <2>2. CASE ServeSockets
    BY <1>4, <2>2, TurnKeeps DEF ServeSockets, NmeaStep, Track, Names
  <2>3. CASE Compose
    <3>1. UNCHANGED leapDue /\ Judge /\ (IF sentence' # sentence THEN Excuse ELSE UNCHANGED excused)
      BY <1>4, <2>3 DEF NmeaStep, Track, Names, Compose
    <3>2. NamesSecond
      BY <2>3, <3>1 DEF NamesSecond, Compose
    <3> QED BY <1>0, <2>3, <3>2, NameSecondKeeps DEF Compose
  <2>4. CASE NmeaStop
    BY <1>0, <1>4, <2>4, NameKept DEF NmeaStop, counts, NmeaStep, Track, Names
  <2>5. ASSUME NEW fails, SendAll(fails) PROVE NameInv'
    BY <1>0, <1>4, <2>5, NameKept DEF SendAll, counts, NmeaStep, Track, Names
  <2>6. ASSUME NEW k \in Clients, PeerComes(k) \/ PeerFails(k) PROVE NameInv'
    BY <1>0, <1>4, <2>6, NameKept DEF PeerComes, PeerFails, slotVars, counts, NmeaStep, Track, Names
  <2> QED BY <1>4, <2>1, <2>2, <2>3, <2>4, <2>5, <2>6 DEF NmeaStep, NmeaNext
<1> QED BY <1>1, <1>2, <1>3, <1>4 DEF Next

(* At the start nothing has been named.                                    *)
LEMMA NameInit == Init => NameInv
<1> SUFFICES ASSUME Init PROVE NameInv
  OBVIOUS
<1>1. NameTypes
  <2>1. leapDue \in BOOLEAN /\ counted \in BOOLEAN /\ broken \in BOOLEAN
    BY DEF Init
  <2>2. now \in Int /\ at \in Int /\ lastSlot \in Int /\ second \in Int
    BY LabelerAssumption DEF Init, SlotInit, Never, Sec
  <2>3. labels \in Labelers
    BY DEF Init, SlotInit, Labelers, NewLabeler, NoLabel, Never
  <2>4. ClockOK(served) /\ ClockOK(c)
    BY DEF Init, SlotInit, NoClock, ClockOK, Stepped, Sec
  <2> QED BY <2>1, <2>2, <2>3, <2>4 DEF NameTypes
<1>2. PlannedOK /\ CountOK /\ SecondsNamed
  BY DEF Init, SlotInit, PlannedOK, CountOK, SecondsNamed, NewLabeler, NoSentence
<1> QED BY <1>1, <1>2 DEF NameInv

(* Every second is sent under its own name, 23:59:60 included: for every   *)
(* error of the served clock below half a second, whenever it takes the    *)
(* leap second, is lost or comes back, and however late the thread wakes.  *)
THEOREM SecondsAreNamed == Spec => []SecondsNamed
<1>1. NameInv => SecondsNamed
  BY DEF NameInv
<1> QED
  BY <1>1, NameInit, NameStep, PTL DEF Spec
-----------------------------------------------------------------------------
(* Every non-empty set of numbers has a least one.                         *)
LEMMA NatMin == ASSUME NEW T \in SUBSET Nat, T # {} PROVE \E x \in T : \A y \in T : x <= y
<1> DEFINE R == OpToRel(<, Nat)
<1>1. IsWellFoundedOn(R, Nat)
  BY NatLessThanWellFounded
<1>3. \A x, y \in Nat : <<y, x>> \in R <=> y < x
  BY DEF OpToRel
<1> HIDE DEF R
<1>2. PICK x \in T : \A y \in T : ~(<<y, x>> \in R)
  BY <1>1, WFMin
<1>4. \A y \in T : x <= y
  <2> TAKE y \in T
  <2>1. x \in Nat /\ y \in Nat /\ ~(y < x)
    BY <1>2, <1>3
  <2> QED BY <2>1
<1> QED BY <1>4

(* Of the subsets of a finite set that lack a property, one lacks it with  *)
(* none of its own members removed: an induction over finite sets.         *)
LEMMA SmallestSubset ==
  ASSUME NEW S, IsFiniteSet(S), NEW B \in SUBSET SUBSET S, B # {}
  PROVE  \E s \in B : IsFiniteSet(s) /\ \A x \in s : s \ {x} \notin B
<1>1. \A s \in B : IsFiniteSet(s) /\ Cardinality(s) \in Nat
  BY FS_Subset, FS_CardinalityType
<1> DEFINE T == {Cardinality(s) : s \in B}
<1>2. T \in SUBSET Nat /\ T # {}
  BY <1>1
<1>3. PICK n \in T : \A m \in T : n <= m
  BY <1>2, NatMin
<1>4. PICK s \in B : n = Cardinality(s)
  BY <1>3
<1>5. ASSUME NEW x \in s PROVE s \ {x} \notin B
  <2>1. Cardinality(s \ {x}) = Cardinality(s) - 1
    BY <1>1, <1>4, FS_RemoveElement
  <2>2. ASSUME s \ {x} \in B PROVE FALSE
    <3>1. n <= Cardinality(s \ {x})
      BY <1>3, <2>2
    <3> QED BY <1>1, <1>4, <2>1, <3>1
  <2> QED BY <2>2
<1> QED BY <1>1, <1>4, <1>5

LEMMA LeastPlace ==
  ASSUME NEW s \in SUBSET Nat, s # {}
  PROVE  Min(s) \in s /\ \A x \in s : Min(s) <= x
  BY NatMin DEF Min

(* One closing after the others: the last is that of the place nearest to  *)
(* the front.                                                              *)
Closing(g, list, s) == IF s = {} THEN list ELSE RemoveAt(g[s \ {Min(s)}], Min(s))

(* The recursion has a solution, so the choice that defines the fold makes *)
(* one.                                                                    *)
LEMMA ClosingExists ==
  ASSUME NEW P \in SUBSET Nat, IsFiniteSet(P), NEW list
  PROVE  \E g : g = [s \in SUBSET P |-> Closing(g, list, s)]
<1> DEFINE W(n) == {s \in SUBSET P : Cardinality(s) <= n}
           Good(n, g) == g = [s \in W(n) |-> Closing(g, list, s)]
           Bad == {n \in Nat : ~\E g : Good(n, g)}
<1>1. \A s \in SUBSET P : IsFiniteSet(s) /\ Cardinality(s) \in Nat /\ (Cardinality(s) = 0 <=> s = {})
  BY FS_Subset, FS_CardinalityType, FS_EmptySet
<1>2. ASSUME NEW n \in Nat, NEW s \in W(n + 1), s # {}
      PROVE  s \ {Min(s)} \in W(n)
  <2>1. Min(s) \in s /\ IsFiniteSet(s) /\ s \ {Min(s)} \in SUBSET P
    BY <1>1, <1>2, LeastPlace
  <2>2. Cardinality(s \ {Min(s)}) = Cardinality(s) - 1 /\ Cardinality(s) \in Nat /\ Cardinality(s) <= n + 1
    BY <1>1, <1>2, <2>1, FS_RemoveElement
  <2>3. Cardinality(s \ {Min(s)}) \in Nat
    BY <1>1, <2>1
  <2> QED BY <2>1, <2>2, <2>3
<1>3. \E g : Good(0, g)
  <2> DEFINE g == [s \in W(0) |-> list]
  <2>1. \A s \in W(0) : Closing(g, list, s) = list
    BY <1>1 DEF Closing
  <2>2. Good(0, g)
    BY <2>1
  <2> QED BY <2>2
<1>4. ASSUME NEW n \in Nat, \E g : Good(n, g) PROVE \E g : Good(n + 1, g)
  <2>1. PICK h : Good(n, h)
    BY <1>4
  <2> DEFINE g == [s \in W(n + 1) |-> Closing(h, list, s)]
  <2>2. ASSUME NEW s \in W(n) PROVE s \in W(n + 1) /\ g[s] = h[s]
    <3>1. s \in W(n + 1)
      BY <1>1
    <3>2. h[s] = Closing(h, list, s)
      BY <2>1
    <3> QED BY <3>1, <3>2
  <2>3. ASSUME NEW s \in W(n + 1) PROVE Closing(h, list, s) = Closing(g, list, s)
    <3>1. CASE s = {}
      BY <3>1 DEF Closing
    <3>2. CASE s # {}
      <4>1. g[s \ {Min(s)}] = h[s \ {Min(s)}]
        BY <1>2, <2>2, <3>2
      <4> QED BY <4>1, <3>2 DEF Closing
    <3> QED BY <3>1, <3>2
  <2>4. g = [s \in W(n + 1) |-> Closing(g, list, s)]
    BY <2>3
  <2> HIDE DEF g
  <2> QED BY <2>4
<1> HIDE DEF Good
<1>5. Bad = {}
  <2> SUFFICES ASSUME Bad # {} PROVE FALSE
    OBVIOUS
  <2>1. PICK n \in Bad : \A m \in Bad : n <= m
    BY NatMin
  <2>2. n # 0
    BY <1>3, <2>1
  <2>3. n - 1 \in Nat /\ n - 1 \notin Bad /\ (n - 1) + 1 = n
    BY <2>1, <2>2
  <2>4. \E g : Good(n - 1, g)
    BY <2>3
  <2>5. \E g : Good((n - 1) + 1, g)
    BY <1>4, <2>3, <2>4
  <2> QED BY <2>1, <2>3, <2>5
<1>6. Cardinality(P) \in Nat
  BY FS_CardinalityType
<1>7. PICK g : Good(Cardinality(P), g)
  BY <1>5, <1>6
<1>8. W(Cardinality(P)) = SUBSET P
  BY FS_Subset, <1>1, <1>6
<1> QED BY <1>7, <1>8 DEF Good

(* What closing a list of places comes to obeys the recursion.             *)
LEMMA CloseRec ==
  ASSUME NEW P \in SUBSET Nat, IsFiniteSet(P), NEW list
  PROVE  \E g : g[P] = CloseClients(list, P) /\ \A s \in SUBSET P : g[s] = Closing(g, list, s)
<1> DEFINE Def(h) == [s \in SUBSET P |-> IF s = {} THEN list ELSE RemoveAt(h[s \ {Min(s)}], Min(s))]
           iter == CHOOSE h : h = Def(h)
<1>1. CloseClients(list, P) = iter[P]
  BY DEF CloseClients, MapThenFoldSet
<1>2. PICK g : g = [s \in SUBSET P |-> Closing(g, list, s)]
  BY ClosingExists
<1>3. g = Def(g)
  BY <1>2 DEF Closing
<1>4. iter = Def(iter)
  BY <1>3
<1> HIDE DEF iter
<1>5. \A s \in SUBSET P : iter[s] = Closing(iter, list, s)
  BY <1>4 DEF Closing
<1> QED BY <1>1, <1>5

(* What is left of a place that was not closed, when those of s have been. *)
Still(list, r, s, i) ==
  \E m \in DOMAIN r : /\ r[m] = list[i]
                      /\ (\A x \in s : i < x) => m = i
                      /\ (\E x \in s : x < i) => \E x \in s : x <= m

LEMMA SecondOfTwo ==
  ASSUME NEW T, NEW a \in Seq(T), NEW b \in Seq(T), NEW k \in 1..(Len(a) + Len(b)), ~(k <= Len(a))
  PROVE  (a \o b)[k] = b[k - Len(a)]
<1>1. Len(a) \in Nat /\ Len(b) \in Nat
  OBVIOUS
<1>2. k > Len(a)
  BY <1>1
<1> QED BY <1>1, <1>2

(* Where the entries of a list are once one of them is removed.            *)
LEMMA RemoveOne ==
  ASSUME NEW T, NEW r \in Seq(T), NEW p \in DOMAIN r
  PROVE  /\ RemoveAt(r, p) \in Seq(T) /\ Len(RemoveAt(r, p)) = Len(r) - 1
         /\ \A m \in DOMAIN r : /\ m < p => m \in DOMAIN RemoveAt(r, p) /\ RemoveAt(r, p)[m] = r[m]
                                /\ m > p => m - 1 \in DOMAIN RemoveAt(r, p) /\ RemoveAt(r, p)[m - 1] = r[m]
<1> DEFINE a == SubSeq(r, 1, p - 1)
           b == SubSeq(r, p + 1, Len(r))
<1>1. Len(r) \in Nat /\ p \in 1..Len(r)
  OBVIOUS
<1>2. a \in Seq(T) /\ Len(a) = p - 1 /\ \A m \in 1..(p - 1) : a[m] = r[m]
  BY <1>1
<1>3. b \in Seq(T) /\ Len(b) = Len(r) - p /\ \A m \in 1..(Len(r) - p) : b[m] = r[p + m]
  BY <1>1
<1>4. RemoveAt(r, p) = a \o b
  BY DEF RemoveAt
<1> HIDE DEF a, b
<1>5. a \o b \in Seq(T) /\ Len(a \o b) = Len(r) - 1
  BY <1>1, <1>2, <1>3
<1>6. ASSUME NEW m \in DOMAIN r, m < p PROVE m \in DOMAIN (a \o b) /\ (a \o b)[m] = r[m]
  BY <1>1, <1>2, <1>3, <1>5, <1>6
<1>7. ASSUME NEW m \in DOMAIN r, m > p PROVE m - 1 \in DOMAIN (a \o b) /\ (a \o b)[m - 1] = r[m]
  <2>1. m \in 1..Len(r) /\ m - p \in 1..(Len(r) - p) /\ p + (m - p) = m
    BY <1>1, <1>7
  <2>2. b[m - p] = r[m]
    <3> DEFINE k == m - p
    <3>1. k \in 1..(Len(r) - p) /\ p + k = m
      BY <2>1
    <3> HIDE DEF k
    <3>2. b[k] = r[m]
      BY <1>3, <3>1
    <3> QED BY <3>2 DEF k
  <2>3. m - 1 \in 1..Len(a \o b) /\ (m - 1) - Len(a) = m - p /\ m - 1 > Len(a)
    <3> DEFINE n == Len(r)
               x == Len(a)
               y == Len(a \o b)
    <3>1. n \in Nat /\ p \in 1..n /\ m \in 1..n /\ m > p /\ x = p - 1 /\ y = n - 1
      BY <1>1, <1>2, <1>5, <1>7, <2>1
    <3> HIDE DEF n, x, y
    <3>2. m - 1 \in 1..y /\ (m - 1) - x = m - p /\ m - 1 > x
      BY <3>1
    <3> QED BY <3>2 DEF x, y
  <2>4. (a \o b)[m - 1] = b[(m - 1) - Len(a)]
    <3> DEFINE k == m - 1
    <3>1. k \in 1..(Len(a) + Len(b)) /\ ~(k <= Len(a))
      <4>1. Len(a \o b) = Len(a) + Len(b) /\ Len(a) \in Nat
        <5>1. a \in Seq(T) /\ b \in Seq(T)
          BY <1>2, <1>3
        <5> QED BY <5>1
      <4>2. k \in 1..(Len(a) + Len(b)) /\ k > Len(a)
        BY <2>3, <4>1, Zenon
      <4> HIDE DEF k
      <4> QED BY <4>1, <4>2
    <3> HIDE DEF k
    <3>2. (a \o b)[k] = b[k - Len(a)]
      BY <1>2, <1>3, <3>1, SecondOfTwo
    <3> QED BY <3>2 DEF k
  <2> QED BY <1>5, <2>2, <2>3, <2>4
<1> QED BY <1>4, <1>5, <1>6, <1>7

(* Closing places from the back closes those and no other.                 *)
LEMMA CloseKeeps ==
  ASSUME NEW list \in Seq(Clients), NEW P \in SUBSET DOMAIN list
  PROVE  /\ CloseClients(list, P) \in Seq(Clients)
         /\ \A i \in DOMAIN list \ P :
              \E m \in DOMAIN CloseClients(list, P) : CloseClients(list, P)[m] = list[i]
<1>1. P \in SUBSET Nat /\ IsFiniteSet(P) /\ DOMAIN list = 1..Len(list) /\ Len(list) \in Nat
  <2>1. DOMAIN list = 1..Len(list) /\ Len(list) \in Nat
    OBVIOUS
  <2>2. IsFiniteSet(1..Len(list))
    BY <2>1, FS_Interval
  <2> QED BY <2>1, <2>2, FS_Subset
<1>2. PICK g : g[P] = CloseClients(list, P) /\ \A s \in SUBSET P : g[s] = Closing(g, list, s)
  BY <1>1, CloseRec
<1> DEFINE Good(s) == g[s] \in Seq(Clients) /\ \A i \in DOMAIN list \ s : Still(list, g[s], s, i)
           B == {s \in SUBSET P : ~Good(s)}
<1>3. B = {}
  <2> SUFFICES ASSUME B # {} PROVE FALSE
    OBVIOUS
  <2>1. B \in SUBSET SUBSET P
    OBVIOUS
  <2>2. PICK s \in B : \A x \in s : s \ {x} \notin B
    <3> HIDE DEF B
    <3> QED BY <1>1, <2>1, SmallestSubset
  <2>3. s \in SUBSET P /\ ~Good(s) /\ s \in SUBSET Nat
    BY <1>1, <2>2
  <2>4. s # {}
    <3> SUFFICES ASSUME s = {} PROVE FALSE
      OBVIOUS
    <3>1. g[s] = list
      BY <1>2, <2>3 DEF Closing
    <3>2. Good(s)
      BY <3>1 DEF Still
    <3> QED BY <2>3, <3>2
  <2> DEFINE p == Min(s)
             q == s \ {p}
             r == g[q]
  <2>5. p \in s /\ (\A x \in s : p <= x) /\ g[s] = RemoveAt(r, p) /\ p \in DOMAIN list /\ p \in Nat
    BY <1>1, <1>2, <2>3, <2>4, LeastPlace DEF Closing
  <2>6. Good(q)
    BY <2>2, <2>3, <2>5
  <2>7. r \in Seq(Clients) /\ \A i \in DOMAIN list \ q : Still(list, r, q, i)
    BY <2>6
  <2> HIDE DEF Good, r
  <2>8. \A x \in q : p < x /\ x \in Nat
    BY <2>3, <2>5
  <2>9. p \in DOMAIN r
    <3>1. Still(list, r, q, p)
      BY <2>5, <2>7
    <3> QED BY <2>8, <3>1 DEF Still
  <2>10. /\ g[s] \in Seq(Clients) /\ Len(g[s]) = Len(r) - 1
         /\ \A m \in DOMAIN r : /\ m < p => m \in DOMAIN g[s] /\ g[s][m] = r[m]
                                /\ m > p => m - 1 \in DOMAIN g[s] /\ g[s][m - 1] = r[m]
    BY <2>5, <2>7, <2>9, RemoveOne
  <2>11. ASSUME NEW i \in DOMAIN list \ s PROVE Still(list, g[s], s, i)
    <3>1. i \in DOMAIN list \ q /\ i \in Nat /\ i # p
      BY <1>1, <2>5, <2>11
    <3>2. PICK m \in DOMAIN r : /\ r[m] = list[i]
                                /\ (\A x \in q : i < x) => m = i
                                /\ (\E x \in q : x < i) => \E x \in q : x <= m
      BY <2>7, <3>1 DEF Still
    <3>3. m \in Nat
      BY <2>7
    <3>4. CASE i < p
      <4>1. m = i
        <5>1. \A x \in q : i < x
          BY <2>5, <2>8, <3>1, <3>4
        <5> QED BY <3>2, <5>1
      <4>2. m \in DOMAIN g[s] /\ g[s][m] = list[i]
        BY <2>10, <3>2, <3>4, <4>1
      <4>3. ~\E x \in s : x < i
        BY <2>3, <2>5, <3>1, <3>4
      <4> QED BY <4>1, <4>2, <4>3 DEF Still
    <3>5. CASE p < i
      <4>1. p < m
        <5>1. CASE \A x \in q : i < x
          BY <3>2, <3>5, <5>1
        <5>2. CASE \E x \in q : ~(i < x)
          <6>1. PICK x \in q : ~(i < x)
            BY <5>2
          <6>2. x # i /\ x \in Nat
            BY <2>8, <2>11, <6>1
          <6>3. x < i
            BY <3>1, <6>1, <6>2
          <6>4. PICK y \in q : y <= m
            BY <3>2, <6>3
          <6> QED BY <2>5, <2>8, <3>3, <6>4
        <5> QED BY <5>1, <5>2
      <4>2. m - 1 \in DOMAIN g[s] /\ g[s][m - 1] = list[i]
        BY <2>10, <3>2, <4>1
      <4>3. p \in s /\ p <= m - 1 /\ ~(i < p)
        BY <2>5, <3>1, <3>3, <3>5, <4>1
      <4> QED BY <4>2, <4>3 DEF Still
    <3> QED BY <2>5, <3>1, <3>4, <3>5
  <2>12. Good(s)
    BY <2>10, <2>11 DEF Good
  <2> QED BY <2>3, <2>12
<1>4. Good(P)
  BY <1>3
<1> HIDE DEF B
<1> QED BY <1>2, <1>4 DEF Still

(* A client that reads is listed, and has had the last sentences once they *)
(* are out; no client comes to a pulse output.                             *)
ReaderInv ==
  /\ clients \in Seq(Clients)
  /\ part \in {"pulse", "port"} => \A k \in Clients : peer[k] # "reading"
  /\ ReadersServed

(* Those who wait are a list, in some order.                               *)
LEMMA WaitingListed == Waiting \in Seq(Clients)
<1> DEFINE S == {k \in Clients : peer[k] = "knocking"}
<1>1. S \in SUBSET Clients /\ IsFiniteSet(S)
  BY NmeaAssumption, FS_Subset
<1>2. Waiting = SetToSeq(S)
  BY DEF Waiting
<1> HIDE DEF S
<1>3. Cardinality(S) \in Nat /\ \E f \in [1..Cardinality(S) -> S] : IsInjective(f)
  BY <1>1, FS_CardinalityType DEF ExistsBijection, Bijection, Injection
<1>4. Waiting \in [1..Cardinality(S) -> S]
  BY <1>2, <1>3 DEF SetToSeq
<1> QED BY <1>1, <1>3, <1>4

(* Whoever is let in or turned away, those listed stay.                    *)
LEMMA AcceptedKeeps ==
  ASSUME NEW list \in Seq(Clients), NEW w \in Seq(Clients)
  PROVE  /\ Accepted(list, w) \in Seq(Clients)
         /\ \A i \in DOMAIN list : i \in DOMAIN Accepted(list, w) /\ Accepted(list, w)[i] = list[i]
<1> DEFINE room == MaxClients - Len(list)
           n == IF Len(w) < room THEN Len(w) ELSE room
           more == SubSeq(w, 1, n)
<1>1. n \in Int /\ n <= Len(w)
  BY NmeaAssumption
<1>2. more \in Seq(Clients)
  <2> HIDE DEF n
  <2> QED BY <1>1
<1>3. Accepted(list, w) = list \o more
  BY DEF Accepted
<1> HIDE DEF more
<1> QED BY <1>2, <1>3

(* A turn of the sockets closes those that have gone and nobody else.      *)
LEMMA SocketsKeepReaders ==
  ASSUME ReaderInv, ServeSockets, part' = part, part \in {"nmea", "clients"}
  PROVE  ReaderInv'
<1> DEFINE G == Gone(clients)
           left == CloseClients(clients, G)
<1>1. clients \in Seq(Clients) /\ G \in SUBSET DOMAIN clients
  BY DEF ReaderInv, Gone
<1>2. /\ left \in Seq(Clients)
      /\ \A i \in DOMAIN clients \ G : \E m \in DOMAIN left : left[m] = clients[i]
  <2> HIDE DEF G
  <2> QED BY <1>1, CloseKeeps
<1>3. /\ clients' = Accepted(left, Waiting) /\ pc = "wait" /\ pc' = pc /\ running' = running
      /\ peer' = [k \in Clients |->
                IF peer[k] # "knocking" THEN peer[k]
                ELSE IF \E i \in DOMAIN clients' : clients'[i] = k THEN "reading" ELSE "refused"]
  BY DEF ServeSockets
<1> HIDE DEF left
<1>4. /\ clients' \in Seq(Clients)
      /\ \A i \in DOMAIN left : i \in DOMAIN clients' /\ clients'[i] = left[i]
  BY <1>2, <1>3, WaitingListed, AcceptedKeeps
<1>5. ASSUME NEW k \in Clients, running', peer'[k] = "reading"
      PROVE  \E i \in DOMAIN clients' : clients'[i] = k
  <2>1. CASE peer[k] = "knocking"
    BY <1>3, <1>5, <2>1
  <2>2. CASE peer[k] # "knocking"
    <3>1. peer[k] = "reading" /\ running
      BY <1>3, <1>5, <2>2
    <3>2. PICK i \in DOMAIN clients : clients[i] = k
      BY <3>1 DEF ReaderInv, ReadersServed
    <3>3. i \notin G
      BY <3>1, <3>2 DEF Gone
    <3>4. PICK m \in DOMAIN left : left[m] = clients[i]
      BY <1>2, <3>2, <3>3
    <3> QED BY <1>4, <3>2, <3>4
  <2> QED BY <2>1, <2>2
<1>6. ReadersServed'
  BY <1>3, <1>5 DEF ReadersServed
<1> QED BY <1>4, <1>6 DEF ReaderInv

(* A client that cannot take the sentences is closed, and only that one.   *)
LEMMA SendKeepsReaders ==
  ASSUME ReaderInv, NEW fails \in SUBSET DOMAIN clients, SendAll(fails),
         part' = part, part \in {"nmea", "clients"}
  PROVE  ReaderInv'
<1>1. /\ clients \in Seq(Clients) /\ clients' = CloseClients(clients, fails) /\ peer' = peer
      /\ running' = running /\ heard' = {clients[i] : i \in DOMAIN clients \ fails}
      /\ fails \subseteq {i \in DOMAIN clients : peer[clients[i]] \in {"stuck", "gone"}}
  BY DEF ReaderInv, SendAll
<1>2. /\ clients' \in Seq(Clients)
      /\ \A i \in DOMAIN clients \ fails : \E m \in DOMAIN clients' : clients'[m] = clients[i]
  BY <1>1, CloseKeeps
<1>3. ASSUME NEW k \in Clients, running', peer'[k] = "reading"
      PROVE  k \in heard' /\ \E i \in DOMAIN clients' : clients'[i] = k
  <2>1. peer[k] = "reading" /\ running
    BY <1>1, <1>3
  <2>2. PICK i \in DOMAIN clients : clients[i] = k
    BY <2>1 DEF ReaderInv, ReadersServed
  <2>3. i \notin fails
    BY <1>1, <2>1, <2>2
  <2> QED BY <1>1, <1>2, <2>2, <2>3
<1>4. ReadersServed'
  BY <1>3 DEF ReadersServed
<1> QED BY <1>2, <1>4 DEF ReaderInv

LEMMA ReaderInvStep == ReaderInv /\ [Next]_vars => ReaderInv'
<1> SUFFICES ASSUME ReaderInv, [Next]_vars PROVE ReaderInv'
  OBVIOUS
<1>1. CASE UNCHANGED vars
  BY <1>1 DEF vars, slotVars, nmeaVars, ReaderInv, ReadersServed
<1>2. CASE PublishAny
  BY <1>2 DEF PublishAny, Publish, nmeaVars, ReaderInv, ReadersServed
<1>3. CASE PulseStep
  BY <1>3 DEF PulseStep, nmeaVars, ReaderInv, ReadersServed
<1>4. CASE NmeaStep
  <2>1. part' = part /\ part \in {"nmea", "clients"} /\ NmeaNext
    BY <1>4 DEF NmeaStep
  <2>2. CASE NmeaPlan
    BY <2>1, <2>2 DEF NmeaPlan, nmeaVars, ReaderInv, ReadersServed
  <2>3. CASE ServeSockets
    BY <2>1, <2>3, SocketsKeepReaders
  <2>4. CASE Compose
    BY <2>1, <2>4 DEF Compose, nmeaVars, ReaderInv, ReadersServed
  <2>5. CASE NmeaStop
    BY <2>1, <2>5 DEF NmeaStop, ReaderInv, ReadersServed
  <2>6. CASE \E fails \in SUBSET DOMAIN clients : SendAll(fails)
    BY <2>1, <2>6, SendKeepsReaders
  <2>7. CASE \E k \in Clients : PeerComes(k) \/ PeerFails(k)
    <3>1. /\ clients' = clients /\ heard' = heard /\ pc' = pc /\ running' = running
          /\ \A k \in Clients : peer'[k] = "reading" => peer[k] = "reading"
      <4>1. PICK k \in Clients : PeerComes(k) \/ PeerFails(k)
        BY <2>7
      <4>2. CASE PeerComes(k)
        BY <4>2 DEF PeerComes, slotVars
      <4>3. CASE PeerFails(k)
        BY <4>3 DEF PeerFails, slotVars
      <4> QED BY <4>1, <4>2, <4>3
    <3> QED BY <2>1, <3>1 DEF ReaderInv, ReadersServed
  <2> QED BY <2>1, <2>2, <2>3, <2>4, <2>5, <2>6, <2>7 DEF NmeaNext
<1> QED BY <1>1, <1>2, <1>3, <1>4 DEF Next

LEMMA ReaderInvInit == Init => ReaderInv
  BY DEF Init, NmeaInit, ReaderInv, ReadersServed

(* A client that reads is sent every second and is never closed, for any   *)
(* number of clients, whichever of the others stop reading or go in the    *)
(* same turn, and however full the list is (NmeaServer::run, acceptFrom and*)
(* closeClient).                                                           *)
THEOREM ReadersAreServed == Spec => []ReadersServed
<1>1. ReaderInv => ReadersServed
  BY DEF ReaderInv
<1> QED BY <1>1, ReaderInvInit, ReaderInvStep, PTL DEF Spec
=============================================================================
