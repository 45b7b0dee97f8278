----------------------------- MODULE PpsLabeler -----------------------------
(***************************************************************************)
(* Naming the seconds of the served clock (Pps.cpp, class PpsLabeler), and *)
(* what the two outputs that do so have in common: a thread that plans the *)
(* next second, waits for it, and reads the served clock again before it   *)
(* acts (PpsOutput::run, NmeaServer::run).                                 *)
(*                                                                         *)
(* Instants of the daemon clock are in quarters of a second; a label is a  *)
(* whole POSIX second.  One midnight, LeapDay, ends a month; the served    *)
(* clock is the Selector's and runs at the daemon clock's own rate.        *)
(***************************************************************************)
EXTENDS Integers, Sequences

CONSTANTS
  Day,        \* the seconds in a day
  MonthEnd,   \* the midnight, as a POSIX second, that ends a month
  ArmedFor,   \* kLeapArmedSec
  CatchUp,    \* kLeapCatchUpSec
  MaxSlot     \* bound on the daemon clock

ASSUME LabelerAssumption ==
  /\ Day \in Nat \ {0} /\ MonthEnd \in Nat \ {0} /\ MonthEnd % Day = 0
  /\ ArmedFor \in Nat /\ CatchUp \in Nat /\ MaxSlot \in Nat

VARIABLES
  now,       \* daemonNow
  served,    \* the Selector's Combined, as m_clock() returns it
  running,   \* m_running
  pc,        \* where the thread is
  c,         \* its copy of the served clock
  second,    \* the second planned
  at,        \* ...and the instant it is due
  lastSlot,  \* the last instant acted on
  labels,    \* the PpsLabeler
  sentence   \* the last sentences sent: the second they name, their status

slotVars == <<now, served, running, pc, c, second, at, lastSlot, labels, sentence>>

Sec == 4
Never == -100
NoLabel == [posix |-> 0, leap |-> FALSE]
NewLabeler == [have |-> FALSE, last |-> NoLabel, announced |-> Never, leapAt |-> Never]

\* civilOf: 23:59:60 belongs to the day before the midnight it precedes.
CivilOf(l) ==
  LET s == IF l.leap THEN l.posix - 1 ELSE l.posix
  IN [day |-> s \div Day, second |-> IF l.leap THEN Day ELSE s % Day]

Expected(lab) == IF lab.last.leap THEN lab.last.posix ELSE lab.last.posix + 1
Armed(lab) ==
  /\ lab.announced # Never /\ Expected(lab) - lab.announced <= ArmedFor
  /\ Expected(lab) = MonthEnd

\* Slip: the served clock must not have stepped back yet.
LeapNotStepped(lab, reading) ==
  ~lab.last.leap /\ Armed(lab) /\ reading = Expected(lab)

\* The inserted second, whether the served clock has already stepped back or not.
LeapNow(lab, reading) ==
  ~lab.last.leap /\ Armed(lab) /\ reading \in {Expected(lab), Expected(lab) - 1}

\* The served clock agrees with the count, or is a leap second ahead of it.
InCount(lab, reading) ==
  \/ reading = Expected(lab)
  \/ lab.leapAt # Never /\ Expected(lab) - lab.leapAt < CatchUp /\ reading = Expected(lab) + 1

\* The labeler once it has given a name.
Named(lab, posix, leap) ==
  [have |-> TRUE, last |-> [posix |-> posix, leap |-> leap],
   announced |-> lab.announced, leapAt |-> IF leap THEN posix ELSE lab.leapAt]

\* PpsLabeler::next.
NextLabel(lab0, reading, pending, consecutive) ==
  LET lab  == [lab0 EXCEPT !.announced = IF pending THEN reading ELSE @]
      runs == lab.have /\ consecutive
  IN CASE runs /\ LeapNow(lab, reading) -> Named(lab, Expected(lab), TRUE)
       [] runs /\ ~LeapNow(lab, reading) /\ InCount(lab, reading) -> Named(lab, Expected(lab), FALSE)
       [] ~runs \/ ~(LeapNow(lab, reading) \/ InCount(lab, reading)) -> Named(lab, reading, FALSE)
-----------------------------------------------------------------------------
UtcAt(clk, d) == d + clk.off
DaemonAtUtc(clk, s) == s * Sec - clk.off

Later(a, b) == IF a > b THEN a ELSE b

\* Slip: the next second of the served clock, whatever the last slot was.
NextOfNow(clk, t) == UtcAt(clk, t) \div Sec + 1

(* The next second to act on: of the served clock when there is one, and   *)
(* then not one that the last slot's half second still covers; of this     *)
(* host's clock otherwise.                                                 *)
PlannedSecond(clk, t) == UtcAt(clk, Later(t, lastSlot + Sec \div 2)) \div Sec + 1
HostSecond(t) == (t \div Sec + 1) * Sec

PlanSecond ==
  /\ c' = served
  /\ second' = IF served.valid THEN PlannedSecond(served, now) ELSE 0
  /\ at' = IF served.valid THEN DaemonAtUtc(served, PlannedSecond(served, now))
           ELSE HostSecond(now)

\* Reading the served clock again: the second planned is kept, its instant is not.
Moves == c.valid /\ served.valid
Reread == IF Moves THEN served ELSE c
Due == IF Moves THEN DaemonAtUtc(served, second) ELSE at

(* Naming the second and the sentences that go out with it: RMC says       *)
(* whether the clock is synchronised, ZDA is only sent when it is.         *)
Consecutive(slot) == slot = lastSlot + Sec
Labelled(slot) ==
  IF Reread.valid THEN NextLabel(labels, second, Reread.leap, Consecutive(slot))
  ELSE [labels EXCEPT !.have = FALSE]
NoCivil == [day |-> -1, second |-> -1]
Sentences(slot) ==
  [civil  |-> IF Reread.valid THEN CivilOf(Labelled(slot).last) ELSE NoCivil,
   slot   |-> slot,
   status |-> IF Reread.valid /\ Reread.sync THEN "A" ELSE "V"]
NoSentence == [civil |-> NoCivil, slot |-> Never, status |-> "V"]

NoClock == [valid |-> FALSE, sync |-> FALSE, leap |-> FALSE, off |-> 0]

SlotInit ==
  /\ served = NoClock /\ running = TRUE /\ pc = "top" /\ c = NoClock
  /\ second = 0 /\ at = 0 /\ lastSlot = Never /\ labels = NewLabeler /\ sentence = NoSentence

\* External: the Selector publishes.
Publish(clk) ==
  /\ served' = clk
  /\ UNCHANGED <<now, running, pc, c, second, at, lastSlot, labels, sentence>>
=============================================================================
