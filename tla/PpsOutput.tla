----------------------------- MODULE PpsOutput ------------------------------
(***************************************************************************)
(* The pulse on a serial line (Pps.cpp, class PpsOutput): one thread that  *)
(* opens the port, raises the line at each second of a synchronised clock, *)
(* writes the sentences and lowers the line again.                         *)
(***************************************************************************)
EXTENDS PpsLabeler

CONSTANTS
  Reopen,   \* kReopenSec, in quarters of a second
  Width,    \* width_ms, likewise
  MaxLate,  \* kMaxLateSec, likewise
  Delays    \* how late a sleep may end

ASSUME PulseAssumption ==
  /\ Reopen \in Nat /\ Width \in Nat /\ Delays \subseteq Nat
  /\ MaxLate \in Nat /\ MaxLate <= Sec \div 4  \* 50 ms in the code

VARIABLES
  port,    \* the port is open
  openAt,  \* nextOpenAt
  line,    \* the modem-control line: raised or at rest
  refused, \* history: the line was not lowered when the port was last closed
  state,   \* m_stats.state
  event,   \* the last of PpsPulsing and PpsStopped added to the event log
  pulse    \* the instant of the last pulse, and its lateness

pulseVars == <<port, openAt, line, refused, state, event, pulse>>

PulseInit ==
  /\ port = FALSE /\ openAt = Never /\ line = FALSE /\ refused = FALSE /\ state = "off" /\ event = "none"
  /\ pulse = [at |-> Never, raised |-> Never]

\* setState: an event when pulsing begins or ends.
SetState(s) ==
  /\ state' = s
  /\ event' = CASE s = "pulsing" /\ state # "pulsing" -> "pulsing"
                [] s # "pulsing" /\ state = "pulsing" -> "stopped"
                [] OTHER -> event

Same == UNCHANGED <<state, event>>

\* Slip: the destructor only closes the port.
ClosedAsIs(level, lowered) == level
\* ~SerialPort asks for the line to be at rest before it closes; that can fail like any
\* other setting of it, and with HUPCL cleared the line then stays as it is.
Closed(level, lowered) == IF lowered THEN FALSE ELSE level

ClosePort(level, lowered) ==
  port' = FALSE /\ line' = Closed(level, lowered) /\ refused' = ~lowered

(* openSerialPps: opening raises the line, and a port is had only when it  *)
(* could be put at rest again; one that is opened and given up is closed   *)
(* with the line lowered or not.                                           *)
OpenPort ==
  IF port \/ now < openAt
  THEN UNCHANGED <<port, openAt, line, refused>> /\ Same
  ELSE \/ port' = TRUE /\ line' = FALSE /\ refused' = FALSE /\ UNCHANGED openAt /\ Same
       \/ /\ openAt' = now + Reopen
          /\ \/ /\ UNCHANGED <<port, line, refused>>
                /\ \E s \in {"no device", "error"} : SetState(s)
             \/ /\ \E lowered \in BOOLEAN : ClosePort(TRUE, lowered)
                /\ SetState("error")

\* The top of the loop.
PulsePlan ==
  /\ pc = "top" /\ running /\ now < MaxSlot
  /\ OpenPort /\ PlanSecond
  /\ pc' = "sleep"
  /\ UNCHANGED <<now, served, running, lastSlot, labels, sentence, pulse>>

(* From the sleep to the sentences: the line is raised on time or not at   *)
(* all, and the port is given up when the line cannot be set or the        *)
(* sentences not written.                                                  *)
Act(delay, lineSet, wrote, lowered) ==
  LET t      == Later(Later(now, at) + delay, Due)
      sync   == Reread.valid /\ Reread.sync
      wanted == port /\ sync /\ t - Due <= MaxLate
      pulsed == wanted /\ lineSet
      alive  == port /\ (wanted => lineSet) /\ wrote
  IN /\ pc = "sleep" /\ running
     /\ wanted \/ lineSet
     /\ (port /\ ~alive) \/ lowered
     /\ now' = t /\ c' = Reread /\ at' = Due /\ lastSlot' = Due
     /\ labels' = Labelled(Due)
     /\ sentence' = IF port /\ (wanted => lineSet) THEN Sentences(Due) ELSE sentence
     /\ IF port /\ ~alive THEN ClosePort(line \/ pulsed, lowered)
        ELSE line' = (line \/ pulsed) /\ UNCHANGED <<port, refused>>
     /\ pulse' = IF pulsed THEN [at |-> Due, raised |-> t] ELSE pulse
     /\ openAt' = IF port /\ ~alive THEN t + Reopen ELSE openAt
     /\ CASE pulsed -> SetState("pulsing")
          [] ~pulsed /\ port /\ ~alive -> SetState("error")
          [] ~pulsed /\ alive /\ ~sync -> SetState("waiting")
          [] OTHER -> Same
     /\ pc' = IF pulsed THEN "hold" ELSE "top"
     /\ UNCHANGED <<served, running, second>>

(* The end of the pulse.  The port may be gone by then; if the line cannot *)
(* be lowered now, giving up the port asks once more.                      *)
EndPulse(delay, lineSet, lowered) ==
  /\ pc = "hold" /\ running
  /\ port \/ lineSet
  /\ ~lineSet \/ lowered
  /\ now' = Later(now, at + Width) + delay
  /\ CASE ~lineSet -> ClosePort(line, lowered) /\ openAt' = now' + Reopen /\ SetState("error")
       [] lineSet /\ port -> line' = FALSE /\ UNCHANGED <<port, refused, openAt>> /\ Same
       [] lineSet /\ ~port -> UNCHANGED <<port, line, refused, openAt>> /\ Same
  /\ pc' = "top"
  /\ UNCHANGED <<served, running, c, second, at, lastSlot, labels, sentence, pulse>>

\* Whatever the thread is in, it gives up the port, if it has one.
EndThread(lowered) ==
  /\ ~running /\ pc # "done"
  /\ port \/ lowered
  /\ pc' = "done"
  /\ IF port THEN ClosePort(line, lowered) ELSE UNCHANGED <<port, line, refused>>
  /\ UNCHANGED <<now, served, running, c, second, at, lastSlot, labels, sentence, openAt, state,
                 event, pulse>>

StopOutput ==
  /\ running /\ running' = FALSE
  /\ UNCHANGED <<now, served, pc, c, second, at, lastSlot, labels, sentence>>

PulseNext ==
  \/ PulsePlan
  \/ \E d \in Delays, lineSet, lowered \in BOOLEAN :
       EndPulse(d, lineSet, lowered) \/ \E wrote \in BOOLEAN : Act(d, lineSet, wrote, lowered)
  \/ \E lowered \in BOOLEAN : EndThread(lowered)
  \/ StopOutput /\ UNCHANGED pulseVars
=============================================================================
