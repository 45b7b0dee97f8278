----------------------------- MODULE MCOutputs ------------------------------
(***************************************************************************)
(* The two outputs that name seconds, each over a month end at which a     *)
(* leap second may be inserted, announced or not, with a served clock that *)
(* is lost, regained, steps by a fraction of a second, and steps back over *)
(* the leap second at some moment of its own choice; and each over what    *)
(* may go wrong on its other side, the port or the clients.  A behaviour   *)
(* is of one of these parts, chosen at the start.                          *)
(***************************************************************************)
EXTENDS PpsOutput, NmeaServer

CONSTANT Errors  \* how far the served clock may be out, in quarters of a second

ASSUME ErrorsAssumption == \A e \in Errors : e \in Int /\ 2 * e > -Sec /\ 2 * e < Sec  \* under half a second

VARIABLES
  part,     \* which output this behaviour is of
  leapDue,  \* a leap second is inserted before MonthEnd
  counted,  \* the seconds have been counted on since before it, and it was announced
  broken,   \* the count began within the leap second itself
  excused   \* the last sentences sent need not name the true second

vars == <<part, leapDue, counted, broken, excused, slotVars, pulseVars, nmeaVars>>

Init ==
  /\ part \in {"pulse", "port", "nmea", "clients"}
  /\ leapDue \in IF part \in {"pulse", "nmea"} THEN BOOLEAN ELSE {FALSE}
  /\ counted = TRUE /\ broken = FALSE /\ excused = FALSE
  /\ now = (MonthEnd - 2) * Sec
  /\ SlotInit /\ PulseInit /\ NmeaInit
-----------------------------------------------------------------------------
\* The true second a slot marks, counted from the start, and its name.
TrueSecond(slot) == (slot + Sec \div 2) \div Sec
TrueLabel(n) ==
  [posix |-> IF leapDue /\ n > MonthEnd THEN n - 1 ELSE n, leap |-> leapDue /\ n = MonthEnd]
TrueName(n) == CivilOf(TrueLabel(n))
Leapt(t) == leapDue /\ t >= MonthEnd * Sec

\* What the Selector may publish at t: its sources take the leap second when they do, at
\* the earliest in the last second before it by their own reckoning; a clock that has taken
\* it no longer announces it.
Offs == IF part = "pulse" THEN Errors ELSE {0}
Clocks(announcing, offs) ==
  [valid : {TRUE}, sync : IF part = "port" THEN BOOLEAN ELSE {TRUE}, leap : announcing, off : offs]
Stepped(clk) == clk.off < -(Sec \div 2)
ClocksAt(t) ==
  {NoClock}
    \cup Clocks(IF leapDue /\ ~Leapt(t) THEN BOOLEAN ELSE {FALSE}, Offs)
    \cup Clocks({FALSE}, {e - Sec : e \in {e \in Offs : leapDue /\ t + e > (MonthEnd - 1) * Sec}})

PublishAny ==
  /\ running /\ pc \in {"top", "sleep", "wait"} /\ part # "clients"
  /\ \E clk \in ClocksAt(now) : clk # served /\ Publish(clk)
  /\ UNCHANGED <<part, leapDue, counted, broken, excused, pulseVars, nmeaVars>>

(* Whether the count can be held to the truth: it must have run on through *)
(* the leap second, armed, and for no longer than the served clock is      *)
(* given to follow.                                                        *)
Judge ==
  LET n    == TrueSecond(lastSlot')
      told == labels'.announced # Never /\ MonthEnd - labels'.announced <= ArmedFor
      on   == labels.have /\ labels'.have /\ Consecutive(lastSlot')
  IN IF ~leapDue \/ n < MonthEnd
     THEN counted' = TRUE /\ broken' = FALSE
     ELSE /\ counted' = (counted /\ on /\ told /\ n - MonthEnd < CatchUp)
          /\ broken' = IF n = MonthEnd THEN ~on ELSE broken /\ on

(* A name may only be wrong where the clock itself is, with no count to    *)
(* correct it, or where the count began within the leap second.            *)
Excuse ==
  LET n == TrueSecond(lastSlot')
  IN excused' = \/ leapDue /\ n = MonthEnd /\ ~counted'
                \/ leapDue /\ n > MonthEnd /\ ~counted' /\ ~Stepped(c')
                \/ broken'

Names == pc \in {"sleep", "wait"} /\ pc' \in {"top", "hold", "send"}
Track == IF Names THEN Judge /\ (IF sentence' # sentence THEN Excuse ELSE UNCHANGED excused)
         ELSE UNCHANGED <<counted, broken, excused>>

\* The port works in the part about the clock, and the clock in the parts about the port
\* and the clients.
PortWorks == (port => port') /\ (pc = "top" => port')

PulseStep ==
  /\ part \in {"pulse", "port"} /\ PulseNext /\ Track
  /\ part = "pulse" /\ running /\ running' => PortWorks
  /\ UNCHANGED <<part, leapDue, nmeaVars>>

NmeaStep ==
  /\ part \in {"nmea", "clients"} /\ NmeaNext /\ Track
  /\ part = "nmea" => peer' = peer
  /\ UNCHANGED <<part, leapDue, pulseVars>>

Next == PublishAny \/ PulseStep \/ NmeaStep

Spec == Init /\ [][Next]_vars
-----------------------------------------------------------------------------
(* Every second is sent under its own name, 23:59:60 included, whether the *)
(* served clock has stepped back by then, steps later or wavers, and       *)
(* however the thread wakes (PpsLabeler::next, PpsOutput::run).            *)
SecondsNamed ==
  sentence.civil = NoCivil \/ excused \/ sentence.civil = TrueName(TrueSecond(sentence.slot))

(* Two pulses are never closer than half a second, and none is late: a     *)
(* second is not pulsed again when the served clock steps back under it,   *)
(* and a step forward in the sleep skips a pulse sooner than to hurry it.  *)
PulsesApart ==
  [][pulse' # pulse => /\ pulse'.raised - pulse.raised >= Sec \div 2
                       /\ pulse'.raised - pulse'.at <= MaxLate]_vars

(* Outside a pulse the line is raised only with no port to lower it by,    *)
(* and only because the device would not lower it when the port was given  *)
(* up: never while an open port is waited on, never on a port just opened  *)
(* (opening raises it), and after a write that failed in mid-pulse, a      *)
(* pulse that could not be ended or stop() it has been asked to go down    *)
(* (openSerialPps, ~SerialPort, run).  So what a receiver sees as a pulse  *)
(* that never ends takes a device that fails, and ends with the next port  *)
(* that opens.                                                             *)
LineAtRest == line => (pc = "hold" /\ port) \/ (~port /\ refused)

(* A client that reads is sent every second and is never closed, whichever *)
(* of the others stop reading or go in the same turn.                      *)
ReadersServed ==
  \A k \in Clients : running /\ peer[k] = "reading" =>
    /\ \E i \in DOMAIN clients : clients[i] = k
    /\ pc = "top" => k \in heard

(* The state that is reported is the state it is in: pulsing is said with  *)
(* a port to pulse on ("pulsing", "waiting", "no device" or "error").      *)
PulsingIsTrue == state = "pulsing" => port
=============================================================================
