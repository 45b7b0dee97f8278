---------------------------- MODULE DaemonClock -----------------------------
(***************************************************************************)
(* The clock everything in the daemon is timed by: daemonNow(), a          *)
(* monotonic clock in whole ticks that never runs back.  It starts at 1,   *)
(* because the code keeps 0.0 in a timer that is not running.              *)
(*                                                                         *)
(* The main loop runs a pass and sleeps.  The sleep is one tick, or more   *)
(* when the process is stalled or the machine suspended.                   *)
(***************************************************************************)
EXTENDS Integers

CONSTANTS
  MaxNow,   \* bound on the clock, where it stops
  MaxSleep  \* bound on the length of one sleep

ASSUME MaxNowAssumption == MaxNow \in Nat \ {0} /\ MaxSleep \in Nat \ {0}

VARIABLE now     \* daemonNow()

ClockInit == now = 1

Sleep ==
  \E d \in 1..MaxSleep : now' = IF now + d < MaxNow THEN now + d ELSE MaxNow
=============================================================================
