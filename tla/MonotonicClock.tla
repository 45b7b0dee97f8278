--------------------------- MODULE MonotonicClock ---------------------------
(***************************************************************************)
(* The clock the NTP service counts by (src/src/SampleClock.h, monotonic-  *)
(* Now): it only goes forward.  A listener reads it before it takes a      *)
(* lock, so a call may come with a time that is behind the clock and       *)
(* behind the time of a call already made, by at most MaxSkew.             *)
(***************************************************************************)
EXTENDS Integers

CONSTANTS
  Second,   \* ticks in a second
  MaxSkew,  \* the longest a listener is held up between the clock and the lock
  MaxNow    \* bound of the model

ASSUME ClockAssumption == Second \in Nat \ {0} /\ MaxSkew \in Nat /\ MaxNow \in Nat

VARIABLE now

Larger(x, y) == IF x > y THEN x ELSE y
Smaller(x, y) == IF x < y THEN x ELSE y

\* The times a call may come with.
Stamps == Larger(0, now - MaxSkew)..now

AdvanceClock == now < MaxNow /\ now' = now + 1
=============================================================================
