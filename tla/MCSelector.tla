----------------------------- MODULE MCSelector -----------------------------
(***************************************************************************)
(* The selector fed by sources that lose and regain their readings.  The   *)
(* truth, the offset the daemon clock really has, wanders by at most Drift *)
(* a tick.  An honest source's interval has it at one of its ends, where   *)
(* there is nothing to spare; a liar reports what it likes.                *)
(***************************************************************************)
EXTENDS Selector

CONSTANTS
  Liars,   \* the sources whose interval need not contain the truth
  Lie,     \* how far from zero they report, either way
  Ages,    \* the ages of readings
  Truths   \* the offsets the daemon clock may really have

ASSUME TruthAssumption ==
  /\ Liars \subseteq Sources /\ Lie \in Int /\ Truths \subseteq Int
  /\ Ages \subseteq Nat

\* Receivers hear one of two stations; every peer has an address of its own.
StationNames == [s \in Sources |-> IF s \in Radio THEN s % 2 ELSE s + 2]

VARIABLES
  truth,       \* the offset the daemon clock really has
  origin,      \* history: the sources the last served offset came from
  originTier,  \* history: the lowest stratum among them, a receiver's being 0
  unservedFrom \* history: the first of the run of passes that served nothing although
               \* the secondary could have, 0 if the last pass is not of that kind

vars == <<selectorVars, truth, origin, originTier, unservedFrom>>

Init ==
  /\ SelectorInit
  /\ truth \in Truths /\ origin = {} /\ originTier = Unsynchronised /\ unservedFrom = 0

NotReady == [ready |-> FALSE, haveOffset |-> FALSE, age |-> 0, offset |-> 0, disp |-> 0,
             jitter |-> 0, stratum |-> 0, path |-> 0, leap |-> FALSE]

(* What a source may show in a pass: nothing, a reading too old to use, or *)
(* a usable one of some age at one end of what it may say.                 *)
Shapes == {<<"none">>, <<"old">>} \union ({"usable"} \X Ages \X {-1, 1})

Reading(s, shape) ==
  LET disp == IF s \in Radio THEN 1 ELSE 2
      age == IF shape[1] = "old" THEN MaxAge + 1 ELSE shape[2]
      off == CASE shape[1] = "old" -> 0
               [] shape[1] = "usable" /\ s \in Liars -> shape[3] * Lie
               [] OTHER -> truth + shape[3] * (disp + age * Drift)
  IN IF shape[1] = "none" THEN NotReady
     ELSE [ready |-> TRUE, haveOffset |-> TRUE, age |-> age, offset |-> off, disp |-> disp,
           jitter |-> 1, stratum |-> disp, path |-> IF s \in Radio THEN 0 ELSE disp, leap |-> FALSE]

SecondaryReady(snap) ==
  LET S == {s \in Sources \ Primary : Eligible(snap[s])} \ refused'
  IN S # {} /\ Cardinality(S) >= MinSecondary

Next ==
  \E shape \in [Sources -> Shapes] : \E snap \in {[s \in Sources |-> Reading(s, shape[s])]} :
    /\ Combine(snap)
    /\ Sleep
    /\ truth' \in {t \in Truths : Abs(t - truth) <= Drift * (now' - now)}
    /\ origin' = IF last'.used = {} THEN origin ELSE last'.used
    /\ originTier' = IF last'.used = {} THEN originTier
                     ELSE Min({IF s \in Radio THEN 0 ELSE snap[s].stratum : s \in last'.used})
    /\ unservedFrom' = CASE last'.used # {} \/ ~SecondaryReady(snap) -> 0
                         [] unservedFrom > 0 /\ last'.used = {} /\ SecondaryReady(snap) -> unservedFrom
                         [] OTHER -> now

Spec == Init /\ [][Next]_vars

-----------------------------------------------------------------------------
\* A time served as synchronised is within its dispersion of the truth.
ServedCoversTruth ==
  last'.synchronised => Abs(truth * last'.offset.den - last'.offset.num) <= last'.disp

\* The same for what a client computes from the wire, half the root delay
\* plus the root dispersion: taking the path out of the root dispersion never
\* takes out more than the root delay puts back.
ClientBudgetCoversTruth ==
  last'.synchronised =>
    Abs(truth * last'.offset.den - last'.offset.num) <= last'.path * last'.offset.den + last'.rootDisp

\* The stratum and the reference served are those of the sources the offset
\* came from, as long as it is served, coasted or not.
StratumOfOrigin ==
  last.synchronised => last.stratum = originTier + 1 /\ \E s \in origin : last.refid = Station[s]

\* A synchronised answer rests on a measurement no older than the age limit
\* of a candidate and the coast limit together.
SynchronisedIsRecent == last.synchronised => last.age <= MaxAge + CoastSeconds

(* An honest clock: while every source is honest, the dispersion served,   *)
(* and what a client makes of it, cover the truth through ageing readings, *)
(* failover, failback and coasting ("the clock keeps counting, and the     *)
(* honesty about it decays", Selector.cpp); and the stratum, the reference *)
(* and the age said of it are those of the readings it rests on ("serving  *)
(* stratum 1 off a pool server would be a lie").                           *)
ServedHonestly ==
  [][/\ ServedCoversTruth /\ ClientBudgetCoversTruth
     /\ StratumOfOrigin' /\ SynchronisedIsRecent']_vars

(* "the secondary's candidates are held out of the intersection while the  *)
(* primary can serve, and swapped in when it cannot -- after a hold-down"  *)
(* (Selector.h): with a usable secondary, nothing is served for no longer  *)
(* than the failover delay and one sleep.                                  *)
SwappedInWhenPrimaryCannotServe ==
  unservedFrom > 0 => now - unservedFrom <= FailoverAfter + 2 * MaxSleep
=============================================================================
