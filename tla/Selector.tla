------------------------------ MODULE Selector ------------------------------
(***************************************************************************)
(* Selector::combine (src/src/Selector.cpp), one pass of it per step:      *)
(* candidates from the sources' snapshots, agreement within each class     *)
(* (Agreement), which class serves (Failover), the intersection and the    *)
(* weighted combination (Intersection), and coasting when nothing serves.  *)
(*                                                                         *)
(* A snapshot's offset is the one already carried to now along the         *)
(* source's rate; Drift is the coast rate plus the doubt in that rate, in  *)
(* units a tick, so the served offset keeps its value while coasting and   *)
(* its dispersion grows.  Served figures are fractions with the            *)
(* denominator of their combination.  path is half the round trip back to  *)
(* a peer's reference; a receiver has none.                                *)
(***************************************************************************)
EXTENDS Failover, Agreement, Intersection

CONSTANTS
  Primary,       \* the sources of the class trusted first
  Radio,         \* the receivers; the other sources are NTP peers
  Station,       \* the station or address each source names, in alphabetical order
  MinSources,    \* how many primary sources must agree
  MinSecondary,  \* ClockConfig::minSecondarySources
  CoastSeconds,  \* how long a coasted time is served as synchronised
  Drift,         \* coastDriftPpm and the doubt in the rate
  MaxAge,        \* SourceSnapshot::maxOffsetAgeSec or kCandidateMaxAgeSec
  WeightUnit     \* the combining weight of a source of quality 1

ASSUME SelectorAssumption ==
  /\ Primary \subseteq Sources /\ Radio \subseteq Sources /\ Station \in [Sources -> Nat]
  /\ MinSources \in Nat /\ MinSecondary \in Nat /\ CoastSeconds \in Nat
  /\ Drift \in Nat /\ MaxAge \in Nat /\ WeightUnit \in Nat \ {0}

VARIABLES
  classDelta,  \* m_classDelta
  lastGood,    \* m_haveLast and the m_lastGood fields
  last         \* m_last, what the servers answer from

selectorVars == <<now, failoverVars, agreementVars, classDelta, lastGood, last>>

MaxStratum == 15
Unsynchronised == 16

\* What combine() knows before any source has served.
NothingServed ==
  [valid |-> FALSE, synchronised |-> FALSE, serving |-> "none", stratum |-> Unsynchronised,
   offset |-> [num |-> 0, den |-> 1], disp |-> 0, path |-> 0, rootDisp |-> 0, refid |-> 0,
   age |-> 0, leap |-> FALSE, used |-> {}]

\* The Combined a Selector holds before its first pass.
Fresh == [NothingServed EXCEPT !.stratum = 1]

NeverGood == [have |-> FALSE, offset |-> [num |-> 0, den |-> 1], disp |-> 0, rootDisp |-> 0,
              at |-> 0, measuredAt |-> 0]

SelectorTypeOK ==
  /\ FailoverTypeOK /\ AgreementTypeOK
  /\ classDelta \in [seeded : BOOLEAN, avg : Int, lastAt : Nat, firstAt : Nat]
  /\ lastGood \in [have : BOOLEAN, offset : [num : Int, den : Nat \ {0}], disp : Nat,
                    rootDisp : Nat, at : Nat, measuredAt : Int]
  /\ last.stratum \in 1..Unsynchronised /\ last.used \subseteq Sources

SelectorInit ==
  /\ FailoverInit /\ AgreementInit
  /\ classDelta = Unmeasured /\ lastGood = NeverGood /\ last = Fresh

-----------------------------------------------------------------------------
\* A slip: a reading of any age will do.
AnyAge(r) == r.ready /\ r.haveOffset /\ r.disp > 0

(* Fresh, measured, and with an interval to intersect on.                  *)
Eligible(r) == r.ready /\ r.age <= MaxAge /\ r.haveOffset /\ r.disp > 0

\* A slip: an old reading claims what a new one would.
NoStaleness(r) == 0

\* What the age of a reading adds to its interval.
Staleness(r) == r.age * Drift

(* What a snapshot asserts now: the older the reading, the wider its       *)
(* interval and the less it weighs, by the inverse square.                 *)
Candidate(r) ==
  LET quality == (IF r.jitter > 0 THEN r.jitter ELSE r.disp) + Staleness(r)
  IN [offset |-> r.offset, dist |-> r.disp + Staleness(r), quality |-> quality,
      w |-> Max({1, WeightUnit \div (quality * quality)})]

(* The smoothed gap between the classes' consensuses, reported and never   *)
(* applied; it is not carried across a pass that misses a class.           *)
ClassDelta(P, S, off) ==
  LET inst == Median2(P, off) - Median2(S, off) IN
  IF P = {} \/ S = {} THEN classDelta' = Unmeasured
  ELSE \E avg \in IF classDelta.seeded
                  THEN Blend(classDelta.avg, inst, now - classDelta.lastAt) ELSE {inst} :
         classDelta' = [seeded |-> TRUE, avg |-> avg, lastAt |-> now,
                        firstAt |-> IF classDelta.seeded THEN classDelta.firstAt ELSE now]

\* The first of the tightest members of S.
Tightest(S, cand) ==
  LET best == {k \in S : \A j \in S : cand[k].quality <= cand[j].quality} IN Min(best)

(* The station with the most weight behind it: the tightest receiver's     *)
(* unless another has strictly more, then the first of those with most.    *)
HeardStation(S, cand) ==
  LET named == {Station[k] : k \in S}
      Weight(t) == SumWeight({k \in S : Station[k] = t}, cand)
      most == {t \in named : \A u \in named : Weight(u) <= Weight(t)}
      tight == Station[Tightest(S, cand)]
  IN IF tight \in most THEN tight ELSE Min(most)

(* One more than the lowest stratum used; a receiver is stratum 0.         *)
ServedStratum(S, snap) ==
  IF S \intersect Radio # {} THEN 1
  ELSE LET s == 1 + Min({snap[k].stratum : k \in S} \union {Unsynchronised})
       IN IF s > MaxStratum THEN MaxStratum ELSE s

\* A slip: the whole root delay taken out.
WholePathOut(S, cand, snap, path) ==
  CombinedDispersion(S, cand) - IF S \intersect Radio # {} THEN 0
                                ELSE 2 * path * SumWeight(S, cand)

(* The root dispersion served with a root delay of 2 * path: the budget    *)
(* without the half path a client adds to it itself, and never less than   *)
(* the part of it that is not path.  In units of 1 / SumWeight.            *)
RootDispersion(S, cand, snap, path) ==
  LET d == CombinedDispersion(S, cand)
      onPath == SumFunction([k \in S \ Radio |-> cand[k].w * Min({snap[k].path, cand[k].dist})])
      less == d - path * SumWeight(S, cand)
  IN IF S \intersect Radio # {} THEN d ELSE Max({less, d - onPath})

\* Serve from the survivors, and keep what a later pass may coast on.
Serve(S, cand, snap) ==
  LET radio == S \intersect Radio
      newest == Min({snap[k].age : k \in S})
      path == IF radio # {} THEN 0 ELSE snap[Tightest(S, cand)].path
      rootDisp == RootDispersion(S, cand, snap, path)
  IN /\ last' = [valid |-> TRUE, synchronised |-> TRUE,
                 serving |-> CASE S \subseteq Primary -> "primary"
                               [] S \intersect Primary = {} -> "secondary"
                               [] OTHER -> "both",
                 stratum |-> ServedStratum(S, snap),
                 offset |-> CombinedOffset(S, cand), disp |-> CombinedDispersion(S, cand),
                 path |-> path, rootDisp |-> rootDisp,
                 refid |-> IF radio # {} THEN HeardStation(radio, cand)
                           ELSE Station[Tightest(S, cand)],
                 age |-> newest, leap |-> \A k \in S : snap[k].leap, used |-> S]
     /\ lastGood' = [have |-> TRUE, offset |-> CombinedOffset(S, cand),
                     disp |-> CombinedDispersion(S, cand), rootDisp |-> rootDisp,
                     at |-> now, measuredAt |-> now - newest]

\* A slip: the default of Combined left in place.
StratumDefault == 1

\* A coasted answer is still its source's, so the stratum travels with it.
CoastStratum == last.stratum

\* What the claim has lost since the last good pass, on the served denominator.
Growth == (now - lastGood.at) * Drift * lastGood.offset.den

(* Nothing serves: carry the last good offset on, with its stratum and     *)
(* reference, and let the honesty about it decay.                          *)
Coast ==
  /\ last' = IF ~lastGood.have THEN NothingServed
             ELSE [last EXCEPT !.valid = TRUE, !.serving = "coasting",
                     !.synchronised = now - lastGood.at <= CoastSeconds,
                     !.offset = lastGood.offset, !.stratum = CoastStratum,
                     !.disp = lastGood.disp + Growth, !.rootDisp = lastGood.rootDisp + Growth,
                     !.age = now - lastGood.measuredAt, !.leap = FALSE, !.used = {}]
  /\ UNCHANGED lastGood

\* The candidates that may serve in this pass.
Pool(P, S, over) ==
  CASE SecondaryMode = "always" -> P \union S
    [] SecondaryMode # "always" /\ over -> S
    [] OTHER -> P

\* The minimum that must agree: the primary's, if any of the pool is primary.
MinToServe(pool) == IF pool \intersect Primary # {} THEN MinSources ELSE MinSecondary

\* One pass of combine() over the sources' snapshots.
Combine(snap) ==
  LET E == {s \in Sources : Eligible(snap[s])} IN
  \E cand \in {[s \in E |-> Candidate(snap[s])]} :
  \E off \in {[s \in E |-> cand[s].offset]} :
    /\ Judge(E \intersect Primary, E \ Primary, off)
    /\ \E P \in {(E \intersect Primary) \ refused'}, S \in {(E \ Primary) \ refused'} :
         /\ ClassDelta(P, S, off)
         /\ ClassStep(Cardinality(P) >= MinSources /\ P # {},
                      Cardinality(S) >= MinSecondary /\ S # {})
         /\ \E pool \in {Pool(P, S, onSecondary')} :
            \E used \in {Survivors(pool, cand, lastGood.have, lastGood.offset)} :
              IF Cardinality(used) >= MinToServe(pool) /\ used # {}
              THEN Serve(used, cand, snap) ELSE Coast
=============================================================================
