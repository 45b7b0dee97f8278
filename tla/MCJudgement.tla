---------------------------- MODULE MCJudgement -----------------------------
(***************************************************************************)
(* The three judgements of a pass, each on its own and further than the    *)
(* composed Selector can be taken: which class serves, over many switches; *)
(* which receivers of a class are refused, over many passes; and which     *)
(* candidates survive, for every small set of them.  And the Selector      *)
(* composed of them, for fewer sources and passes.                         *)
(***************************************************************************)
EXTENDS MCSelector

CONSTANTS
  Composing,    \* the sources of the composed Selector
  ComposedMode, \* ...its mode
  ComposedNow,  \* ...and the bound on its clock
  JudgedNow,  \* bound on the clock where a class is judged
  Honest,     \* the sources that read the right second edge
  Readings,   \* what each source may report
  NumCandidates, Offsets, Distances, Weights

ASSUME ReadingsAssumption ==
  /\ JudgedNow \in Nat \ {0} /\ Honest \subseteq Sources /\ \A s \in Sources : Readings[s] \subseteq Int
  /\ \A s, r \in Honest : \A x \in Readings[s], y \in Readings[r] : x - y <= Limit
ASSUME CandidateAssumption ==
  /\ NumCandidates \in Nat \ {0}
  /\ Offsets \subseteq Int /\ Distances \subseteq Nat \ {0} /\ Weights \subseteq Nat \ {0}

\* A steady receiver, one that wavers within the limit, and one that may read a wrong edge.
SteadyWaveringWrong == <<{0}, {0, 1}, {0, 5}>>

VARIABLES
  part,      \* the judgement a behaviour is about
  majority,  \* history: honest sources outnumbered the others in every pass that judged
  cand,      \* the candidates of an intersection
  haveLast,  \* whether a time has been served before
  ref,       \* ...and which offset it had
  used       \* the survivors; empty before the pass

classVars == <<agreementVars, majority>>
candVars == <<cand, haveLast, ref>>
judgementVars == <<part, now, failoverVars, classVars, candVars, used>>

ByTheTick == INSTANCE DaemonClock WITH MaxNow <- JudgedNow, MaxSleep <- 1

Entrants == 1..NumCandidates

JudgementInit ==
  /\ part \in {"failover", "agreement", "intersection"}
  /\ FailoverInit /\ AgreementInit /\ majority = TRUE
  /\ IF part = "intersection"
     THEN /\ cand \in [Entrants -> [offset : Offsets, dist : Distances, w : Weights]]
          /\ haveLast \in BOOLEAN
          /\ ref \in {[num |-> o, den |-> 1] : o \in IF haveLast THEN Offsets ELSE {0}}
     ELSE cand = <<>> /\ haveLast = FALSE /\ ref = [num |-> 0, den |-> 1]
  /\ used = {}

\* The latch, fed what each class could do in each pass.
Switch ==
  /\ part = "failover" /\ FailoverNext
  /\ UNCHANGED <<part, classVars, candVars, used>>

\* A class of receivers that come and go, judged pass after pass.
Pass ==
  /\ part = "agreement"
  /\ \E A \in SUBSET Sources :
     \E off \in [A -> UNION {Readings[s] : s \in A}] :
       /\ \A s \in A : off[s] \in Readings[s]
       /\ Judge(A, {}, off)
       /\ majority' = (majority /\ (Enough(A) =>
                         Cardinality(A \intersect Honest) > Cardinality(A \ Honest)))
  /\ ByTheTick!Sleep
  /\ UNCHANGED <<part, failoverVars, candVars, used>>

\* One intersection, with or without a served time to be continuous with.
Intersect ==
  /\ part = "intersection" /\ used = {} /\ used' = Survivors(Entrants, cand, haveLast, ref)
  /\ UNCHANGED <<part, now, failoverVars, classVars, candVars>>

Done == used # {}
Over == Done /\ UNCHANGED judgementVars

JudgementNext == Switch \/ Pass \/ Intersect \/ Over

JudgementSpec == JudgementInit /\ [][JudgementNext]_judgementVars

\* The pass as a whole, a tick after the other.
Composed == INSTANCE MCSelector
              WITH Sources <- Composing, SecondaryMode <- ComposedMode,
                   MaxNow <- ComposedNow, MaxSleep <- 1

servedVars == <<classDelta, lastGood, last, truth, origin, originTier, unservedFrom>>

ComposedInit ==
  /\ part = "selector" /\ Composed!Init
  /\ majority = TRUE /\ cand = <<>> /\ haveLast = FALSE /\ ref = [num |-> 0, den |-> 1] /\ used = {}

ComposedPass == part = "selector" /\ Composed!Next /\ UNCHANGED <<part, majority, candVars, used>>

SelectingSpec ==
  /\ (JudgementInit /\ Init /\ truth = 0) \/ ComposedInit
  /\ [][(JudgementNext /\ UNCHANGED servedVars) \/ ComposedPass]_<<vars, judgementVars>>
-----------------------------------------------------------------------------
(* One receiver that is badly wrong does not get the good ones refused: as *)
(* long as the honest outnumber the others in every judging pass, no       *)
(* honest source is ever refused, however the class changes from pass to   *)
(* pass (Selector.cpp, "the median of three survives one outlier").        *)
HonestNeverRefused == majority => refused \intersect Honest = {}
-----------------------------------------------------------------------------
\* The largest number of intervals with more than a point in common.
OverlapAt(x) == Cardinality({k \in Entrants : Lo(cand, k) <= x /\ x < Hi(cand, k)})
LargestOverlap == Max({OverlapAt(x) : x \in {Lo(cand, k) : k \in Entrants}})

\* The sweep's peak is the size of the largest overlap, and no set of
\* candidates that agree is larger than the surviving one.
LargestSetSurvives ==
  /\ NumCandidates > 1 => Best(Entrants, cand) = LargestOverlap
  /\ Cardinality(used) >= LargestOverlap

\* The survivors' intervals share a point: a source that is confidently wrong
\* is not averaged in.
SurvivorsShareAPoint == Max({Lo(cand, k) : k \in used}) <= Min({Hi(cand, k) : k \in used})

\* Whatever point every survivor's interval contains, the truth included, and
\* every survivor's own reading, is within the dispersion of the served offset.
ServedIntervalCoversTruth ==
  LET o == CombinedOffset(used, cand)
      common == Max({Lo(cand, k) : k \in used})..Min({Hi(cand, k) : k \in used})
  IN \A x \in common \union {cand[k].offset : k \in used} :
       Abs(x * o.den - o.num) <= CombinedDispersion(used, cand)

\* When a set as large as any other still contains the served time, the set
\* kept does too.
TieKeepsServedTime ==
  haveLast /\ NumCandidates > 1 =>
    LET Contains(r) == r.lo * ref.den <= ref.num /\ ref.num <= r.hi * ref.den
    IN (\E r \in Regions(Entrants, cand) : Contains(r))
         => \E k \in used : Lo(cand, k) <= ref.num /\ ref.num <= Hi(cand, k)

(* The intersection against its definition: the survivors are a largest    *)
(* set of intervals with a point in common (Selector.h), of two such sets  *)
(* the one with the served time in it, and the answer's dispersion covers  *)
(* every time on which the survivors agree and each of their readings      *)
(* ("survivors that disagree with each other must widen the answer").      *)
IntersectionHonest ==
  Done => /\ LargestSetSurvives /\ SurvivorsShareAPoint
          /\ ServedIntervalCoversTruth /\ TieKeepsServedTime
=============================================================================
