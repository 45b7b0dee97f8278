------------------------------ MODULE Agreement -----------------------------
(***************************************************************************)
(* The agreement test of Selector::combine (src/src/Selector.cpp): each    *)
(* candidate's running disagreement with the median of its own class, the  *)
(* verdict on it, and the doubling wait after which a source that stays    *)
(* refused is told to acquire from nothing.                                *)
(*                                                                         *)
(* Offsets are whole units and residuals half units, because the median of *)
(* an even class is a mean of two.  An absent entry of m_residualAvg or    *)
(* m_reacquire is the record of zeros the code would create for it.        *)
(***************************************************************************)
EXTENDS DaemonClock, FiniteSets, FiniteSetsExt

CONSTANTS
  Sources,         \* the configured sources, numbered in the order of the snapshots
  Tau,             \* kResidualTauSec
  Settle,          \* kResidualSettleSec
  Limit,           \* kMaxDisagreementSec
  ReacquireAfter,  \* kReacquireAfterSec
  ReacquireMax     \* kReacquireMaxSec

ASSUME SourcesAssumption == Sources \subseteq Nat /\ IsFiniteSet(Sources)
ASSUME AgreementAssumption ==
  /\ Tau \in Nat \ {0} /\ Settle \in Nat \ {0} /\ Limit \in Nat
  /\ ReacquireAfter \in Nat \ {0} /\ ReacquireMax \in Nat /\ ReacquireMax >= ReacquireAfter

VARIABLES
  residual,    \* m_residualAvg: [seeded, avg, lastAt, firstAt] of each source
  reacquire,   \* m_reacquire: [since, count] of each source
  refused,     \* the sources the last pass refused
  reacquired,  \* Combined::reacquireNames of the last pass
  orderedAt,   \* history: when each source was last told to start over, 0 if never
  refusedFrom  \* history: the first refusal of a source since it was last accepted or sent back

agreementVars == <<residual, reacquire, refused, reacquired, orderedAt, refusedFrom>>

Unmeasured == [seeded |-> FALSE, avg |-> 0, lastAt |-> 0, firstAt |-> 0]

AgreementTypeOK ==
  /\ residual \in [Sources -> [seeded : BOOLEAN, avg : Int, lastAt : Nat, firstAt : Nat]]
  /\ reacquire \in [Sources -> [since : Nat, count : Nat]]
  /\ refused \subseteq Sources /\ reacquired \subseteq refused
  /\ orderedAt \in [Sources -> Nat]
  /\ refusedFrom \in [Sources -> Nat]

AgreementInit ==
  /\ residual = [s \in Sources |-> Unmeasured]
  /\ reacquire = [s \in Sources |-> [since |-> 0, count |-> 0]]
  /\ refused = {} /\ reacquired = {}
  /\ orderedAt = [s \in Sources |-> 0]
  /\ refusedFrom = [s \in Sources |-> 0]

-----------------------------------------------------------------------------
\* The value at place n when the offsets of C are sorted.
AtRank(C, off, n) ==
  off[CHOOSE s \in C :
        Cardinality({j \in C : off[j] < off[s] \/ (off[j] = off[s] /\ j <= s)}) = n]

\* Twice the median, self included: the class consensus.
Median2(C, off) ==
  LET n == Cardinality(C)
  IN IF C = {} THEN 0 ELSE AtRank(C, off, (n + 1) \div 2) + AtRank(C, off, n \div 2 + 1)

\* A slip, and the code's earlier rule: against the median of the peers alone.
LeaveOneOut2(C, off, s) == 2 * off[s] - Median2(C \ {s}, off)

\* A source's disagreement with the consensus now, in half units.
Instant2(C, off, s) == 2 * off[s] - Median2(C, off)

\* kMinPeersToJudge others of its class: below that a residual proves nothing.
Enough(C) == Cardinality(C) - 1 >= 2

(* The averages 1 - exp(-dt / Tau) of the way from avg to inst, on the     *)
(* grid of half units: y / (1 + y) <= 1 - exp(-y) <= min(1, y), rounded    *)
(* outwards.                                                               *)
Blend(avg, inst, dt) ==
  LET gap   == IF inst >= avg THEN inst - avg ELSE avg - inst
      least == (dt * gap) \div (Tau + dt)
      most  == IF dt >= Tau THEN gap ELSE (dt * gap + Tau - 1) \div Tau
  IN {IF inst >= avg THEN avg + d ELSE avg - d : d \in least..most}

\* What a candidate's average may become in this pass.
Averages(C, off, s) ==
  CASE ~Enough(C) -> {residual[s].avg}
    [] Enough(C) /\ ~residual[s].seeded -> {Instant2(C, off, s)}
    [] OTHER -> Blend(residual[s].avg, Instant2(C, off, s), now - residual[s].lastAt)

\* The average is kept from the first reading against enough peers.
FirstAt(C, s) == IF Enough(C) /\ ~residual[s].seeded THEN now ELSE residual[s].firstAt

\* The consensus is entitled to a verdict: enough peers, and for long enough.
Judged(C, s) == Enough(C) /\ now - FirstAt(C, s) >= Settle

Refused(C, s, avg) == Judged(C, s) /\ (avg > 2 * Limit \/ avg < -2 * Limit)

\* The wait before a refused source starts over doubles up to a ceiling.
Wait(count) ==
  LET doubled == ReacquireAfter * 2^count
  IN IF doubled < ReacquireMax THEN doubled ELSE ReacquireMax

RefusedSince(s) == IF reacquire[s].since <= 0 THEN now ELSE reacquire[s].since

\* The refused source has waited long enough: send it back.
StartOver(s) == now - RefusedSince(s) >= Wait(reacquire[s].count)

\* A slip: a source not judged loses its timer.
TimerLost(C, s, avg) ==
  CASE Refused(C, s, avg) /\ StartOver(s) -> [since |-> 0, count |-> reacquire[s].count + 1]
    [] Refused(C, s, avg) /\ ~StartOver(s) -> [reacquire[s] EXCEPT !.since = RefusedSince(s)]
    [] OTHER -> [reacquire[s] EXCEPT !.since = 0]

(* The timer and the count after a verdict.  A source that could not be    *)
(* judged was not accepted, so its timer holds.                            *)
Reacquire(C, s, avg) ==
  CASE Refused(C, s, avg) /\ StartOver(s)  -> [since |-> 0, count |-> reacquire[s].count + 1]
    [] Refused(C, s, avg) /\ ~StartOver(s) -> [reacquire[s] EXCEPT !.since = RefusedSince(s)]
    [] Judged(C, s) /\ ~Refused(C, s, avg) -> [since |-> 0, count |-> 0]
    [] OTHER -> reacquire[s]

\* A slip: a source sent back keeps the average of the lock it abandons.
AverageKept(C, s, avg) ==
  [seeded |-> residual[s].seeded \/ Enough(C), avg |-> avg,
   lastAt |-> now, firstAt |-> FirstAt(C, s)]

\* A source sent back is judged afresh; any other keeps its average.
Residual(C, s, avg) ==
  IF Refused(C, s, avg) /\ StartOver(s) THEN Unmeasured
  ELSE [seeded |-> residual[s].seeded \/ Enough(C), avg |-> avg,
        lastAt |-> now, firstAt |-> FirstAt(C, s)]

(* One pass over both classes, P and S their candidates.  The classes      *)
(* never vote on each other.                                               *)
Judge(P, S, off) ==
  LET Class(s) == IF s \in P THEN P ELSE S
      All == P \union S
  IN \E may \in {[s \in All |-> Averages(Class(s), off, s)]} :
     \E avg \in {f \in [All -> UNION {may[s] : s \in All}] : \A s \in All : f[s] \in may[s]} :
       /\ refused' = {s \in All : Refused(Class(s), s, avg[s])}
       /\ reacquired' = {s \in refused' : StartOver(s)}
       /\ residual' = [s \in Sources |->
            IF s \in All THEN Residual(Class(s), s, avg[s]) ELSE residual[s]]
       /\ reacquire' = [s \in Sources |->
            IF s \in All THEN Reacquire(Class(s), s, avg[s]) ELSE reacquire[s]]
       /\ orderedAt' = [s \in Sources |-> IF s \in reacquired' THEN now ELSE orderedAt[s]]
       /\ refusedFrom' = [s \in Sources |->
            CASE s \in reacquired' \/ (s \in All /\ Judged(Class(s), s) /\ s \notin refused') -> 0
              [] s \in refused' \ reacquired' /\ refusedFrom[s] = 0 -> now
              [] OTHER -> refusedFrom[s]]
-----------------------------------------------------------------------------
\* A source that is never accepted reconnects less and less often: between
\* two orders to start over lie the pass that starts its average afresh, the
\* settling time and the wait of its backoff, which has doubled by then.
OrdersSpaced ==
  \A s \in reacquired' :
    orderedAt[s] > 0 => now - orderedAt[s] > Settle + Wait(reacquire[s].count)

\* Recovery does not depend on the peers staying: a source refused, and
\* never since accepted, for its whole wait is sent back by the next pass
\* that refuses it, whatever time it spent unjudged or out of sight.
RecoveryNotPostponed ==
  \A s \in refused' \ reacquired' :
    refusedFrom[s] > 0 => now - refusedFrom[s] < Wait(reacquire[s].count)

(* The wait of a refused source (Selector.cpp, m_reacquire) neither        *)
(* shrinks while it is not accepted nor stretches while it is not judged.  *)
ReacquirePaced == [][OrdersSpaced /\ RecoveryNotPostponed]_<<now, agreementVars>>
=============================================================================
