---------------------------- MODULE Intersection ----------------------------
(***************************************************************************)
(* Steps 2 and 3 of Selector::combine (src/src/Selector.cpp): the largest  *)
(* set of candidates whose asserted intervals overlap, the choice between  *)
(* sets that tie, and the weighted combination of the survivors.           *)
(*                                                                         *)
(* A candidate k of the set C is a record cand[k]: its offset carried to   *)
(* now, its distance (the half-width of the interval it asserts, always    *)
(* positive) and its combining weight, weight / quality^2.  Candidates are *)
(* numbers, in the order the code holds them.  Offsets, distances and      *)
(* weights are whole units; a combined figure is a fraction with the sum   *)
(* of the weights as its denominator, so that nothing is rounded.          *)
(***************************************************************************)
EXTENDS Integers, FiniteSets, FiniteSetsExt

Lo(cand, k) == cand[k].offset - cand[k].dist
Hi(cand, k) == cand[k].offset + cand[k].dist
Abs(x) == IF x < 0 THEN -x ELSE x

\* A slip: opening edges taken first where edges coincide.
OpenBeforeClose(C, cand, k) ==
  LET at == Lo(cand, k) IN
  Cardinality({j \in C : Lo(cand, j) < at \/ (Lo(cand, j) = at /\ j <= k)})
    - Cardinality({j \in C : Hi(cand, j) < at})

(* How many intervals are open once the sweep has taken k's opening edge.  *)
(* Edges go by coordinate, closing ones first where they coincide.         *)
OpenAfter(C, cand, k) ==
  LET at == Lo(cand, k) IN
  Cardinality({j \in C : Lo(cand, j) < at \/ (Lo(cand, j) = at /\ j <= k)})
    - Cardinality({j \in C : Hi(cand, j) <= at})

\* The peak of that count.
Best(C, cand) == Max({OpenAfter(C, cand, k) : k \in C})

(* Every stretch where the count peaks: from the opening edge that reached *)
(* it to the next edge.  More than one is a tie.                           *)
Regions(C, cand) ==
  LET best == Best(C, cand)
      ends == {Lo(cand, j) : j \in C} \union {Hi(cand, j) : j \in C}
  IN {[lo |-> Lo(cand, k), hi |-> Min({e \in ends : e > Lo(cand, k)})] :
        k \in {j \in C : OpenAfter(C, cand, j) = best}}

\* A slip: any candidate that meets the region, not just its beginning.
MeetsRegion(cand, k, r) == Lo(cand, k) <= r.hi /\ r.lo <= Hi(cand, k)

\* Whether a candidate's interval contains the beginning of a region.
InRegion(cand, k, r) == Lo(cand, k) <= r.lo /\ r.lo <= Hi(cand, k)

(* How far the served offset ref.num / ref.den lies outside a region, in   *)
(* units of 1 / ref.den.                                                   *)
Away(ref, r) ==
  CASE ref.num < r.lo * ref.den -> r.lo * ref.den - ref.num
    [] ref.num > r.hi * ref.den -> ref.num - r.hi * ref.den
    [] OTHER -> 0

\* The summed weight of the candidates in a region.
Score(C, cand, r) == SumFunction([k \in {j \in C : InRegion(cand, j, r)} |-> cand[k].w])

\* A slip, and the code's earlier rule: whichever sorts first.
PickLowest(C, cand, haveLast, ref) ==
  LET rs == Regions(C, cand) IN CHOOSE r \in rs : \A q \in rs : r.lo <= q.lo

(* The region kept: the one continuous with what has been served or, with  *)
(* nothing served yet, the best measured; the first of equals.             *)
Pick(C, cand, haveLast, ref) ==
  LET rs == Regions(C, cand)
      Better(r, q) == IF haveLast THEN Away(ref, r) < Away(ref, q)
                                  ELSE Score(C, cand, r) > Score(C, cand, q)
  IN CHOOSE r \in rs : \A q \in rs : ~Better(q, r) /\ (~Better(r, q) => r.lo <= q.lo)

\* The candidates that survive: a lone one always does.
Survivors(C, cand, haveLast, ref) ==
  IF Cardinality(C) <= 1 THEN C
  ELSE LET pick == Pick(C, cand, haveLast, ref) IN {k \in C : InRegion(cand, k, pick)}

-----------------------------------------------------------------------------
SumWeight(S, cand) == SumFunction([k \in S |-> cand[k].w])

\* The weighted mean of the survivors' offsets.
CombinedOffset(S, cand) ==
  [num |-> SumFunction([k \in S |-> cand[k].w * cand[k].offset]), den |-> SumWeight(S, cand)]

\* A slip: the survivors' disagreement does not widen the answer.
WithoutSpread(S, cand) == SumFunction([k \in S |-> cand[k].w * cand[k].dist])

(* The dispersion of the combination, in units of 1 / SumWeight: the       *)
(* weighted distance plus the spread of the survivors about the mean.      *)
CombinedDispersion(S, cand) ==
  LET o == CombinedOffset(S, cand)
  IN SumFunction([k \in S |-> cand[k].w * cand[k].dist])
       + Max({Abs(cand[k].offset * o.den - o.num) : k \in S})
=============================================================================
