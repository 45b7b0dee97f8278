--------------------------- MODULE MetricHistory ----------------------------
(***************************************************************************)
(* Metrics.cpp: one tier of one series, buckets of a width and how many    *)
(* are kept; the series there may be; and the timeline of the class that   *)
(* served.  Samples are stamped with the served time, which may step back. *)
(***************************************************************************)
EXTENDS Integers, Sequences, SequencesExt, FiniteSetsExt

CONSTANTS
  BucketWidth, Buckets,  \* MetricTier::m_width, m_capacity
  KeepFor, MaxChanges,   \* StateTimeline::kKeepSec, kMaxChanges
  MaxSeries,             \* MetricHistory::kMaxSeries
  SeriesIds,             \* what figures may be sampled
  MaxStamp, MaxSamples   \* bounds on the served time and on the samples

ASSUME MetricAssumption ==
  /\ {BucketWidth, Buckets, MaxChanges, MaxSeries} \subseteq Nat \ {0}
  /\ {KeepFor, MaxStamp, MaxSamples} \subseteq Nat

VARIABLES
  stamp,        \* passUnix of the last pass
  series,       \* m_series: the buckets of each, the one still filling last
  order,        \* the ids in m_index, as they were first added
  changes,      \* m_changes
  sampled,      \* ghost: every sample there was, newest last
  turns,        \* ghost: every change of the class there was, as it was stamped
  trimmed       \* ghost: kMaxChanges has dropped a change

metricVars == <<stamp, series, order, changes, sampled, turns, trimmed>>

Bucket(t) == (t \div BucketWidth) * BucketWidth
Opened(start, v) == [start |-> start, sum |-> v, min |-> v, max |-> v, count |-> 1]
Folded(b, v) ==
  [start |-> b.start, sum |-> b.sum + v, min |-> IF v < b.min THEN v ELSE b.min,
   max |-> IF v > b.max THEN v ELSE b.max, count |-> b.count + 1]

\* Slip: a step back opens the bucket it falls in.
Reopens(done, t) == done = <<>> \/ Bucket(t) # Last(done).start
NewBucket(done, t) == done = <<>> \/ Bucket(t) > Last(done).start

\* MetricTier::add; the closed buckets and the current one in one sequence.
TierAdd(done, t, v) ==
  IF NewBucket(done, t)
  THEN LET all == Append(done, Opened(Bucket(t), v))
           gone == Len(all) - (Buckets + 1)
       IN IF gone > 0 THEN SubSeq(all, gone + 1, Len(all)) ELSE all
  ELSE [done EXCEPT ![Len(done)] = Folded(@, v)]

\* MetricTier::points.
Points(done, now) ==
  LET oldest == Bucket(now) - BucketWidth * Buckets
  IN FoldLeft(LAMBDA out, b : IF b.start > oldest THEN Append(out, b) ELSE out, <<>>, done)

\* MetricHistory::add: a series past the last there may be is not kept.
Sample(id, t, v) ==
  /\ Len(sampled) < MaxSamples /\ stamp' = t
  /\ IF id \in Range(order) \/ Len(order) < MaxSeries
     THEN /\ order' = IF id \in Range(order) THEN order ELSE Append(order, id)
          /\ series' = [series EXCEPT ![id] = TierAdd(@, t, v)]
          /\ sampled' = Append(sampled, [id |-> id, at |-> t, value |-> v])
     ELSE UNCHANGED <<order, series, sampled>>
  /\ UNCHANGED <<changes, turns, trimmed>>
-----------------------------------------------------------------------------
\* Slip: the change in effect when the kept period began goes with it.
DropOld(all, at) == SelectSeq(all, LAMBDA c : c.start >= at - KeepFor)
\* A change goes when the one after it is older than what is kept.
DropUnreached(all, at) ==
  LET last == Max({i \in DOMAIN all : i = 1 \/ all[i].start < at - KeepFor})
  IN SubSeq(all, last, Len(all))

Capped(all) == IF Len(all) > MaxChanges THEN SubSeq(all, Len(all) - MaxChanges + 1, Len(all)) ELSE all

\* StateTimeline::set.
SetServing(t, state) ==
  /\ stamp' = t
  /\ IF changes # <<>> /\ Last(changes).state = state
     THEN UNCHANGED <<changes, turns, trimmed>>
     ELSE LET at   == IF changes = <<>> \/ t > Last(changes).start THEN t ELSE Last(changes).start
              kept == DropUnreached(Append(changes, [start |-> at, state |-> state]), at)
          IN /\ Len(turns) < MaxSamples
             /\ turns' = Append(turns, [start |-> at, state |-> state])
             /\ changes' = Capped(kept)
             /\ trimmed' = (trimmed \/ Len(kept) > MaxChanges)
  /\ UNCHANGED <<series, order, sampled>>

\* StateTimeline::since.
Since(all, from) ==
  LET shown(i) == \/ all[i].start >= from
                  \/ i < Len(all) /\ all[i + 1].start > from
                  \/ i = Len(all)
      first == Min({i \in DOMAIN all : shown(i)})
  IN SubSeq(all, first, Len(all))

MetricInit ==
  /\ stamp = 0 /\ series = [id \in SeriesIds |-> <<>>] /\ order = <<>> /\ changes = <<>>
  /\ sampled = <<>> /\ turns = <<>> /\ trimmed = FALSE

\* External: the served time of the next sample, gone on or stepped back.
Stamps == (stamp - BucketWidth)..(stamp + 2 * BucketWidth) \intersect 0..MaxStamp

SampleNext == \E t \in Stamps, id \in SeriesIds, v \in {0, 1} : Sample(id, t, v)
ServingNext == \E t \in Stamps, s \in {"primary", "secondary"} : SetServing(t, s)
-----------------------------------------------------------------------------
\* The bucket sample i of s belongs in: its own, or the latest of its series
\* so far if that is later.
Belongs(s, i) == Max({Bucket(s[j].at) : j \in {k \in 1..i : s[k].id = s[i].id}})
Placed(s, id, start) == {i \in DOMAIN s : s[i].id = id /\ Belongs(s, i) = start}
Meant(s, id, start) ==
  LET in == Placed(s, id, start)
  IN IF in = {} THEN {}
     ELSE {[start |-> start, sum |-> SumFunction([i \in in |-> s[i].value]),
            min |-> Min({s[i].value : i \in in}), max |-> Max({s[i].value : i \in in}),
            count |-> Cardinality(in)]}

\* A chart shows every bucket of its window that had samples, each once and
\* in order, with all of its samples in it, and a series that stopped ages out.
ChartTells ==
  \A id \in Range(order) : \A now \in Last(series[id]).start..MaxStamp :
    LET shown == Points(series[id], now)
        window == {Bucket(now) - BucketWidth * k : k \in 0..(Buckets - 1)}
    IN /\ Range(shown) = UNION {Meant(sampled, id, w) : w \in window}
       /\ \A i, j \in DOMAIN shown : i < j => shown[i].start < shown[j].start

\* The bar of the classes begins with the one that served when its window
\* began, whatever has been dropped since, as long as the window is within
\* what is kept; or, past kMaxChanges, with the newest.
BarTells ==
  changes = <<>> \/
  \A from \in 0..MaxStamp :
    LET shown == Since(changes, from)
        then  == {i \in DOMAIN turns : turns[i].start <= from}
        whole == IF then = {} THEN turns ELSE SubSeq(turns, Max(then), Len(turns))
    IN /\ IsSuffix(shown, turns)
       /\ ~trimmed /\ from >= Last(turns).start - KeepFor => IsSuffix(whole, shown)

(* The page's charts and bar are what was sampled (MetricTier::add and     *)
(* points, StateTimeline::set and since): a served time that steps back    *)
(* neither hides a bucket nor puts two where one is meant, and neither     *)
(* loses nor invents a change of the serving class.                        *)
ChartsTell == ChartTells /\ BarTells
=============================================================================
