---------------------------- MODULE SampleClock -----------------------------
(***************************************************************************)
(* The three clocks of SampleClock.cpp.  SampleClock and CaptureClock date *)
(* a sample by the daemon's clock, the one from when its packets arrived   *)
(* and the other from the receiver's own stamps; HostSlewGuard says when   *)
(* those stamps may be used.                                               *)
(***************************************************************************)
EXTENDS Integers, Sequences, FiniteSetsExt
-----------------------------------------------------------------------------
(* SampleClock: what the daemon's clock read when a sample was captured,   *)
(* from when its packets arrived.  Packets are only ever late, so of each  *)
(* bucket of time the earliest for its samples is kept, and a line is      *)
(* fitted through those of the last while, its slope held at the stream's  *)
(* rate when it comes out implausible.                                     *)
(*                                                                         *)
(* One packet carries one tick of samples.  Means and slopes are rational: *)
(* a fit is kept as sums, and read as a numerator over a denominator.      *)
CONSTANTS
  BucketSec,  \* m_bucketSec
  WindowSec,  \* m_windowSec
  Plausible   \* a slope is taken within 1/Plausible of the stream's rate

ASSUME SampleClockAssumption == {BucketSec, WindowSec, Plausible} \subseteq Nat \ {0}

VARIABLES
  envelope,  \* m_envelope: the kept points
  bucket     \* the bucket being filled: <<>>, or its best point and its start

clockVars == <<envelope, bucket>>

NoClock == envelope' = <<>> /\ bucket' = <<>>
SampleClockInit == envelope = <<>> /\ bucket = <<>>
\* reset(), and setSampleRate() to another rate.
SampleClockReset == NoClock

Residual(p) == p.host - p.sample

\* Slip: the last packet of a bucket.
Later(p, q) == p
Faster(p, q) == IF Residual(p) < Residual(q) THEN p ELSE q

Aged(points) ==
  LET last == points[Len(points)].host
      kept == {i \in DOMAIN points : last - points[i].host <= WindowSec \/ i > Len(points) - 2}
  IN SubSeq(points, Min(kept), Len(points))

Observe(sample, host) ==
  LET p == [sample |-> sample, host |-> host]
      best == Faster(p, bucket[1].best)
      full == host - bucket[1].start >= BucketSec
  IN IF bucket = <<>> THEN bucket' = <<[best |-> p, start |-> host]>> /\ UNCHANGED envelope
     ELSE IF ~full THEN bucket' = <<[bucket[1] EXCEPT !.best = best]>> /\ UNCHANGED envelope
     ELSE bucket' = <<>> /\ envelope' = Aged(Append(envelope, best))
-----------------------------------------------------------------------------
\* refit(), on the residuals: the line's slope is 1 + skew.num / skew.den.
FitValid == Len(envelope) >= 2
Refit ==
  LET n == Len(envelope)
      samples == SumFunction([i \in DOMAIN envelope |-> envelope[i].sample])
      residuals == SumFunction([i \in DOMAIN envelope |-> Residual(envelope[i])])
      x == [i \in DOMAIN envelope |-> n * envelope[i].sample - samples]
      y == [i \in DOMAIN envelope |-> n * Residual(envelope[i]) - residuals]
      sxx == SumFunction([i \in DOMAIN envelope |-> x[i] * x[i]])
      sxy == SumFunction([i \in DOMAIN envelope |-> x[i] * y[i]])
      held == sxx = 0 \/ Plausible * Max({sxy, -sxy}) > sxx
  IN [n |-> n, samples |-> samples, residuals |-> residuals,
      num |-> IF held THEN 0 ELSE sxy, den |-> IF held THEN 1 ELSE sxx]

\* hostTimeAt, as what the line adds to the sample, times Refit.n * Refit.den.
HostResidual(fit, sample) == fit.residuals * fit.den + (fit.n * sample - fit.samples) * fit.num
-----------------------------------------------------------------------------
(* CaptureClock: what the daemon's clock read when a sample was captured,  *)
(* from the receiver's own stamps.  Each stamp is exact for its packet, so *)
(* a sample is dated by the nearest of them and a step is followed at once.*)
CONSTANTS
  MarkHistory,  \* kHistorySec
  MaxReach      \* kMaxExtrapolateSec

ASSUME CaptureAssumption == {MarkHistory, MaxReach} \subseteq Nat

VARIABLE marks  \* m_marks, by sample

CaptureInit == marks = <<>>
CaptureReset == marks' = <<>>

\* A packet whose sample does not follow the last is of a new stream.
ObserveMark(sample, at) ==
  LET old == IF marks # <<>> /\ sample <= marks[Len(marks)].sample THEN <<>> ELSE marks
      grown == Append(old, [sample |-> sample, at |-> at])
      kept == {i \in DOMAIN grown : sample - grown[i].sample <= MarkHistory \/ i = Len(grown)}
  IN marks' = SubSeq(grown, Min(kept), Len(grown))

\* The nearest mark, the earlier of two as near: at the lower bound or just
\* before it.
NearestMark(sample) ==
  LET from == {i \in DOMAIN marks : marks[i].sample >= sample}
      next == IF from = {} THEN Len(marks) + 1 ELSE Min(from)
  IN IF next = 1 THEN 1
     ELSE IF next > Len(marks) \/ sample - marks[next - 1].sample <= marks[next].sample - sample THEN next - 1
     ELSE next
CaptureReaches(sample) ==
  /\ marks # <<>>
  /\ LET dist == sample - marks[NearestMark(sample)].sample IN dist \in -MaxReach .. MaxReach
CapturedAt(sample) == marks[NearestMark(sample)].at + sample - marks[NearestMark(sample)].sample
-----------------------------------------------------------------------------
(* HostSlewGuard: capture times are stamped on the host clock, which       *)
(* something else disciplines.  The guard compares the host clock's rate   *)
(* over the last while with its usual one, the median over its history,    *)
(* and trusts capture times once the two have agreed for as long as a      *)
(* slew stays in the receiver's own window.                                *)
CONSTANTS
  ShortSec,      \* the span a rate is taken over (16)
  HistorySec,    \* the span the usual rate is taken over (900)
  ExposureSec,   \* seconds a slew stays in the receiver's window (13)
  MaxDeviation,  \* ppm from the usual rate that is no slew (20)
  Allowance      \* ppm a crystal may be off, before there is a usual rate (50)

ASSUME SlewAssumption ==
  /\ ShortSec \in Nat \ {0, 1} /\ HistorySec > 5 * ShortSec
  /\ {ExposureSec, MaxDeviation, Allowance} \subseteq Nat

VARIABLES
  readings,   \* m_hist: daemon second and daemon-minus-realtime, in ppm-seconds
  deviation,  \* m_deviationPpm, -1 for NaN
  calmSince   \* m_calmSince

guardVars == <<readings, deviation, calmSince>>

NoRate == -1
MinSlopes == 5

GuardInit == readings = <<>> /\ deviation = NoRate /\ calmSince = -1

Magnitude(x) == IF x < 0 THEN -x ELSE x
Slope(a, b) == (b.dmr - a.dmr) \div (b.at - a.at)

\* Add one reading, and age the history off.
Grown(t, dmr) ==
  LET all == Append(readings, [at |-> t, dmr |-> dmr])
      kept == {i \in DOMAIN all : t - all[i].at <= HistorySec \/ i > Len(all) - 2}
  IN SubSeq(all, Min(kept), Len(all))

\* The rates over one span after the other, from reading i on.
Slopes(h, i) ==
  LET from[k \in DOMAIN h] ==
        LET after == {j \in k + 1 .. Len(h) : h[j].at - h[k].at >= ShortSec}
            next == Min(after)
        IN IF after = {} THEN <<>> ELSE <<Slope(h[k], h[next])>> \o from[next]
  IN from[i]
\* The element nth_element puts in the middle place.
Median(s) ==
  LET below(v) == Cardinality({k \in DOMAIN s : s[k] < v})
      upTo(v) == Cardinality({k \in DOMAIN s : s[k] <= v})
      middle == Len(s) \div 2
  IN CHOOSE v \in {s[k] : k \in DOMAIN s} : below(v) <= middle /\ middle < upTo(v)

Deviation(h) ==
  LET now == h[Len(h)]
      from == h[Min({i \in DOMAIN h : now.at - h[i].at <= ShortSec})]
      slopes == Slopes(h, 1)
      rate == Slope(from, now)
  IN IF 2 * (now.at - from.at) < ShortSec THEN NoRate
     ELSE IF Len(slopes) >= MinSlopes THEN Magnitude(rate - Median(slopes))
     ELSE Max({0, Magnitude(rate) - Allowance})

\* Slip: once calm, calm until the rate is not known.
StaysCalm(dev, t) == IF dev = NoRate THEN -1 ELSE IF calmSince < 0 THEN t ELSE calmSince
CalmFrom(dev, t) ==
  IF dev = NoRate \/ dev > MaxDeviation THEN -1 ELSE IF calmSince < 0 THEN t ELSE calmSince

\* sample(); readings within a second of the last are ignored.
GuardSample(t, dmr) ==
  LET h == Grown(t, dmr)
      dev == Deviation(h)
  IN IF readings # <<>> /\ t - readings[Len(readings)].at < 1 THEN UNCHANGED guardVars
     ELSE /\ readings' = h /\ deviation' = dev
          /\ calmSince' = CalmFrom(dev, t)

Steady(t) == deviation # NoRate /\ calmSince >= 0 /\ t - calmSince >= ExposureSec
=============================================================================
