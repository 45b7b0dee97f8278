----------------------------- MODULE FrameVoter -----------------------------
(***************************************************************************)
(* TimeFrameVoter: the vote of a window of decoded minutes on what minute  *)
(* the newest of them was.  Every frame is brought forward to the newest   *)
(* slot, each field is composed bit by bit from the confidence-weighted    *)
(* votes, a composed value no frame held is replaced by the value held     *)
(* most strongly, and the lock is refused below a floor of quality.        *)
(*                                                                         *)
(* The calendar is a small one, with the same shape: minutes carry into    *)
(* hours and hours into days, each field has values its bits can form and  *)
(* the broadcast cannot, and a frame of unread bits is out of range.       *)
(* Confidences and weights are in hundredths, qualities in ten-thousandths.*)
(***************************************************************************)
EXTENDS Integers, Sequences, FiniteSetsExt

CONSTANTS
  VoterWindow,  \* frames the vote is taken over
  Faded,        \* the confidence of a bit read from noise, below BitFloor
  Clear         \* the confidence of a bit that was heard

ASSUME VoterAssumption == VoterWindow \in Nat \ {0, 1} /\ Faded \in Nat /\ Clear \in Nat

VARIABLE frames  \* the window, oldest first

voterVars == frames

\* Bits of each field, by weight, most significant first.
Weights == [minute |-> <<2, 1>>, hour |-> <<4, 2, 1>>, day |-> <<1>>]
Fields == DOMAIN Weights
StaticFields == {"hour", "day"}
\* A frame reads each bit as one, zero or unknown, with a confidence.
Symbols == {"one", "zero", "unknown"}
MinutesInHour == 3
HoursInDay == 6
DaysInYear == 1
\* Lengths of the calendar's fields and the least value of each.
InRange(time) ==
  time.minute < MinutesInHour /\ time.hour < HoursInDay /\ time.day \in 1 .. DaysInYear

MinFramesForLock == 2
MaxNewestValidAge == 3
BitFloor == 5        \* minBitConfidence
QualityFloor == 500  \* minLockQuality
Scale == 10000
\* agingFactor to the power of a frame's age, in hundredths.
Aging(age) == <<100, 90, 81, 73>>[age + 1]
-----------------------------------------------------------------------------
\* Slip: the hour stands still.
NoCarry(time, minutes) == [time EXCEPT !.minute = (@ + minutes) % MinutesInHour]
\* Calendar arithmetic: minutes carry into hours, hours into days, and a day
\* past the end of the year into the first of the next.
AdvanceMinutes(time, minutes) ==
  LET m == time.minute + minutes
      h == time.hour + m \div MinutesInHour
      d == time.day + h \div HoursInDay
  IN [minute |-> m % MinutesInHour, hour |-> h % HoursInDay, day |-> ((d - 1) % DaysInYear) + 1]

\* The value a frame's bits spell: the weights of those read as one.
DecodeField(bits, field) ==
  MapThenSumSet(LAMBDA k : IF bits[field][k].is = "one" THEN Weights[field][k] ELSE 0,
                DOMAIN Weights[field])
Decode(bits) == [field \in Fields |-> DecodeField(bits, field)]

\* The bits of a value: largest weight first, each taken if it still fits.
EncodeField(field, value) ==
  [k \in DOMAIN Weights[field] |->
     IF (value \div Weights[field][k]) % 2 = 1 THEN "one" ELSE "zero"]

FieldMinConf(bits, field) == Min({bits[field][k].conf : k \in DOMAIN Weights[field]})
Floored(conf) == Max({conf, 1})
\* The confidence of the frame as it was read, up to the number of its bits.
MeanConf(bits) ==
  MapThenSumSet(LAMBDA f : MapThenSumSet(LAMBDA k : bits[f][k].conf, DOMAIN Weights[f]), Fields)

(* A frame in the newest slot's epoch.  A field the advance left alone     *)
(* keeps its symbols and their confidences; one it moved is encoded again, *)
(* every bit at the weakest confidence of the field.  A frame out of range *)
(* keeps its slot, votes nothing and counts against participation.         *)
BroughtForward(bits, age, raw, valid, ext) ==
  [age |-> age, valid |-> valid, ext |-> ext, meanConf |-> MeanConf(bits),
   bits |-> [field \in Fields |->
              [k \in DOMAIN Weights[field] |->
                 IF ~valid THEN [is |-> "unknown", conf |-> bits[field][k].conf]
                 ELSE IF ext[field] = raw[field] THEN bits[field][k]
                 ELSE [is |-> EncodeField(field, ext[field])[k],
                       conf |-> Floored(FieldMinConf(bits, field))]]]]
Normalized(window, i) ==
  LET age == Len(window) - i
      raw == Decode(window[i])
  IN BroughtForward(window[i], age, raw, InRange(raw),
                    IF InRange(raw) THEN AdvanceMinutes(raw, age) ELSE raw)

BuildNormalizedFrames(window) == {Normalized(window, i) : i \in DOMAIN window}
-----------------------------------------------------------------------------
AgedWeight(conf, age) == Floored(conf) * Aging(age)
Voting(normal, field, k, symbol) == {nf \in normal : nf.bits[field][k].is = symbol}
BitWeight(set, field, k) ==
  MapThenSumSet(LAMBDA nf : AgedWeight(nf.bits[field][k].conf, nf.age), set)
BitCount(set) == MapThenSumSet(LAMBDA nf : Aging(nf.age), set)

\* One bit's tallies: the weights and the counts of its two sides, and the
\* share of the window's weight that voted at all.
Tallied(ones, zeros, w1, w0, total, confs) ==
  [one |-> w1 > w0,
   coherent |-> BitCount(ones) = BitCount(zeros) \/ ((w1 > w0) <=> (BitCount(ones) > BitCount(zeros))),
   certified |-> confs # {} /\ Max(confs) >= BitFloor,
   margin |-> IF w0 + w1 = 0 THEN 0 ELSE (Scale * Max({w0 - w1, w1 - w0})) \div (w0 + w1),
   participation |-> (Scale * (w0 + w1)) \div total]
BitStat(normal, field, k) ==
  LET ones == Voting(normal, field, k, "one")
      zeros == Voting(normal, field, k, "zero")
      w1 == BitWeight(ones, field, k)
      w0 == BitWeight(zeros, field, k)
  IN Tallied(ones, zeros, w1, w0, BitWeight(normal, field, k),
             {nf.bits[field][k].conf : nf \in IF w1 > w0 THEN ones ELSE zeros})

Trust(stat) == IF stat.certified THEN (stat.margin * stat.participation) \div Scale ELSE 0

\* The weight with which each value of a field is held by a valid frame.
HeldValues(normal, field) == {nf.ext[field] : nf \in {x \in normal : x.valid}}
HeldWeight(normal, field, value) ==
  MapThenSumSet(
    LAMBDA nf : AgedWeight(Min({nf.bits[field][k].conf : k \in DOMAIN Weights[field]}), nf.age),
    {nf \in normal : nf.valid /\ nf.ext[field] = value})
\* Of values held alike either will do: the margin, and so the quality, is none.
TopValue(normal, field) ==
  CHOOSE v \in HeldValues(normal, field) :
    \A u \in HeldValues(normal, field) : HeldWeight(normal, field, u) <= HeldWeight(normal, field, v)
Lead(normal, field, top, rest) ==
  LET total == MapThenSumSet(LAMBDA u : HeldWeight(normal, field, u), HeldValues(normal, field))
  IN (Scale * (HeldWeight(normal, field, top) - Max(rest \cup {0}))) \div total
HeldMargin(normal, field) ==
  LET top == TopValue(normal, field)
  IN Lead(normal, field, top, {HeldWeight(normal, field, u) : u \in HeldValues(normal, field) \ {top}})

\* Slip: a composed value is taken as it is.
AnyValue(normal, field, value) == TRUE
ComposeHeld(normal, field, value) == value \in HeldValues(normal, field)

\* One field: composed from its bits when each is coherent and the value is
\* one some frame held, else the value held most strongly.
Resolved(normal, field, whole, composed, trust) ==
  IF whole /\ ComposeHeld(normal, field, composed)
  THEN [value |-> composed, quality |-> trust]
  ELSE IF HeldValues(normal, field) = {} THEN [value |-> 0, quality |-> 0]
  ELSE [value |-> TopValue(normal, field), quality |-> Min({HeldMargin(normal, field), trust})]
Composed(normal, field, stats) ==
  LET coherent == {k \in DOMAIN stats : stats[k].coherent}
  IN Resolved(normal, field, coherent = DOMAIN stats,
              MapThenSumSet(LAMBDA k : IF stats[k].one THEN Weights[field][k] ELSE 0, DOMAIN stats),
              Min({Trust(stats[k]) : k \in coherent} \cup {Scale}))
ResolveField(normal, field) ==
  Composed(normal, field, [k \in DOMAIN Weights[field] |-> BitStat(normal, field, k)])

\* Used when the composed fields are out of range: the frame of most weight.
Heaviest(valid) ==
  CHOOSE nf \in valid : \A x \in valid :
    AgedWeight(x.meanConf, x.age) <= AgedWeight(nf.meanConf, nf.age)
Resolution(fields, voted, valid) ==
  IF InRange(voted) THEN [value |-> voted, quality |-> Min({fields[f].quality : f \in Fields})]
  ELSE [value |-> IF valid = {} THEN voted ELSE Heaviest(valid).ext, quality |-> 0]
FromFields(fields, valid) == Resolution(fields, [f \in Fields |-> fields[f].value], valid)
FromNormal(normal) ==
  FromFields([f \in Fields |-> ResolveField(normal, f)], {nf \in normal : nf.valid})
ComputeResolution(window) == FromNormal(BuildNormalizedFrames(window))
-----------------------------------------------------------------------------
\* Adjacent frames whose minutes, as their bits spell them, are one apart.
Increments(window) ==
  Cardinality({i \in 2 .. Len(window) :
    (DecodeField(window[i - 1], "minute") + 1) % MinutesInHour = DecodeField(window[i], "minute")})

Fresh(normal) == \E nf \in normal : nf.valid /\ nf.age <= MaxNewestValidAge

\* Each field that does not change from minute to minute has a bit the
\* window is not evenly divided on.
StaticMargin(normal) ==
  \A f \in StaticFields : \E k \in DOMAIN Weights[f] :
    BitWeight(Voting(normal, f, k, "one"), f, k) # BitWeight(Voting(normal, f, k, "zero"), f, k)

\* locked() and, when it refuses, the reason given.  The gate against a
\* reference clock is not here: it is a day wide (Source sets 24 * 60 minutes)
\* and this calendar has no two times a day apart.
Verdict(window, normal, valid) ==
  CASE Len(window) < MinFramesForLock -> "collecting"
    [] Len(window) >= MinFramesForLock /\ ~Fresh(normal) -> "staleness"
    [] Len(window) >= MinFramesForLock /\ Fresh(normal) /\ Increments(window) < MinFramesForLock - 1 ->
         IF \E x, y \in valid : x.ext # y.ext THEN "contested" ELSE "collecting"
    [] OTHER -> IF ~StaticMargin(normal) THEN "contested"
                ELSE IF ComputeResolution(window).quality < QualityFloor THEN "quality"
                ELSE "locked"
LockVerdict(window) ==
  LET normal == BuildNormalizedFrames(window)
  IN Verdict(window, normal, {nf \in normal : nf.valid})

Locked(window) == LockVerdict(window) = "locked"
-----------------------------------------------------------------------------
VoterInit == frames = <<>>

AddFrame(bits) ==
  LET grown == Append(frames, bits)
  IN frames' = IF Len(grown) > VoterWindow THEN Tail(grown) ELSE grown

VoterReset == frames # <<>> /\ frames' = <<>>
=============================================================================
