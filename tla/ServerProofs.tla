---------------------------- MODULE ServerProofs ----------------------------
(***************************************************************************)
(* The limiter keeps its limit for every interval, burst, cap and lateness *)
(* of its callers, and the service uses it as it stands; and what the      *)
(* service tells of the past hour is what happened in it.                  *)
(***************************************************************************)
EXTENDS NtpServer, FiniteSetTheorems, TLAPS

-----------------------------------------------------------------------------
(* One client's history: s its answers, k its kisses.                      *)
Entry == [at : Int, life : Int]

LastLife(s) == IF s = <<>> THEN 0 ELSE s[Len(s)].life

\* What the answers from the i-th on have used beyond the burst, and the time
\* there was to earn it, at time t and in bucket l.
Owed(s, i) == (Len(s) - i + 1 - Burst) * Interval
Since(s, i, t, l) == t - s[i].at + (l - s[i].life) * Lost

History(s, k, t) ==
  /\ WithinLimit(s)
  /\ \A i \in 1..Len(k) - 1 : k[i + 1] - k[i] >= KodGap
  /\ k # <<>> => k[Len(k)] <= t

(* A bucket b at clock time t holds no more than was earned since any      *)
(* answer, and it has seen the last kiss or that was long ago.             *)
Bucket == [credit : Int, at : Int, kodAt : Int]
Sound(s, k, b, t) ==
  /\ b \in Bucket
  /\ b.credit <= Full /\ -MaxSkew <= b.credit /\ b.at <= t /\ b.at - b.credit <= t
  /\ \A i \in 1..Len(s) : Owed(s, i) + b.credit <= Since(s, i, b.at, LastLife(s))
  /\ k # <<>> => \/ b.kodAt = k[Len(k)] /\ k[Len(k)] <= b.at + MaxSkew
                 \/ k[Len(k)] + Full + 1 <= t + MaxSkew

\* It holds no less either: since some answer everything earned is there.
Tight(s, b) == \E i \in 1..Len(s) : Owed(s, i) + b.credit = b.at - s[i].at

\* A client without a bucket has been away for as long as one takes to fill.
Gone(s, k, t) ==
  /\ \A i \in 1..Len(s) : Owed(s, i) + Full <= Since(s, i, t - MaxSkew, LastLife(s) + 1)
  /\ k # <<>> => k[Len(k)] + Full + 1 <= t + MaxSkew

\* The map B accounts for every client.
Accounts(B) ==
  /\ B = [c \in DOMAIN B |-> B[c]] /\ DOMAIN B \subseteq Clients
  /\ \A c \in Clients :
       /\ c \in DOMAIN B => Sound(answers[c], kods[c], B[c], now) /\ Tight(answers[c], B[c])
       /\ c \notin DOMAIN B => Gone(answers[c], kods[c], now)

LimiterInv ==
  /\ now \in Nat /\ lastSweep \in Int
  /\ answers \in [Clients -> Seq(Entry)] /\ kods \in [Clients -> Seq(Int)]
  /\ ~wronged
  /\ \A c \in Clients : History(answers[c], kods[c], now)
  /\ Accounts(buckets)

-----------------------------------------------------------------------------
(* Arithmetic.                                                             *)
LEMMA OneMore == ASSUME NEW a \in Int, NEW b \in Int PROVE (a + 1) * b = a * b + b
OBVIOUS

LEMMA FirstOwed == (1 - Burst) * Interval = Interval - Full
BY RateLimiterAssumption DEF Full

LEMMA ConstantTypes ==
  /\ MaxSkew \in Nat /\ Interval \in Nat /\ Full \in Nat /\ Interval <= Full
  /\ Lost \in Nat /\ 2 * MaxSkew - 1 <= Lost
  /\ KodEvery \in Int /\ KodGap \in Int /\ KodGap <= KodEvery /\ KodGap <= Full + 1 - 2 * MaxSkew
<1> USE ClockAssumption, RateLimiterAssumption
<1>1. Full \in Nat
  BY DEF Full
<1>2. Interval <= Full
  <2>1. (Burst - 1) * Interval = Full - Interval
    BY DEF Full
  <2>2. ASSUME NEW a \in Nat, NEW b \in Nat PROVE a * b >= 0
    OBVIOUS
  <2>3. Burst - 1 \in Nat
    OBVIOUS
  <2>4. (Burst - 1) * Interval >= 0
    BY <2>2, <2>3
  <2> QED BY <1>1, <2>1, <2>4
<1>3. Lost \in Nat /\ 2 * MaxSkew - 1 <= Lost
  BY DEF Lost, Larger
<1>4. KodEvery \in Int
  BY DEF KodEvery, Larger
<1>5. KodGap \in Int /\ KodGap <= KodEvery /\ KodGap <= Full + 1 - 2 * MaxSkew
  BY <1>1, <1>4 DEF KodGap, Smaller
<1> QED BY <1>1, <1>2, <1>3, <1>4, <1>5

LEMMA IntProduct == ASSUME NEW a \in Int, NEW b \in Int PROVE a * b \in Int
OBVIOUS

LEMMA LastLifeInt == ASSUME NEW s \in Seq(Entry) PROVE LastLife(s) \in Int
<1>1. s # <<>> => s[Len(s)] \in Entry
  OBVIOUS
<1> QED BY <1>1 DEF LastLife, Entry

LEMMA OwedInt ==
  ASSUME NEW s \in Seq(Entry), NEW i \in 1..Len(s)
  PROVE  Owed(s, i) \in Int /\ s[i].at \in Int /\ s[i].life \in Int
<1>1. s[i] \in Entry /\ Len(s) \in Nat
  OBVIOUS
<1>2. s[i].at \in Int /\ s[i].life \in Int
  BY <1>1 DEF Entry
<1>3. Len(s) - i + 1 - Burst \in Int /\ Interval \in Int
  BY <1>1, RateLimiterAssumption
<1>4. Owed(s, i) \in Int
  BY <1>3, IntProduct DEF Owed
<1> QED BY <1>2, <1>4

LEMMA SinceInt ==
  ASSUME NEW s \in Seq(Entry), NEW i \in 1..Len(s), NEW t \in Int, NEW l \in Int
  PROVE  Since(s, i, t, l) \in Int
<1>1. s[i].at \in Int /\ l - s[i].life \in Int /\ Lost \in Int
  BY OwedInt, ConstantTypes
<1> DEFINE p == (l - s[i].life) * Lost
           x == s[i].at
<1>2. p \in Int /\ x \in Int
  BY <1>1, IntProduct
<1>3. t - x + p \in Int
  <2> HIDE DEF p, x
  <2> QED BY <1>2
<1> QED BY <1>3 DEF Since

LEMMA SinceLater ==
  ASSUME NEW s \in Seq(Entry), NEW i \in 1..Len(s), NEW t \in Int, NEW u \in Int, NEW l \in Int
  PROVE  /\ Since(s, i, u, l) = Since(s, i, t, l) + (u - t)
         /\ Since(s, i, t, l + 1) = Since(s, i, t, l) + Lost
<1>1. s[i].at \in Int /\ s[i].life \in Int /\ Lost \in Int
  BY OwedInt, ConstantTypes
<1>2. l - s[i].life + 1 = (l + 1) - s[i].life /\ l - s[i].life \in Int
  BY <1>1
<1>3. ((l + 1) - s[i].life) * Lost = (l - s[i].life) * Lost + Lost
  BY <1>1, <1>2, OneMore
<1>4. (l - s[i].life) * Lost \in Int
  BY <1>1, <1>2, IntProduct
<1> DEFINE p == (l - s[i].life) * Lost
           x == s[i].at
<1>5. p \in Int /\ x \in Int
  BY <1>1, <1>4
<1>6. u - x + p = t - x + p + (u - t)
  <2> HIDE DEF p, x
  <2> QED BY <1>5
<1>7. t - x + (p + Lost) = t - x + p + Lost
  <2>1. Lost \in Int
    BY <1>1
  <2> HIDE DEF p, x
  <2> QED BY <1>5, <2>1
<1>8. Since(s, i, u, l) = Since(s, i, t, l) + (u - t)
  BY <1>6, Zenon DEF Since
<1>9. Since(s, i, t, l + 1) = Since(s, i, t, l) + Lost
  <2>1. Since(s, i, t, l + 1) = t - s[i].at + ((l + 1) - s[i].life) * Lost
    BY Zenon DEF Since
  <2>2. Since(s, i, t, l) = t - s[i].at + (l - s[i].life) * Lost
    BY Zenon DEF Since
  <2> QED BY <1>3, <1>7, <2>1, <2>2, Zenon
<1> QED BY <1>8, <1>9

\* One more answer.
LEMMA OwedMore ==
  ASSUME NEW s \in Seq(Entry), NEW e \in Entry
  PROVE  /\ Append(s, e) \in Seq(Entry) /\ Len(Append(s, e)) = Len(s) + 1
         /\ LastLife(Append(s, e)) = e.life
         /\ \A i \in 1..Len(s) : /\ Append(s, e)[i] = s[i]
                                 /\ Owed(Append(s, e), i) = Owed(s, i) + Interval
                                 /\ \A t, l \in Int :
                                      Since(Append(s, e), i, t, l) = Since(s, i, t, l)
         /\ Append(s, e)[Len(s) + 1] = e
         /\ Owed(Append(s, e), Len(s) + 1) = Interval - Full
         /\ \A t \in Int : Since(Append(s, e), Len(s) + 1, t, e.life) = t - e.at
<1> DEFINE a == Append(s, e)
<1>1. /\ a \in Seq(Entry) /\ Len(a) = Len(s) + 1 /\ a[Len(s) + 1] = e
      /\ \A i \in 1..Len(s) : a[i] = s[i]
      /\ a # <<>>
  OBVIOUS
<1> HIDE DEF a
<1>2. LastLife(a) = e.life
  BY <1>1 DEF LastLife
<1>3. ASSUME NEW i \in 1..Len(s)
      PROVE  Owed(a, i) = Owed(s, i) + Interval
  <2>1. Len(s) - i + 1 - Burst \in Int /\ Len(s) + 1 - i + 1 - Burst = (Len(s) - i + 1 - Burst) + 1
    BY RateLimiterAssumption
  <2>2. Interval \in Int
    BY RateLimiterAssumption
  <2> HIDE DEF a
  <2> QED BY <1>1, <2>1, <2>2, OneMore DEF Owed
<1>4. ASSUME NEW i \in 1..Len(s), NEW t \in Int, NEW l \in Int
      PROVE  Since(a, i, t, l) = Since(s, i, t, l)
  BY <1>1 DEF Since
<1>5. Owed(a, Len(s) + 1) = Interval - Full
  <2>1. Len(s) + 1 - (Len(s) + 1) + 1 - Burst = 1 - Burst
    BY RateLimiterAssumption
  <2> QED BY <1>1, <2>1, FirstOwed DEF Owed
<1>6. ASSUME NEW t \in Int PROVE Since(a, Len(s) + 1, t, e.life) = t - e.at
  <2>1. e.life - e.life = 0 /\ 0 * Lost = 0 /\ e.at \in Int
    BY ConstantTypes DEF Entry
  <2> QED BY <1>1, <2>1 DEF Since
<1> QED BY <1>1, <1>2, <1>3, <1>4, <1>5, <1>6 DEF a
-----------------------------------------------------------------------------
(* What becomes of one client.                                             *)

\* The clock moves on.
LEMMA TimePasses ==
  ASSUME NEW s \in Seq(Entry), NEW k \in Seq(Int), NEW t \in Int, NEW u \in Int, t <= u
  PROVE  /\ History(s, k, t) => History(s, k, u)
         /\ \A b : Sound(s, k, b, t) => Sound(s, k, b, u)
         /\ Gone(s, k, t) => Gone(s, k, u)
<1> USE ConstantTypes
<1>1. k # <<>> => k[Len(k)] \in Int
  OBVIOUS
<1>2. History(s, k, t) => History(s, k, u)
  BY <1>1 DEF History
<1>3. ASSUME NEW b, Sound(s, k, b, t) PROVE Sound(s, k, b, u)
  <2>1. b.credit \in Int /\ b.at \in Int
    BY <1>3 DEF Sound, Bucket
  <2>2. b.at <= u /\ b.at - b.credit <= u
    BY <1>3, <2>1 DEF Sound
  <2>3. k[Len(k)] + Full + 1 <= t + MaxSkew /\ k # <<>> => k[Len(k)] + Full + 1 <= u + MaxSkew
    BY <1>1
  <2> QED BY <1>3, <2>2, <2>3 DEF Sound
<1>4. Gone(s, k, t) => Gone(s, k, u)
  <2> SUFFICES ASSUME Gone(s, k, t) PROVE Gone(s, k, u)
    OBVIOUS
  <2>1. ASSUME NEW i \in 1..Len(s)
        PROVE  Owed(s, i) + Full <= Since(s, i, u - MaxSkew, LastLife(s) + 1)
    <3> DEFINE v == t - MaxSkew
               w == u - MaxSkew
               l == LastLife(s) + 1
    <3>1. Owed(s, i) \in Int /\ v \in Int /\ w \in Int /\ l \in Int /\ v <= w
      BY OwedInt, LastLifeInt
    <3>2. Owed(s, i) + Full <= Since(s, i, v, l)
      BY DEF Gone
    <3> HIDE DEF v, w, l
    <3>3. Since(s, i, v, l) \in Int
      BY <3>1, SinceInt
    <3>4. Since(s, i, w, l) = Since(s, i, v, l) + (w - v)
      BY <3>1, SinceLater
    <3>5. Owed(s, i) + Full <= Since(s, i, w, l)
      BY <3>1, <3>2, <3>3, <3>4
    <3> QED BY <3>5 DEF w, l
  <2>2. k # <<>> => k[Len(k)] + Full + 1 <= u + MaxSkew
    BY <1>1 DEF Gone
  <2> QED BY <2>1, <2>2 DEF Gone
<1> QED BY <1>2, <1>3, <1>4

\* A bucket that had the time to fill is forgotten: nothing is lost but Lost.
LEMMA Forgotten ==
  ASSUME NEW s \in Seq(Entry), NEW k \in Seq(Int), NEW b, NEW n \in Int, NEW t \in Int,
         Sound(s, k, b, n), t <= n, t - b.at > Full
  PROVE  Gone(s, k, n)
<1> USE ConstantTypes
<1>1. b.credit \in Int /\ b.at \in Int /\ (k # <<>> => k[Len(k)] \in Int)
  BY DEF Sound, Bucket
<1>2. ASSUME NEW i \in 1..Len(s)
      PROVE  Owed(s, i) + Full <= Since(s, i, n - MaxSkew, LastLife(s) + 1)
  <2>1. ASSUME NEW x \in Int, NEW y \in Int, Owed(s, i) + y <= Since(s, i, x, LastLife(s)),
               -MaxSkew <= y, n - x > Full
        PROVE  Owed(s, i) + Full <= Since(s, i, n - MaxSkew, LastLife(s) + 1)
    <3> DEFINE v == n - MaxSkew
               l == LastLife(s)
    <3>1. Owed(s, i) \in Int /\ v \in Int /\ l \in Int
      BY OwedInt, LastLifeInt
    <3>2. Since(s, i, x, l) \in Int /\ Since(s, i, v, l) = Since(s, i, x, l) + (v - x)
      <4> HIDE DEF v, l
      <4>1. Since(s, i, x, l) \in Int
        BY <2>1, <3>1, SinceInt
      <4>2. Since(s, i, v, l) = Since(s, i, x, l) + (v - x)
        BY <2>1, <3>1, SinceLater
      <4> QED BY <4>1, <4>2
    <3>3. Since(s, i, v, l + 1) = Since(s, i, v, l) + Lost
      <4> HIDE DEF v, l
      <4> QED BY <3>1, SinceLater
    <3> DEFINE o == Owed(s, i)
               w == Since(s, i, x, l)
               z == Since(s, i, v, l + 1)
    <3>4. o \in Int /\ w \in Int /\ z = w + (n - MaxSkew - x) + Lost /\ o + y <= w
      BY <2>1, <3>1, <3>2, <3>3
    <3>5. o + Full <= z
      <4> HIDE DEF o, w, z
      <4> QED BY <2>1, <3>4
    <3> QED BY <3>5
  <2>2. Owed(s, i) + b.credit <= Since(s, i, b.at, LastLife(s)) /\ -MaxSkew <= b.credit
    BY DEF Sound
  <2>3. n - b.at > Full
    BY <1>1
  <2> QED BY <1>1, <2>1, <2>2, <2>3
<1>3. k # <<>> => k[Len(k)] + Full + 1 <= n + MaxSkew
  BY <1>1 DEF Sound
<1> QED BY <1>2, <1>3 DEF Gone

\* One more answer that the bucket could pay for is within the limit.
LEMMA OneMoreWithin ==
  ASSUME NEW s \in Seq(Entry), NEW e \in Entry, WithinLimit(s),
         \A i \in 1..Len(s) : Owed(s, i) + Interval <= Since(s, i, e.at, e.life)
  PROVE  WithinLimit(Append(s, e))
<1> DEFINE a == Append(s, e)
<1>1. DOMAIN a = 1..Len(s) + 1 /\ DOMAIN s = 1..Len(s) /\ Len(s) \in Nat
  BY OwedMore
<1>2. SUFFICES ASSUME NEW i \in 1..Len(s) + 1, NEW j \in 1..Len(s) + 1, i <= j
               PROVE  (j - i + 1 - Burst) * Interval <=
                        a[j].at - a[i].at + (a[j].life - a[i].life) * Lost
  BY <1>1 DEF WithinLimit
<1>3. CASE j \in 1..Len(s)
  <2>1. i \in 1..Len(s)
    BY <1>1, <1>2, <1>3
  <2>2. a[i] = s[i] /\ a[j] = s[j]
    BY <1>3, <2>1, OwedMore
  <2> HIDE DEF a
  <2> QED BY <1>1, <1>2, <1>3, <2>1, <2>2 DEF WithinLimit
<1>4. CASE i \in 1..Len(s) /\ j = Len(s) + 1
  <2>1. a[i] = s[i] /\ a[j] = e /\ Owed(a, i) = Owed(s, i) + Interval
    BY <1>4, OwedMore
  <2>2. Owed(a, i) = (j - i + 1 - Burst) * Interval
    BY <1>4, OwedMore DEF Owed
  <2>3. Since(s, i, e.at, e.life) = a[j].at - a[i].at + (a[j].life - a[i].life) * Lost
    BY <2>1 DEF Since
  <2>4. Owed(s, i) + Interval <= Since(s, i, e.at, e.life)
    BY <1>4
  <2> QED BY <2>1, <2>2, <2>3, <2>4
<1>5. CASE i = Len(s) + 1 /\ j = Len(s) + 1
  <2>1. a[i] = e /\ a[j] = e /\ e.at \in Int /\ e.life \in Int
    <3>1. e.at \in Int /\ e.life \in Int
      BY DEF Entry
    <3> QED BY <3>1, <1>5, OwedMore
  <2>2. j - i + 1 - Burst = 1 - Burst
    BY <1>1, <1>5, RateLimiterAssumption
  <2>3. a[j].at - a[i].at = 0 /\ a[j].life - a[i].life = 0 /\ 0 * Lost = 0
    BY <2>1, ConstantTypes
  <2>4. (j - i + 1 - Burst) * Interval = Interval - Full
    BY <2>2, FirstOwed
  <2> QED BY <2>3, <2>4, ConstantTypes
<1> QED BY <1>1, <1>2, <1>3, <1>4, <1>5

\* A client without a bucket is given one, at a time within MaxSkew.
LEMMA Admitted ==
  ASSUME NEW s \in Seq(Entry), NEW k \in Seq(Int), NEW n \in Int, NEW t \in Int,
         n - MaxSkew <= t, t <= n, History(s, k, n), Gone(s, k, n)
  PROVE  LET a == Append(s, [at |-> t, life |-> LastLife(s) + 1])
         IN /\ a \in Seq(Entry) /\ History(a, k, n)
            /\ Sound(a, k, NewBucket(t), n) /\ Tight(a, NewBucket(t))
<1> DEFINE e == [at |-> t, life |-> LastLife(s) + 1]
           a == Append(s, e)
           b == NewBucket(t)
<1> USE ConstantTypes
<1>1. LastLife(s) \in Int
  BY LastLifeInt
<1>2. e \in Entry /\ e.at = t /\ e.life = LastLife(s) + 1
  BY <1>1 DEF Entry
<1>3. /\ b \in Bucket /\ b.credit = Full - Interval /\ b.at = t
      /\ b.credit <= Full /\ -MaxSkew <= b.credit /\ b.at <= n /\ b.at - b.credit <= n
  BY ClockAssumption DEF NewBucket, Bucket, NoKod
<1> HIDE DEF e, b
<1>4. ASSUME NEW i \in 1..Len(s)
      PROVE  Owed(s, i) + Full <= Since(s, i, t, e.life)
  <2> DEFINE v == n - MaxSkew
             l == e.life
  <2>1. Owed(s, i) \in Int /\ v \in Int /\ l \in Int /\ v <= t
    BY <1>1, <1>2, OwedInt
  <2>2. Owed(s, i) + Full <= Since(s, i, v, l)
    BY <1>2 DEF Gone
  <2> HIDE DEF v, l
  <2>3. Since(s, i, v, l) \in Int
    BY <2>1, SinceInt
  <2>4. Since(s, i, t, l) = Since(s, i, v, l) + (t - v)
    BY <2>1, SinceLater
  <2>5. Owed(s, i) + Full <= Since(s, i, t, l)
    BY <2>1, <2>2, <2>3, <2>4
  <2> QED BY <2>5 DEF l
<1>5. History(a, k, n)
  <2>1. ASSUME NEW i \in 1..Len(s) PROVE Owed(s, i) + Interval <= Since(s, i, e.at, e.life)
    <3>1. Owed(s, i) \in Int /\ e.life \in Int
      <4>1. e.life \in Int
        BY <1>1, <1>2
      <4> QED BY <4>1, OwedInt
    <3>2. Since(s, i, t, e.life) \in Int
      BY <3>1, SinceInt
    <3> QED BY <1>2, <1>4, <3>1, <3>2
  <2>2. WithinLimit(a)
    BY <1>2, <2>1, OneMoreWithin DEF History
  <2> QED BY <2>2 DEF History
<1>6. \A i \in 1..Len(a) : Owed(a, i) + b.credit <= Since(a, i, b.at, LastLife(a))
  <2>1. Len(a) = Len(s) + 1 /\ LastLife(a) = e.life /\ e.life \in Int
    BY <1>1, <1>2, OwedMore
  <2>2. ASSUME NEW i \in 1..Len(s) PROVE Owed(a, i) + b.credit <= Since(a, i, b.at, LastLife(a))
    <3>1. Owed(s, i) \in Int /\ Since(s, i, t, e.life) \in Int
      <4>1. Owed(s, i) \in Int
        BY OwedInt
      <4>2. Since(s, i, t, e.life) \in Int
        BY <2>1, SinceInt
      <4> QED BY <4>1, <4>2
    <3>2. Owed(a, i) = Owed(s, i) + Interval /\ Since(a, i, t, e.life) = Since(s, i, t, e.life)
      BY <1>2, <2>1, OwedMore
    <3> QED BY <1>3, <1>4, <2>1, <3>1, <3>2
  <2>3. Owed(a, Len(s) + 1) + b.credit <= Since(a, Len(s) + 1, b.at, LastLife(a))
    <3>1. Owed(a, Len(s) + 1) = Interval - Full /\ Since(a, Len(s) + 1, t, e.life) = t - e.at
      BY <1>2, OwedMore
    <3> QED BY <1>2, <1>3, <2>1, <3>1
  <2> HIDE DEF a
  <2> QED BY <2>1, <2>2, <2>3
<1>7. Sound(a, k, b, n)
  BY <1>3, <1>6 DEF Sound, Gone
<1>8. Tight(a, b)
  <2>1. Len(a) = Len(s) + 1 /\ a[Len(s) + 1] = e /\ Owed(a, Len(s) + 1) = Interval - Full
    BY <1>2, OwedMore
  <2>2. Len(s) + 1 \in 1..Len(a)
    BY <2>1
  <2> HIDE DEF a
  <2>3. Owed(a, Len(s) + 1) + b.credit = b.at - a[Len(s) + 1].at
    <3>1. Interval - Full + (Full - Interval) = t - t
      OBVIOUS
    <3> QED BY <1>2, <1>3, <2>1, <3>1, Zenon
  <2> QED BY <2>2, <2>3 DEF Tight
<1>9. a \in Seq(Entry)
  BY <1>2
<1> QED BY <1>5, <1>7, <1>8, <1>9 DEF e, b

\* The bucket after it has been refilled at time t.
Filled(b, t) == [b EXCEPT !.credit = Refilled(b, t), !.at = t]

LEMMA Refill ==
  ASSUME NEW s \in Seq(Entry), NEW k \in Seq(Int), NEW b, NEW n \in Int, NEW t \in Int,
         n - MaxSkew <= t, t <= n, History(s, k, n), Sound(s, k, b, n), Tight(s, b)
  PROVE  /\ Sound(s, k, Filled(b, t), n)
         /\ Filled(b, t).credit = Refilled(b, t) /\ Filled(b, t).at = t
         /\ Filled(b, t).kodAt = b.kodAt
         /\ Refilled(b, t) \in Int
         /\ Refilled(b, t) = Full \/ Tight(s, Filled(b, t))
<1> USE ConstantTypes
<1>1. b \in Bucket /\ b.credit \in Int /\ b.at \in Int /\ b.kodAt \in Int
  BY DEF Sound, Bucket
<1>2. Refilled(b, t) \in Int /\ Refilled(b, t) <= Full /\ Refilled(b, t) <= b.credit + (t - b.at)
      /\ (Refilled(b, t) = Full \/ Refilled(b, t) = b.credit + (t - b.at))
  BY <1>1 DEF Refilled, Smaller
<1> DEFINE f == Filled(b, t)
<1>3. f \in Bucket /\ f.credit = Refilled(b, t) /\ f.at = t /\ f.kodAt = b.kodAt
  BY <1>1, <1>2 DEF Filled, Bucket
<1> HIDE DEF f
<1>4. -MaxSkew <= f.credit /\ f.at - f.credit <= n
  <2>1. b.at - b.credit <= n
    BY DEF Sound
  <2>2. ASSUME NEW x \in Int, NEW y \in Int, x - y <= n
        PROVE  /\ -MaxSkew <= y + (t - x) /\ t - (y + (t - x)) <= n
               /\ -MaxSkew <= Full /\ t - Full <= n
    BY <2>2
  <2>3. /\ -MaxSkew <= b.credit + (t - b.at) /\ t - (b.credit + (t - b.at)) <= n
        /\ -MaxSkew <= Full /\ t - Full <= n
    BY <1>1, <2>1, <2>2
  <2> QED BY <1>2, <1>3, <2>3
<1>5. ASSUME NEW i \in 1..Len(s) PROVE Owed(s, i) + f.credit <= Since(s, i, f.at, LastLife(s))
  <2>1. Owed(s, i) \in Int /\ LastLife(s) \in Int
    BY OwedInt, LastLifeInt
  <2>2. ASSUME NEW x \in Int, NEW y \in Int, NEW z \in Int, z <= y + (t - x),
               Owed(s, i) + y <= Since(s, i, x, LastLife(s))
        PROVE  Owed(s, i) + z <= Since(s, i, t, LastLife(s))
    <3>1. Since(s, i, x, LastLife(s)) \in Int
      BY <2>1, SinceInt
    <3>2. Since(s, i, t, LastLife(s)) = Since(s, i, x, LastLife(s)) + (t - x)
      BY <2>1, SinceLater
    <3> QED BY <2>1, <2>2, <3>1, <3>2
  <2>3. Owed(s, i) + b.credit <= Since(s, i, b.at, LastLife(s))
    BY DEF Sound
  <2>4. Owed(s, i) + f.credit <= Since(s, i, t, LastLife(s))
    BY <1>1, <1>2, <1>3, <2>2, <2>3
  <2> QED BY <1>3, <2>4
<1>6. k # <<>> => \/ f.kodAt = k[Len(k)] /\ k[Len(k)] <= f.at + MaxSkew
                  \/ k[Len(k)] + Full + 1 <= n + MaxSkew
  <2>1. k # <<>> => k[Len(k)] \in Int /\ k[Len(k)] <= n
    BY DEF History
  <2> QED BY <1>3, <2>1 DEF Sound
<1>7. Sound(s, k, f, n)
  BY <1>2, <1>3, <1>4, <1>5, <1>6 DEF Sound
<1>8. Refilled(b, t) = b.credit + (t - b.at) => Tight(s, f)
  <2> SUFFICES ASSUME Refilled(b, t) = b.credit + (t - b.at) PROVE Tight(s, f)
    OBVIOUS
  <2>1. PICK i \in 1..Len(s) : Owed(s, i) + b.credit = b.at - s[i].at
    BY DEF Tight
  <2>2. Owed(s, i) \in Int /\ s[i].at \in Int
    BY OwedInt
  <2> DEFINE o == Owed(s, i)
             x == b.at
             y == b.credit
             z == s[i].at
  <2>3. o \in Int /\ x \in Int /\ y \in Int /\ z \in Int /\ o + y = x - z
    BY <1>1, <2>1, <2>2
  <2>5. o + (y + (t - x)) = t - z
    <3> HIDE DEF o, x, y, z
    <3> QED BY <2>3
  <2>4. Owed(s, i) + f.credit = f.at - s[i].at
    BY <1>3, <2>5, Zenon
  <2> QED BY <2>4 DEF Tight
<1> QED BY <1>2, <1>3, <1>7, <1>8 DEF f

\* An answer is paid for with a token.
LEMMA Paid ==
  ASSUME NEW s \in Seq(Entry), NEW k \in Seq(Int), NEW f, NEW n \in Int, NEW t \in Int,
         t <= n, History(s, k, n), Sound(s, k, f, n), f.at = t, Interval <= f.credit,
         f.credit = Full \/ Tight(s, f)
  PROVE  LET a == Append(s, [at |-> t, life |-> LastLife(s)])
             g == [f EXCEPT !.credit = f.credit - Interval]
         IN a \in Seq(Entry) /\ History(a, k, n) /\ Sound(a, k, g, n) /\ Tight(a, g)
<1> DEFINE e == [at |-> t, life |-> LastLife(s)]
           a == Append(s, e)
           g == [f EXCEPT !.credit = f.credit - Interval]
<1> USE ConstantTypes
<1>1. LastLife(s) \in Int
  BY LastLifeInt
<1>2. e \in Entry /\ e.at = t /\ e.life = LastLife(s) /\ e.life \in Int
  BY <1>1 DEF Entry
<1>3. f \in Bucket /\ f.credit \in Int /\ f.kodAt \in Int /\ f.credit <= Full
  BY DEF Sound, Bucket
<1>4. g \in Bucket /\ g.credit = f.credit - Interval /\ g.at = t /\ g.kodAt = f.kodAt
  <2>1. f.credit - Interval \in Int
    BY <1>3
  <2>2. ASSUME NEW x \in Int
        PROVE  LET h == [f EXCEPT !.credit = x]
               IN h \in Bucket /\ h.credit = x /\ h.at = t /\ h.kodAt = f.kodAt
    BY <1>3 DEF Bucket
  <2> QED BY <2>1, <2>2
<1> HIDE DEF g
<1>5. g.credit <= Full /\ -MaxSkew <= g.credit /\ g.at <= n /\ g.at - g.credit <= n
  BY <1>3, <1>4
<1> HIDE DEF e
<1>6. /\ a \in Seq(Entry) /\ Len(a) = Len(s) + 1 /\ LastLife(a) = e.life /\ a[Len(s) + 1] = e
      /\ Owed(a, Len(s) + 1) = Interval - Full /\ Since(a, Len(s) + 1, t, e.life) = t - e.at
      /\ \A i \in 1..Len(s) : /\ a[i] = s[i]
                              /\ Owed(a, i) = Owed(s, i) + Interval
                              /\ Since(a, i, t, e.life) = Since(s, i, t, e.life)
  <2>1. /\ a \in Seq(Entry) /\ Len(a) = Len(s) + 1 /\ LastLife(a) = e.life /\ a[Len(s) + 1] = e
        /\ Owed(a, Len(s) + 1) = Interval - Full
    BY <1>2, OwedMore
  <2>2. Since(a, Len(s) + 1, t, e.life) = t - e.at
    BY <1>2, OwedMore
  <2>3. ASSUME NEW i \in 1..Len(s)
        PROVE  a[i] = s[i] /\ Owed(a, i) = Owed(s, i) + Interval
    BY <1>2, OwedMore
  <2>4. ASSUME NEW i \in 1..Len(s) PROVE Since(a, i, t, e.life) = Since(s, i, t, e.life)
    BY <1>2, OwedMore
  <2> HIDE DEF a
  <2> QED BY <2>1, <2>2, <2>3, <2>4
<1> HIDE DEF a
<1>7. ASSUME NEW i \in 1..Len(s)
      PROVE  /\ Owed(s, i) \in Int /\ Since(s, i, t, e.life) \in Int
             /\ Owed(s, i) + f.credit <= Since(s, i, t, e.life)
  <2>1. Owed(s, i) \in Int
    BY OwedInt
  <2>2. Since(s, i, t, e.life) \in Int
    BY <1>2, SinceInt
  <2>3. Owed(s, i) + f.credit <= Since(s, i, t, e.life)
    BY <1>2 DEF Sound
  <2> QED BY <2>1, <2>2, <2>3
<1>8. History(a, k, n)
  <2>1. ASSUME NEW i \in 1..Len(s) PROVE Owed(s, i) + Interval <= Since(s, i, e.at, e.life)
    BY <1>2, <1>3, <1>7
  <2>2. WithinLimit(a)
    BY <1>2, <2>1, OneMoreWithin DEF History, a
  <2> QED BY <2>2 DEF History
<1>9. ASSUME NEW i \in 1..Len(a) PROVE Owed(a, i) + g.credit <= Since(a, i, g.at, LastLife(a))
  <2>1. CASE i \in 1..Len(s)
    BY <1>3, <1>4, <1>6, <1>7, <2>1
  <2>2. CASE i = Len(s) + 1
    BY <1>2, <1>3, <1>4, <1>6, <2>2
  <2> QED BY <1>6, <2>1, <2>2
<1>10. Sound(a, k, g, n)
  BY <1>4, <1>5, <1>9 DEF Sound
<1>11. Tight(a, g)
  <2>1. CASE f.credit = Full
    <3>1. Len(s) + 1 \in 1..Len(a)
      BY <1>6
    <3>2. Owed(a, Len(s) + 1) + g.credit = g.at - a[Len(s) + 1].at
      BY <1>2, <1>4, <1>6, <2>1
    <3> QED BY <3>1, <3>2 DEF Tight
  <2>2. CASE Tight(s, f)
    <3>1. PICK i \in 1..Len(s) : Owed(s, i) + f.credit = f.at - s[i].at
      BY <2>2 DEF Tight
    <3>2. i \in 1..Len(a) /\ a[i].at = s[i].at
      BY <1>6
    <3>3. Owed(a, i) + g.credit = Owed(s, i) + f.credit
      BY <1>3, <1>4, <1>6, <1>7
    <3>4. Owed(a, i) + g.credit = g.at - a[i].at
      BY <1>4, <3>1, <3>2, <3>3
    <3> QED BY <3>2, <3>4 DEF Tight
  <2> QED BY <2>1, <2>2
<1> QED BY <1>6, <1>8, <1>10, <1>11 DEF e, a, g

\* Without a token, one more answer would break the limit.
LEMMA Refused ==
  ASSUME NEW s \in Seq(Entry), NEW k \in Seq(Int), NEW f, NEW n \in Int, NEW t \in Int,
         Sound(s, k, f, n), f.at = t, f.credit < Interval, f.credit = Full \/ Tight(s, f)
  PROVE  /\ Tight(s, f)
         /\ \E i \in DOMAIN s : (Len(s) - i + 2 - Burst) * Interval > t - s[i].at
<1> USE ConstantTypes
<1>1. f.credit \in Int
  BY DEF Sound, Bucket
<1>2. Tight(s, f)
  BY <1>1
<1>3. PICK i \in 1..Len(s) : Owed(s, i) + f.credit = f.at - s[i].at
  BY <1>2 DEF Tight
<1>4. Owed(s, i) \in Int
  BY OwedInt
<1>5. (Len(s) - i + 2 - Burst) * Interval = Owed(s, i) + Interval
  <2>1. Len(s) - i + 2 - Burst = (Len(s) - i + 1 - Burst) + 1 /\ Len(s) - i + 1 - Burst \in Int
    BY RateLimiterAssumption
  <2> QED BY <2>1, OneMore DEF Owed
<1>6. Owed(s, i) + Interval > Owed(s, i) + f.credit
  BY <1>1, <1>4
<1>7. i \in DOMAIN s
  OBVIOUS
<1> QED BY <1>2, <1>3, <1>5, <1>6, <1>7

\* A kiss keeps its distance from the one before.
LEMMA Kissed ==
  ASSUME NEW s \in Seq(Entry), NEW k \in Seq(Int), NEW f, NEW n \in Int, NEW t \in Int,
         n - MaxSkew <= t, t <= n, History(s, k, n), Sound(s, k, f, n), f.at = t, Tight(s, f),
         t - f.kodAt >= KodEvery
  PROVE  LET g == [f EXCEPT !.kodAt = t]
         IN /\ Append(k, t) \in Seq(Int) /\ History(s, Append(k, t), n)
            /\ Sound(s, Append(k, t), g, n) /\ Tight(s, g)
<1> DEFINE g == [f EXCEPT !.kodAt = t]
           m == Append(k, t)
<1>1. f \in Bucket /\ f.credit \in Int /\ f.kodAt \in Int
  BY DEF Sound, Bucket
<1>2. g \in Bucket /\ g.credit = f.credit /\ g.at = t /\ g.kodAt = t
  BY <1>1 DEF Bucket
<1>3. /\ m \in Seq(Int) /\ Len(m) = Len(k) + 1 /\ m[Len(k) + 1] = t /\ m # <<>> /\ Len(k) \in Nat
      /\ \A i \in 1..Len(k) : m[i] = k[i]
  <2>1. \A q \in Seq(Int), x \in Int : /\ Append(q, x) \in Seq(Int) /\ Len(Append(q, x)) = Len(q) + 1
                                       /\ Append(q, x)[Len(q) + 1] = x /\ Len(q) \in Nat
                                       /\ \A i \in 1..Len(q) : Append(q, x)[i] = q[i]
    OBVIOUS
  <2>2. m # <<>>
    OBVIOUS
  <2> QED BY <2>1, <2>2
<1> USE ConstantTypes
<1> HIDE DEF g, m
<1>4. ASSUME NEW i \in 1..Len(m) - 1 PROVE m[i + 1] - m[i] >= KodGap
  <2>1. CASE i < Len(k)
    <3>1. m[i + 1] = k[i + 1] /\ m[i] = k[i] /\ i \in 1..Len(k) - 1
      BY <1>3, <2>1
    <3> QED BY <3>1 DEF History
  <2>2. CASE i = Len(k)
    <3>1. k # <<>> /\ m[i + 1] = t /\ m[i] = k[Len(k)] /\ k[Len(k)] \in Int
      BY <1>3, <2>2
    <3>2. CASE f.kodAt = k[Len(k)]
      BY <1>1, <3>1, <3>2
    <3>3. CASE k[Len(k)] + Full + 1 <= n + MaxSkew
      BY <3>1, <3>3
    <3> QED BY <3>1, <3>2, <3>3 DEF Sound
  <2> QED BY <1>3, <2>1, <2>2
<1>5. History(s, m, n)
  BY <1>3, <1>4 DEF History
<1>6. Sound(s, m, g, n)
  <2>1. g.kodAt = m[Len(m)] /\ m[Len(m)] <= g.at + MaxSkew
    BY <1>2, <1>3
  <2>2. \A i \in 1..Len(s) : Owed(s, i) + g.credit <= Since(s, i, g.at, LastLife(s))
    BY <1>2 DEF Sound
  <2>3. g.credit <= Full /\ -MaxSkew <= g.credit /\ g.at <= n /\ g.at - g.credit <= n
    BY <1>2 DEF Sound
  <2> QED BY <1>2, <2>1, <2>2, <2>3 DEF Sound
<1>7. Tight(s, g)
  BY <1>2 DEF Tight
<1> QED BY <1>3, <1>5, <1>6, <1>7 DEF g, m
-----------------------------------------------------------------------------
(* The map.                                                                *)
LEMMA SweepKeeps ==
  ASSUME LimiterInv, NEW B, Accounts(B), NEW t \in Int, t <= now, NEW idle \in Int, Full <= idle
  PROVE  Accounts(Swept(B, t, idle)) /\ DOMAIN Swept(B, t, idle) \subseteq DOMAIN B
<1> DEFINE C == Swept(B, t, idle)
<1> USE ConstantTypes
<1>1. /\ DOMAIN C = {d \in DOMAIN B : t - B[d].at <= idle}
      /\ \A d \in DOMAIN C : C[d] = B[d]
      /\ C = [d \in DOMAIN C |-> C[d]]
  BY DEF Swept
<1> HIDE DEF C
<1>2. DOMAIN C \subseteq DOMAIN B /\ DOMAIN B \subseteq Clients
  BY <1>1 DEF Accounts
<1>3. ASSUME NEW c \in Clients, c \in DOMAIN C
      PROVE  Sound(answers[c], kods[c], C[c], now) /\ Tight(answers[c], C[c])
  BY <1>1, <1>2, <1>3 DEF Accounts
<1>4. ASSUME NEW c \in Clients, c \notin DOMAIN C PROVE Gone(answers[c], kods[c], now)
  <2>1. CASE c \notin DOMAIN B
    BY <2>1 DEF Accounts
  <2>2. CASE c \in DOMAIN B
    <3>1. Sound(answers[c], kods[c], B[c], now)
      BY <2>2 DEF Accounts
    <3>2. B[c].at \in Int
      BY <3>1 DEF Sound, Bucket
    <3>3. t - B[c].at > Full
      BY <1>1, <1>4, <2>2, <3>2
    <3>4. answers[c] \in Seq(Entry) /\ kods[c] \in Seq(Int) /\ now \in Int
      BY DEF LimiterInv
    <3> QED BY <3>1, <3>3, <3>4, Forgotten
  <2> QED BY <2>1, <2>2
<1> QED BY <1>1, <1>2, <1>3, <1>4 DEF Accounts, C

\* A call's time, and the map once the minute's sweep is made.
LEMMA CallStarts ==
  ASSUME LimiterInv, NEW t \in Stamps
  PROVE  /\ t \in Int /\ now - MaxSkew <= t /\ t <= now /\ now \in Int
         /\ Accounts(AfterSweep(t)) /\ SweptAt(t) \in Int
<1>1. t \in Int /\ now - MaxSkew <= t /\ t <= now /\ now \in Int
  BY ConstantTypes DEF LimiterInv, Stamps, Larger
<1>2. SweptAt(t) \in Int
  BY <1>1 DEF LimiterInv, SweptAt
<1>3. Larger(SweepEvery, Full) \in Int /\ Full <= Larger(SweepEvery, Full)
  BY ConstantTypes, RateLimiterAssumption DEF Larger
<1>4. Accounts(buckets)
  BY DEF LimiterInv
<1>5. Accounts(Swept(buckets, t, Larger(SweepEvery, Full)))
  BY <1>1, <1>3, <1>4, SweepKeeps
<1>6. Accounts(AfterSweep(t))
  BY <1>4, <1>5 DEF AfterSweep
<1> QED BY <1>1, <1>2, <1>6

\* Only client c is touched.
LEMMA OneClient ==
  ASSUME LimiterInv, NEW B, Accounts(B), NEW c \in Clients, now' = now,
         answers' = [answers EXCEPT ![c] = answers'[c]], kods' = [kods EXCEPT ![c] = kods'[c]],
         answers'[c] \in Seq(Entry), kods'[c] \in Seq(Int), History(answers'[c], kods'[c], now),
         ~wronged', lastSweep' \in Int,
         DOMAIN buckets' = DOMAIN B \union {c}, buckets' = [d \in DOMAIN buckets' |-> buckets'[d]],
         \A d \in DOMAIN B \ {c} : buckets'[d] = B[d],
         Sound(answers'[c], kods'[c], buckets'[c], now), Tight(answers'[c], buckets'[c])
  PROVE  LimiterInv'
<1>1. answers \in [Clients -> Seq(Entry)] /\ kods \in [Clients -> Seq(Int)] /\ now \in Nat
  BY DEF LimiterInv
<1>2. /\ answers' \in [Clients -> Seq(Entry)] /\ kods' \in [Clients -> Seq(Int)]
      /\ \A d \in Clients \ {c} : answers'[d] = answers[d] /\ kods'[d] = kods[d]
  BY <1>1
<1>3. \A d \in Clients : History(answers'[d], kods'[d], now)
  BY <1>2 DEF LimiterInv
<1>4. \A d \in Clients : (d \in DOMAIN buckets' <=> d \in DOMAIN B \/ d = c)
  OBVIOUS
<1>5. \A d \in Clients :
        /\ d \in DOMAIN buckets' => /\ Sound(answers'[d], kods'[d], buckets'[d], now)
                                    /\ Tight(answers'[d], buckets'[d])
        /\ d \notin DOMAIN buckets' => Gone(answers'[d], kods'[d], now)
  <2> SUFFICES ASSUME NEW d \in Clients
               PROVE  /\ d \in DOMAIN buckets' => /\ Sound(answers'[d], kods'[d], buckets'[d], now)
                                                  /\ Tight(answers'[d], buckets'[d])
                      /\ d \notin DOMAIN buckets' => Gone(answers'[d], kods'[d], now)
    OBVIOUS
  <2>1. CASE d = c
    BY <1>4, <2>1
  <2>2. CASE d # c
    <3>1. answers'[d] = answers[d] /\ kods'[d] = kods[d]
      BY <1>2, <2>2
    <3>2. d \in DOMAIN buckets' => d \in DOMAIN B /\ buckets'[d] = B[d]
      BY <1>4, <2>2
    <3>3. d \notin DOMAIN buckets' => d \notin DOMAIN B
      BY <1>4
    <3> QED BY <3>1, <3>2, <3>3 DEF Accounts
  <2> QED BY <2>1, <2>2
<1>6. DOMAIN buckets' \subseteq Clients
  BY DEF Accounts
<1>7. Accounts(buckets)'
  BY <1>5, <1>6 DEF Accounts, Sound, Tight, Gone, Owed, Since, LastLife, Bucket, Full, Lost, Larger
<1> QED BY <1>1, <1>2, <1>3, <1>7
        DEF LimiterInv, History, WithinLimit, Entry, Lost, Larger, KodGap, KodEvery, Full, Smaller

LEMMA LivesIs == ASSUME NEW c PROVE Lives(c) = LastLife(answers[c])
BY DEF Lives, LastLife

LEMMA AdmitKeeps ==
  ASSUME LimiterInv, NEW c \in Clients, NEW t \in Stamps, NEW v, Admit(c, t, v), now' = now
  PROVE  LimiterInv'
<1> DEFINE B == AfterSweep(t)
           C == IF Crowded(B) /\ MaySweepAtCap(t) THEN SweptAtCap(B, t) ELSE B
           s == answers[c]
           k == kods[c]
<1>1. /\ t \in Int /\ now - MaxSkew <= t /\ t <= now /\ now \in Int
      /\ Accounts(B) /\ SweptAt(t) \in Int
  BY CallStarts
<1>2. Accounts(C) /\ DOMAIN C \subseteq DOMAIN B
  <2> HIDE DEF B
  <2>1. Accounts(SweptAtCap(B, t)) /\ DOMAIN SweptAtCap(B, t) \subseteq DOMAIN B
    BY <1>1, ConstantTypes, SweepKeeps DEF SweptAtCap
  <2> QED BY <1>1, <2>1
<1>3. /\ c \notin DOMAIN B /\ kods' = kods /\ wronged' = wronged
      /\ lastSweep' = IF Crowded(B) /\ MaySweepAtCap(t) THEN t ELSE SweptAt(t)
      /\ HasRoom(C) => buckets' = Put(C, c, NewBucket(t)) /\ AnswerFrom(c, t, Lives(c) + 1)
      /\ ~HasRoom(C) => buckets' = C /\ answers' = answers
  BY DEF Admit
<1> HIDE DEF B, C
<1>4. lastSweep' \in Int
  BY <1>1, <1>3
<1>5. s \in Seq(Entry) /\ k \in Seq(Int) /\ History(s, k, now) /\ Gone(s, k, now)
  BY <1>2, <1>3 DEF LimiterInv, Accounts
<1>6. CASE HasRoom(C)
  <2> DEFINE a == Append(s, [at |-> t, life |-> LastLife(s) + 1])
  <2>1. /\ a \in Seq(Entry) /\ History(a, k, now)
        /\ Sound(a, k, NewBucket(t), now) /\ Tight(a, NewBucket(t))
    BY <1>1, <1>5, Admitted
  <2>2. answers' = [answers EXCEPT ![c] = a]
    BY <1>3, <1>6, LivesIs DEF AnswerFrom
  <2> HIDE DEF a
  <2>3. answers'[c] = a /\ kods'[c] = k
    BY <1>3, <2>2 DEF LimiterInv
  <2>4. answers' = [answers EXCEPT ![c] = answers'[c]] /\ kods' = [kods EXCEPT ![c] = kods'[c]]
    BY <1>3, <2>2, <2>3 DEF LimiterInv
  <2>5. /\ DOMAIN buckets' = DOMAIN C \union {c} /\ buckets' = [d \in DOMAIN buckets' |-> buckets'[d]]
        /\ buckets'[c] = NewBucket(t) /\ \A d \in DOMAIN C \ {c} : buckets'[d] = C[d]
    BY <1>3, <1>6 DEF Put
  <2>6. ~wronged'
    BY <1>3 DEF LimiterInv
  <2> HIDE DEF s, k
  <2> QED BY <1>2, <1>4, <1>5, <2>1, <2>3, <2>4, <2>5, <2>6, OneClient
<1>7. CASE ~HasRoom(C)
  <2>1. buckets' = C /\ answers' = answers /\ kods' = kods
    BY <1>3, <1>7
  <2>2. Accounts(buckets)'
    BY <1>2, <2>1 DEF Accounts, Sound, Tight, Gone, Owed, Since, LastLife, Bucket, Full, Lost, Larger
  <2>3. \A d \in Clients : History(answers'[d], kods'[d], now')
    BY <2>1 DEF LimiterInv
  <2> QED BY <1>3, <1>4, <2>1, <2>2, <2>3
          DEF LimiterInv, History, WithinLimit, Entry, Lost, Larger, KodGap, KodEvery, Full, Smaller
<1> QED BY <1>6, <1>7

LEMMA DrawKeeps ==
  ASSUME LimiterInv, NEW c \in Clients, NEW t \in Stamps, NEW v, Draw(c, t, v), now' = now
  PROVE  LimiterInv'
<1> DEFINE B == AfterSweep(t)
           f == Filled(B[c], t)
           s == answers[c]
           k == kods[c]
<1>1. /\ t \in Int /\ now - MaxSkew <= t /\ t <= now /\ now \in Int
      /\ Accounts(B) /\ SweptAt(t) \in Int
  BY CallStarts
<1>2. /\ c \in DOMAIN B /\ lastSweep' = SweptAt(t)
      /\ \/ /\ Refilled(B[c], t) >= Interval
            /\ buckets' = [B EXCEPT ![c] = [f EXCEPT !.credit = Refilled(B[c], t) - Interval]]
            /\ AnswerFrom(c, t, Lives(c)) /\ UNCHANGED <<kods, wronged>>
         \/ /\ Refilled(B[c], t) < Interval
            /\ buckets' = [B EXCEPT ![c] = f] /\ UNCHANGED <<answers, kods>>
            /\ wronged' = wronged \/ wronged' = (wronged \/ ~OverLimit(c, t))
         \/ /\ Refilled(B[c], t) < Interval /\ KodDue(f, t)
            /\ buckets' = [B EXCEPT ![c] = [f EXCEPT !.kodAt = t]]
            /\ kods' = [kods EXCEPT ![c] = Append(@, t)]
            /\ wronged' = (wronged \/ ~OverLimit(c, t)) /\ UNCHANGED answers
  BY Zenon DEF Draw, Filled, limiterHistory
<1> HIDE DEF B
<1>3. s \in Seq(Entry) /\ k \in Seq(Int) /\ History(s, k, now)
  BY DEF LimiterInv
<1>4. Sound(s, k, B[c], now) /\ Tight(s, B[c])
  BY <1>1, <1>2 DEF Accounts
<1>5. /\ Sound(s, k, f, now) /\ f.credit = Refilled(B[c], t) /\ f.at = t
      /\ Refilled(B[c], t) \in Int /\ (f.credit = Full \/ Tight(s, f))
  <2> DEFINE b == B[c]
  <2>1. Sound(s, k, b, now) /\ Tight(s, b)
    BY <1>4
  <2> HIDE DEF b, s, k
  <2>2. /\ Sound(s, k, Filled(b, t), now)
        /\ Filled(b, t).credit = Refilled(b, t) /\ Filled(b, t).at = t
        /\ Refilled(b, t) \in Int /\ (Refilled(b, t) = Full \/ Tight(s, Filled(b, t)))
    BY <1>1, <1>3, <2>1, Refill
  <2> QED BY <2>2, Zenon DEF b
<1> HIDE DEF f
<1>6. \A b : /\ DOMAIN [B EXCEPT ![c] = b] = DOMAIN B \union {c} /\ [B EXCEPT ![c] = b][c] = b
             /\ [B EXCEPT ![c] = b] = [d \in DOMAIN [B EXCEPT ![c] = b] |-> [B EXCEPT ![c] = b][d]]
             /\ \A d \in DOMAIN B \ {c} : [B EXCEPT ![c] = b][d] = B[d]
  BY <1>1, <1>2 DEF Accounts
<1>7. answers \in [Clients -> Seq(Entry)] /\ kods \in [Clients -> Seq(Int)] /\ ~wronged
  BY DEF LimiterInv
<1>8. ASSUME f.credit < Interval PROVE Tight(s, f) /\ OverLimit(c, t)
  BY <1>1, <1>3, <1>5, <1>8, Refused DEF OverLimit
<1>9. CASE /\ Refilled(B[c], t) >= Interval
           /\ buckets' = [B EXCEPT ![c] = [f EXCEPT !.credit = Refilled(B[c], t) - Interval]]
           /\ AnswerFrom(c, t, Lives(c)) /\ UNCHANGED <<kods, wronged>>
  <2> DEFINE a == Append(s, [at |-> t, life |-> LastLife(s)])
             g == [f EXCEPT !.credit = f.credit - Interval]
  <2>1. Interval <= f.credit
    BY <1>5, <1>9, ConstantTypes
  <2>2. a \in Seq(Entry) /\ History(a, k, now) /\ Sound(a, k, g, now) /\ Tight(a, g)
    BY <1>1, <1>3, <1>5, <2>1, Paid
  <2>3. answers' = [answers EXCEPT ![c] = a] /\ buckets' = [B EXCEPT ![c] = g]
    BY <1>5, <1>9, LivesIs DEF AnswerFrom
  <2> HIDE DEF a, g
  <2>4. answers'[c] = a /\ kods'[c] = k /\ ~wronged'
    BY <1>7, <1>9, <2>3
  <2>5. answers' = [answers EXCEPT ![c] = answers'[c]] /\ kods' = [kods EXCEPT ![c] = kods'[c]]
    BY <1>7, <1>9, <2>3, <2>4
  <2>6. /\ DOMAIN buckets' = DOMAIN B \union {c} /\ buckets' = [d \in DOMAIN buckets' |-> buckets'[d]]
        /\ buckets'[c] = g /\ \A d \in DOMAIN B \ {c} : buckets'[d] = B[d]
    BY <1>6, <2>3
  <2> HIDE DEF s, k
  <2> QED BY <1>1, <1>2, <1>3, <2>2, <2>4, <2>5, <2>6, OneClient
<1>10. CASE /\ Refilled(B[c], t) < Interval
            /\ buckets' = [B EXCEPT ![c] = f] /\ UNCHANGED <<answers, kods>>
            /\ wronged' = wronged \/ wronged' = (wronged \/ ~OverLimit(c, t))
  <2>1. Tight(s, f) /\ OverLimit(c, t)
    BY <1>5, <1>8, <1>10
  <2>5. ~wronged'
    BY <1>7, <1>10, <2>1, Zenon
  <2>2. answers'[c] = s /\ kods'[c] = k /\ ~wronged'
    BY <1>7, <1>10, <2>5
  <2>3. answers' = [answers EXCEPT ![c] = answers'[c]] /\ kods' = [kods EXCEPT ![c] = kods'[c]]
    BY <1>7, <1>10
  <2>4. /\ DOMAIN buckets' = DOMAIN B \union {c} /\ buckets' = [d \in DOMAIN buckets' |-> buckets'[d]]
        /\ buckets'[c] = f /\ \A d \in DOMAIN B \ {c} : buckets'[d] = B[d]
    BY <1>6, <1>10
  <2> HIDE DEF s, k
  <2> QED BY <1>1, <1>2, <1>3, <1>5, <2>1, <2>2, <2>3, <2>4, OneClient
<1>11. CASE /\ Refilled(B[c], t) < Interval /\ KodDue(f, t)
            /\ buckets' = [B EXCEPT ![c] = [f EXCEPT !.kodAt = t]]
            /\ kods' = [kods EXCEPT ![c] = Append(@, t)]
            /\ wronged' = (wronged \/ ~OverLimit(c, t)) /\ UNCHANGED answers
  <2> DEFINE g == [f EXCEPT !.kodAt = t]
             m == Append(k, t)
  <2>1. Tight(s, f) /\ OverLimit(c, t) /\ t - f.kodAt >= KodEvery
    BY <1>5, <1>8, <1>11 DEF KodDue
  <2>2. m \in Seq(Int) /\ History(s, m, now) /\ Sound(s, m, g, now) /\ Tight(s, g)
    BY <1>1, <1>3, <1>5, <2>1, Kissed
  <2>3. kods' = [kods EXCEPT ![c] = m] /\ buckets' = [B EXCEPT ![c] = g]
    BY <1>11
  <2> HIDE DEF m, g
  <2>4. answers'[c] = s /\ kods'[c] = m /\ ~wronged'
    BY <1>7, <1>11, <2>1, <2>3
  <2>5. answers' = [answers EXCEPT ![c] = answers'[c]] /\ kods' = [kods EXCEPT ![c] = kods'[c]]
    BY <1>7, <1>11, <2>3, <2>4
  <2>6. /\ DOMAIN buckets' = DOMAIN B \union {c} /\ buckets' = [d \in DOMAIN buckets' |-> buckets'[d]]
        /\ buckets'[c] = g /\ \A d \in DOMAIN B \ {c} : buckets'[d] = B[d]
    BY <1>6, <2>3
  <2> HIDE DEF s, k
  <2> QED BY <1>1, <1>2, <1>3, <2>2, <2>4, <2>5, <2>6, OneClient
<1> QED BY <1>2, <1>9, <1>10, <1>11

LEMMA LimiterStarts == LimiterStart => LimiterInv
<1> SUFFICES ASSUME LimiterStart PROVE LimiterInv
  OBVIOUS
<1>1. /\ now = 0 /\ lastSweep = 0 /\ ~wronged /\ DOMAIN buckets = {}
      /\ buckets = [c \in DOMAIN buckets |-> buckets[c]]
      /\ answers = [c \in Clients |-> <<>>] /\ kods = [c \in Clients |-> <<>>]
  BY DEF LimiterStart, LimiterInit
<1>2. /\ answers \in [Clients -> Seq(Entry)] /\ kods \in [Clients -> Seq(Int)]
      /\ \A c \in Clients : answers[c] = <<>> /\ kods[c] = <<>>
  BY <1>1
<1>3. History(<<>>, <<>>, 0) /\ Gone(<<>>, <<>>, 0)
  BY DEF History, WithinLimit, Gone
<1>4. Accounts(buckets)
  BY <1>1, <1>2, <1>3 DEF Accounts
<1> QED BY <1>1, <1>2, <1>3, <1>4 DEF LimiterInv

LEMMA LimiterKeeps == LimiterInv /\ [LimiterNext]_limiterSpecVars => LimiterInv'
<1> SUFFICES ASSUME LimiterInv, [LimiterNext]_limiterSpecVars PROVE LimiterInv'
  OBVIOUS
<1>1. ASSUME UNCHANGED <<limiterVars, limiterHistory>>, now' \in Nat, now <= now' PROVE LimiterInv'
  <2>1. /\ buckets' = buckets /\ lastSweep' = lastSweep /\ answers' = answers /\ kods' = kods
        /\ wronged' = wronged
    BY <1>1 DEF limiterVars, limiterHistory
  <2>2. now \in Nat /\ now' \in Int /\ now \in Int
    BY <1>1 DEF LimiterInv
  <2>3. ASSUME NEW c \in Clients
        PROVE  /\ History(answers[c], kods[c], now')
               /\ c \in DOMAIN buckets =>
                    Sound(answers[c], kods[c], buckets[c], now') /\ Tight(answers[c], buckets[c])
               /\ c \notin DOMAIN buckets => Gone(answers[c], kods[c], now')
    <3>1. answers[c] \in Seq(Entry) /\ kods[c] \in Seq(Int) /\ History(answers[c], kods[c], now)
      BY DEF LimiterInv
    <3>2. /\ c \in DOMAIN buckets =>
               Sound(answers[c], kods[c], buckets[c], now) /\ Tight(answers[c], buckets[c])
          /\ c \notin DOMAIN buckets => Gone(answers[c], kods[c], now)
      BY DEF LimiterInv, Accounts
    <3>3. /\ History(answers[c], kods[c], now) => History(answers[c], kods[c], now')
          /\ \A b : Sound(answers[c], kods[c], b, now) => Sound(answers[c], kods[c], b, now')
          /\ Gone(answers[c], kods[c], now) => Gone(answers[c], kods[c], now')
      BY <1>1, <2>2, <3>1, TimePasses
    <3> QED BY <3>1, <3>2, <3>3
  <2>4. buckets = [c \in DOMAIN buckets |-> buckets[c]] /\ DOMAIN buckets \subseteq Clients
    BY DEF LimiterInv, Accounts
  <2>5. Accounts(buckets)'
    BY <2>1, <2>3, <2>4
       DEF Accounts, Sound, Tight, Gone, Owed, Since, LastLife, Bucket, Full, Lost, Larger
  <2> QED BY <1>1, <2>1, <2>3, <2>5
          DEF LimiterInv, History, WithinLimit, Entry, Lost, Larger, KodGap, KodEvery, Full, Smaller
<1>2. ASSUME NEW c \in Clients, NEW t \in Stamps, NEW v \in Verdicts, Check(c, t, v), now' = now
      PROVE  LimiterInv'
  <2>1. CASE UNCHANGED limiterVars /\ UNCHANGED limiterHistory
    BY <1>1, <1>2, <2>1 DEF LimiterInv
  <2>2. CASE Admit(c, t, v)
    BY <1>2, <2>2, AdmitKeeps
  <2>3. CASE Draw(c, t, v)
    BY <1>2, <2>3, DrawKeeps
  <2> QED BY <1>2, <2>1, <2>2, <2>3 DEF Check
<1>3. CASE AskLimiter
  BY <1>2, <1>3 DEF AskLimiter
<1>4. CASE LimiterWaits
  BY <1>1, <1>4 DEF LimiterWaits, AdvanceClock, LimiterInv
<1>5. CASE UNCHANGED limiterSpecVars
  BY <1>1, <1>5 DEF limiterSpecVars, LimiterInv
<1> QED BY <1>3, <1>4, <1>5 DEF LimiterNext

LEMMA LimiterInvImplies == LimiterInv => LimitExact
<1> SUFFICES ASSUME LimiterInv PROVE LimitExact
  OBVIOUS
<1>1. DOMAIN answers = Clients /\ DOMAIN kods = Clients
  BY DEF LimiterInv
<1>2. RateHeld
  BY <1>1 DEF RateHeld, LimiterInv, History
<1>3. KodsApart
  BY <1>1 DEF KodsApart, LimiterInv, History
<1>4. OnlyOverLimitRefused
  BY DEF OnlyOverLimitRefused, LimiterInv
<1> QED BY <1>2, <1>3, <1>4 DEF LimitExact

(* The token buckets are the limit (RateLimiter::check): for every         *)
(* interval, burst, cap, sweep and lateness of its callers, no window has  *)
(* more answers than the limit allows, nobody is refused within it, and    *)
(* the kisses are apart.                                                   *)
THEOREM LimitKept == LimiterSpec => []LimitExact
<1>1. LimiterSpec => []LimiterInv
  BY LimiterStarts, LimiterKeeps, PTL DEF LimiterSpec
<1> QED BY <1>1, LimiterInvImplies, PTL

LEMMA SweepStep == LimiterInv /\ [LimiterNext]_limiterSpecVars => SweepsApart
<1> SUFFICES ASSUME LimiterInv, [LimiterNext]_limiterSpecVars, lastSweep' # lastSweep
             PROVE  lastSweep' - lastSweep >= Second
  BY DEF SweepsApart
<1>1. PICK c \in Clients, t \in Stamps, v \in Verdicts : Admit(c, t, v) \/ Draw(c, t, v)
  BY DEF LimiterNext, AskLimiter, LimiterWaits, Check, limiterSpecVars, limiterVars
<1>2. /\ t \in Int /\ lastSweep \in Int /\ SweepEvery \in Int /\ Second \in Int
      /\ Second <= SweepEvery /\ Second > 0
  BY CallStarts, ClockAssumption, RateLimiterAssumption DEF LimiterInv
<1>3. \/ lastSweep' = SweptAt(t)
      \/ lastSweep' = t /\ MaySweepAtCap(t)
  BY <1>1 DEF Admit, Draw
<1> QED BY <1>2, <1>3 DEF SweptAt, SweepDue, MaySweepAtCap

(* A flood of new addresses walks the limiter's map at most once a second. *)
THEOREM SweepsKeepApart == LimiterSpec => [][SweepsApart]_limiterSpecVars
<1>1. LimiterSpec => []LimiterInv
  BY LimiterStarts, LimiterKeeps, PTL DEF LimiterSpec
<1> QED BY <1>1, SweepStep, PTL DEF LimiterSpec
-----------------------------------------------------------------------------
(* The service.  A thread that has read the clock and not yet been to the  *)
(* limiter is not late by more than MaxSkew.                               *)
Shape(r) == {"at", "client", "t", "verdict", "c", "seen"} \subseteq DOMAIN r

InTime(r, n) ==
  \/ r = [at |-> r.at] /\ r.at \in {"top", "poll", "done"}
  \/ /\ Shape(r) /\ r.client \in Clients /\ r.at \notin {"top", "poll", "done"}
     /\ r.at \in {"stamped", "limited"} => r.t \in Nat /\ n - MaxSkew <= r.t /\ r.t <= n

ServerInv ==
  /\ now \in Nat /\ srv = [l \in Listeners |-> srv[l]]
  /\ \A l \in Listeners : InTime(srv[l], now)

LEMMA OneThread ==
  ASSUME ServerInv, now' = now, NEW l \in Listeners, NEW r,
         srv' = [srv EXCEPT ![l] = r], InTime(r, now)
  PROVE  ServerInv'
<1>1. srv = [m \in Listeners |-> srv[m]] /\ now \in Nat
  BY DEF ServerInv
<1>2. /\ srv' = [m \in Listeners |-> srv'[m]]
      /\ \A m \in Listeners : srv'[m] = IF m = l THEN r ELSE srv[m]
  BY <1>1
<1>3. \A m \in Listeners : InTime(srv'[m], now')
  BY <1>2 DEF ServerInv
<1> QED BY <1>1, <1>2, <1>3 DEF ServerInv, InTime, Shape

LEMMA ServerKeeps == ServerInv /\ [ServerNext]_serverSpecVars => ServerInv'
<1> SUFFICES ASSUME ServerInv, [ServerNext]_serverSpecVars PROVE ServerInv'
  OBVIOUS
<1> USE ClockAssumption
<1>1. now \in Nat /\ srv = [l \in Listeners |-> srv[l]] /\ \A l \in Listeners : InTime(srv[l], now)
  BY DEF ServerInv
<1>2. ASSUME NEW l \in Listeners, Serve(l) PROVE ServerInv'
  <2> DEFINE r == srv[l]
             Hand == r.at \notin {"top", "poll", "done"}
  <2>1. /\ ~Hand => r = [at |-> r.at]
        /\ Hand => /\ Shape(r) /\ r.client \in Clients
                   /\ r.at \in {"stamped", "limited"} => r.t \in Nat /\ now - MaxSkew <= r.t /\ r.t <= now
    BY <1>1 DEF InTime
  <2>2. InTime(NoRequest, now)
    BY DEF InTime, NoRequest
  <2>3. ASSUME NEW w \in {"top", "poll", "done"}, ~Hand PROVE InTime([r EXCEPT !.at = w], now)
    <3>1. r = [at |-> r.at]
      BY <2>1, <2>3
    <3>2. \A x : [[at |-> x] EXCEPT !.at = w] = [at |-> w]
      OBVIOUS
    <3>3. [r EXCEPT !.at = w] = [at |-> w]
      <4> DEFINE x == r.at
      <4>1. r = [at |-> x]
        BY <3>1
      <4> HIDE DEF x
      <4> QED BY <3>2, <4>1, Zenon
    <3> QED BY <3>3 DEF InTime
  <2>4. ASSUME NEW w \in {"drop", "kod", "unkissed", "answer"}, Hand
        PROVE  InTime([r EXCEPT !.at = w], now)
    <3> DEFINE q == [r EXCEPT !.at = w]
    <3>1. Shape(q) /\ q.at = w /\ q.client = r.client
      BY <2>1, <2>4 DEF Shape
    <3> HIDE DEF q
    <3> QED BY <2>1, <2>4, <3>1 DEF InTime, q
  <2>5. CASE Leave(l) \/ Poll(l) \/ PollTimeout(l)
    <3>1. PICK w \in {"top", "poll", "done"} : srv' = [srv EXCEPT ![l].at = w] /\ ~Hand /\ now' = now
      BY <2>5 DEF Leave, Poll, PollTimeout, Goes, At, services
    <3>2. srv' = [srv EXCEPT ![l] = [r EXCEPT !.at = w]]
      BY <1>1, <3>1
    <3> QED BY <2>3, <3>1, <3>2, OneThread
  <2>6. CASE Receive(l)
    <3>1. PICK c \in Clients, proper \in BOOLEAN :
            srv' = [srv EXCEPT ![l] = [at |-> "received", client |-> c, proper |-> proper,
                                       t |-> 0, verdict |-> "none", c |-> Never, seen |-> {current}]]
      BY <2>6 DEF Receive
    <3> DEFINE q == [at |-> "received", client |-> c, proper |-> proper,
                     t |-> 0, verdict |-> "none", c |-> Never, seen |-> {current}]
    <3>2. Shape(q) /\ q.at = "received" /\ q.client = c
      BY DEF Shape
    <3>3. srv' = [srv EXCEPT ![l] = q] /\ now' = now
      BY <2>6, <3>1 DEF Receive, services
    <3> HIDE DEF q
    <3>4. InTime(q, now)
      BY <3>2 DEF InTime
    <3> QED BY <3>3, <3>4, OneThread
  <2>7. CASE Ignore(l) \/ Drop(l) \/ CountUnkissed(l) \/ Refuse(l) \/ Send(l)
    <3>1. srv' = [srv EXCEPT ![l] = NoRequest] /\ now' = now
      BY <2>7 DEF Ignore, Drop, CountUnkissed, Refuse, Send, Finished, services
    <3> QED BY <2>2, <3>1, OneThread
  <2>8. CASE SendKiss(l)
    <3>1. /\ now' = now /\ Hand
          /\ \/ srv' = [srv EXCEPT ![l] = NoRequest]
             \/ srv' = [srv EXCEPT ![l].at = "unkissed"]
      BY <2>8 DEF SendKiss, Finished, Goes, At, services
    <3>2. CASE srv' = [srv EXCEPT ![l] = NoRequest]
      BY <2>2, <3>1, <3>2, OneThread
    <3>3. CASE srv' = [srv EXCEPT ![l].at = "unkissed"]
      <4>1. srv' = [srv EXCEPT ![l] = [r EXCEPT !.at = "unkissed"]]
        BY <1>1, <3>3
      <4> QED BY <2>4, <3>1, <4>1, OneThread
    <3> QED BY <3>1, <3>2, <3>3
  <2>9. CASE ReadClock(l)
    <3> DEFINE q == [r EXCEPT !.at = "stamped", !.t = now]
    <3>1. srv' = [srv EXCEPT ![l] = q] /\ now' = now /\ Hand
      BY <1>1, <2>9 DEF ReadClock, At, services
    <3>2. Shape(q) /\ q.at = "stamped" /\ q.client = r.client /\ q.t = now
      BY <2>1, <3>1 DEF Shape
    <3> HIDE DEF q
    <3>3. InTime(q, now)
      BY <1>1, <2>1, <3>1, <3>2 DEF InTime
    <3> QED BY <3>1, <3>3, OneThread
  <2>10. CASE Limit(l)
    <3>1. PICK v \in Verdicts : srv' = [srv EXCEPT ![l].at = "limited", ![l].verdict = v]
      BY <2>10 DEF Limit
    <3> DEFINE q == [r EXCEPT !.at = "limited", !.verdict = v]
    <3>2. srv' = [srv EXCEPT ![l] = q] /\ now' = now /\ Hand /\ r.at = "stamped"
      BY <1>1, <2>10, <3>1 DEF Limit, At
    <3>3. Shape(q) /\ q.at = "limited" /\ q.client = r.client /\ q.t = r.t
      BY <2>1, <3>2 DEF Shape
    <3> HIDE DEF q
    <3>4. InTime(q, now)
      BY <1>1, <2>1, <3>2, <3>3 DEF InTime
    <3> QED BY <3>2, <3>4, OneThread
  <2>11. CASE TallyUp(l)
    <3>1. PICK w \in {"drop", "kod", "answer"} : srv' = [srv EXCEPT ![l].at = w] /\ now' = now /\ Hand
      BY <2>11 DEF TallyUp, Goes, At
    <3>2. srv' = [srv EXCEPT ![l] = [r EXCEPT !.at = w]]
      BY <1>1, <3>1
    <3> QED BY <2>4, <3>1, <3>2, OneThread
  <2>12. CASE ReadCurrent(l)
    <3>1. PICK w \in {"refuse", "reply"} :
            srv' = [srv EXCEPT ![l].at = w, ![l].c = CurrentFor(l)] /\ now' = now /\ Hand
      BY <2>12 DEF ReadCurrent, At, services
    <3> DEFINE q == [r EXCEPT !.at = w, !.c = CurrentFor(l)]
    <3>2. srv' = [srv EXCEPT ![l] = q]
      BY <1>1, <3>1
    <3>3. Shape(q) /\ q.at = w /\ q.client = r.client /\ q.t = r.t
      BY <2>1, <3>1 DEF Shape
    <3> HIDE DEF q
    <3>4. InTime(q, now)
      BY <1>1, <2>1, <3>1, <3>3 DEF InTime
    <3> QED BY <3>1, <3>2, <3>4, OneThread
  <2> QED BY <1>2, <2>5, <2>6, <2>7, <2>8, <2>9, <2>10, <2>11, <2>12 DEF Serve
<1>3. CASE Publish
  <2>1. now' = now /\ srv' = [l \in Listeners |-> IF l \in InHand
                                THEN [srv[l] EXCEPT !.seen = srv[l].seen \union {current'}] ELSE srv[l]]
    BY <1>3 DEF Publish, services
  <2>2. srv' = [l \in Listeners |-> srv'[l]]
    BY <2>1
  <2>3. ASSUME NEW l \in Listeners PROVE InTime(srv'[l], now)
    <3>1. CASE l \notin InHand
      BY <1>1, <2>1, <3>1
    <3>2. CASE l \in InHand
      <4> DEFINE r == srv[l]
                 q == [r EXCEPT !.seen = r.seen \union {current'}]
      <4>1. srv'[l] = q /\ r.at \notin {"top", "poll", "done"} /\ InTime(r, now)
        BY <1>1, <2>1, <3>2 DEF InHand
      <4>2. Shape(q) /\ q.at = r.at /\ q.client = r.client /\ q.t = r.t
        BY <4>1 DEF InTime, Shape
      <4> HIDE DEF q
      <4> QED BY <4>1, <4>2 DEF InTime
    <3> QED BY <3>1, <3>2
  <2> QED BY <1>1, <2>1, <2>2, <2>3 DEF ServerInv, InTime, Shape
<1>4. CASE Stop
  BY <1>1, <1>4 DEF Stop, services, ServerInv, InTime, Shape
<1>5. CASE Wait
  <2>1. now' = now + 1 /\ srv' = srv
    BY <1>5 DEF Wait, AdvanceClock, serverVars
  <2>2. ASSUME NEW l \in Listeners PROVE InTime(srv[l], now + 1)
    <3>1. InTime(srv[l], now)
      BY <1>1
    <3>2. srv[l].at \in {"stamped", "limited"} => now - srv[l].t < MaxSkew
      BY <1>5 DEF Wait
    <3>3. /\ srv[l].at \in {"stamped", "limited"} /\ srv[l].t \in Nat /\ srv[l].t <= now
          => (now + 1) - MaxSkew <= srv[l].t /\ srv[l].t <= now + 1
      BY <1>1, <3>2
    <3> QED BY <3>1, <3>3 DEF InTime
  <2> QED BY <1>1, <2>1, <2>2 DEF ServerInv, InTime, Shape
<1>6. CASE UNCHANGED serverSpecVars
  BY <1>1, <1>6 DEF serverSpecVars, serverVars, ServerInv, InTime, Shape
<1> QED BY <1>2, <1>3, <1>4, <1>5, <1>6 DEF ServerNext

\* A step of the service is one of the limiter, or leaves it and the clock alone.
LEMMA ServerStep ==
  ServerInv /\ [ServerNext]_serverSpecVars => [LimiterNext]_limiterSpecVars
<1> SUFFICES ASSUME ServerInv, [ServerNext]_serverSpecVars PROVE [LimiterNext]_limiterSpecVars
  OBVIOUS
<1>1. ASSUME NEW l \in Listeners, Limit(l) PROVE AskLimiter
  <2>1. srv[l].at = "stamped" /\ InTime(srv[l], now) /\ now \in Nat
    BY <1>1 DEF Limit, At, ServerInv
  <2>2. srv[l].client \in Clients /\ srv[l].t \in Nat /\ now - MaxSkew <= srv[l].t /\ srv[l].t <= now
    BY <2>1 DEF InTime
  <2>3. srv[l].t \in Stamps
    BY <2>1, <2>2, ClockAssumption DEF Stamps, Larger
  <2>4. PICK v \in Verdicts : Check(srv[l].client, srv[l].t, v)
    BY <1>1 DEF Limit
  <2>5. now' = now
    BY <1>1 DEF Limit
  <2> QED BY <2>2, <2>3, <2>4, <2>5 DEF AskLimiter
<1>2. ASSUME NEW l \in Listeners, Serve(l), ~Limit(l) PROVE UNCHANGED limiterSpecVars
  BY <1>2 DEF Serve, Leave, Poll, PollTimeout, Receive, Ignore, ReadClock, TallyUp, Drop, SendKiss,
              CountUnkissed, ReadCurrent, Refuse, Send, services, limiterSpecVars
<1>3. CASE Publish \/ Stop
  BY <1>3 DEF Publish, Stop, services, limiterSpecVars
<1>4. CASE Wait
  BY <1>4 DEF Wait, LimiterNext, LimiterWaits
<1>5. CASE UNCHANGED serverSpecVars
  BY <1>5 DEF serverSpecVars, limiterSpecVars
<1> QED BY <1>1, <1>2, <1>3, <1>4, <1>5 DEF ServerNext, LimiterNext

LEMMA ServerStarts == ServerInit => ServerInv /\ LimiterStart
<1> SUFFICES ASSUME ServerInit PROVE ServerInv /\ LimiterStart
  OBVIOUS
<1>1. now = 0 /\ srv = [l \in Listeners |-> NoRequest] /\ LimiterStart
  BY DEF ServerInit, LimiterStart
<1>2. \A n : InTime(NoRequest, n)
  BY DEF InTime, NoRequest
<1> QED BY <1>1, <1>2 DEF ServerInv

(* The service uses the limiter as it stands: whatever its threads do, the *)
(* limiter sees calls of known clients that are at most MaxSkew late.      *)
THEOREM ServerUsesLimiter == ServerSpec => LimiterSpec
BY ServerStarts, ServerKeeps, ServerStep, PTL DEF ServerSpec, LimiterSpec

(* A client is limited as it should be on any number of listening threads. *)
THEOREM ServiceKeepsLimit == ServerSpec => []LimitExact
BY ServerUsesLimiter, LimitKept, PTL
-----------------------------------------------------------------------------
(* Quotients and remainders.                                               *)
LEMMA ModIs ==
  ASSUME NEW n \in Nat \ {0}, NEW a \in Int
  PROVE  a = n * (a \div n) + (a % n) /\ a % n \in 0..n-1 /\ a \div n \in Int
<1>1. a \div n \in Int /\ a % n \in 0..n-1
  OBVIOUS
<1>2. a = n * (a \div n) + (a % n)
  OBVIOUS
<1> QED BY <1>1, <1>2

LEMMA Multiple ==
  ASSUME NEW n \in Nat \ {0}, NEW q \in Int, 0 < n * q, n * q < n
  PROVE  FALSE
<1>1. q <= 0 \/ q >= 1
  OBVIOUS
<1>2. CASE q <= 0
  BY <1>2
<1>3. CASE q >= 1
  BY <1>3
<1> QED BY <1>1, <1>2, <1>3

LEMMA Apart ==
  ASSUME NEW n \in Nat \ {0}, NEW a \in Int, NEW b \in Int, a < b, b < a + n
  PROVE  a % n # b % n
<1> SUFFICES ASSUME a % n = b % n PROVE FALSE
  OBVIOUS
<1> DEFINE p == a \div n  q == b \div n  r == a % n
<1>1. p \in Int /\ q \in Int /\ r \in Int /\ a = n * p + r /\ b = n * q + r
  BY ModIs
<1> HIDE DEF p, q, r
<1>2. n * (q - p) = b - a
  BY <1>1
<1>3. q - p \in Int /\ 0 < n * (q - p) /\ n * (q - p) < n
  BY <1>1, <1>2
<1> QED BY <1>3, Multiple

LEMMA OnlyRest ==
  ASSUME NEW n \in Nat \ {0}, NEW q \in Int, NEW r \in 0..n-1, NEW a \in Int, a = n * q + r
  PROVE  a % n = r
<1> DEFINE p == a \div n  s == a % n
<1>1. p \in Int /\ s \in 0..n-1 /\ a = n * p + s
  BY ModIs
<1> HIDE DEF p, s
<1>2. n * (p - q) = r - s
  BY <1>1
<1>3. n * (q - p) = s - r
  BY <1>1
<1>4. ~(r > s)
  <2> SUFFICES ASSUME r > s PROVE FALSE
    OBVIOUS
  <2>1. 0 < n * (p - q) /\ n * (p - q) < n /\ p - q \in Int
    BY <1>1, <1>2
  <2> QED BY <2>1, Multiple
<1>5. ~(s > r)
  <2> SUFFICES ASSUME s > r PROVE FALSE
    OBVIOUS
  <2>1. 0 < n * (q - p) /\ n * (q - p) < n /\ q - p \in Int
    BY <1>1, <1>3
  <2> QED BY <2>1, Multiple
<1> QED BY <1>1, <1>4, <1>5 DEF s

LEMMA DivMono ==
  ASSUME NEW n \in Nat \ {0}, NEW a \in Nat, NEW b \in Nat, a <= b
  PROVE  a \div n <= b \div n /\ a \div n \in Nat
<1> DEFINE p == a \div n  q == b \div n
<1>1. p \in Int /\ q \in Int /\ n * p <= a /\ b < n * q + n /\ a < n * p + n
  BY ModIs
<1> HIDE DEF p, q
<1>2. n * (p - q) < n
  BY <1>1
<1>3. ~(p > q)
  <2> SUFFICES ASSUME p >= q + 1 PROVE FALSE
    BY <1>1
  <2>1. n * (p - q) >= n
    BY <1>1
  <2> QED BY <1>2, <2>1, <1>1
<1>4. ~(p < 0)
  <2> SUFFICES ASSUME p <= -1 PROVE FALSE
    BY <1>1
  <2>1. n * p <= -n
    BY <1>1
  <2> QED BY <1>1, <2>1
<1> QED BY <1>1, <1>3, <1>4 DEF p, q

LEMMA DivBack ==
  ASSUME NEW n \in Nat \ {0}, NEW a \in Nat, NEW b \in Nat, b - n <= a
  PROVE  (b \div n) - 1 <= a \div n
<1> DEFINE p == a \div n  q == b \div n
<1>1. p \in Int /\ q \in Int /\ n * q <= b /\ a < n * p + n
  BY ModIs
<1> HIDE DEF p, q
<1>2. n * (q - 1 - p) < n
  BY <1>1
<1>3. ~(q - 1 > p)
  <2> SUFFICES ASSUME q - 1 >= p + 1 PROVE FALSE
    BY <1>1
  <2>1. n * (q - 1 - p) >= n
    BY <1>1
  <2> QED BY <1>2, <2>1, <1>1
<1> QED BY <1>1, <1>3 DEF p, q

LEMMA Shifted ==
  ASSUME NEW n \in Nat \ {0}, NEW a \in Int, NEW q \in Int
  PROVE  (a + n * q) % n = a % n
<1> DEFINE p == a \div n  r == a % n
<1>1. p \in Int /\ r \in 0..n-1 /\ a = n * p + r
  BY ModIs
<1> HIDE DEF p, r
<1>2. a + n * q = n * (p + q) + r /\ p + q \in Int /\ a + n * q \in Int
  BY <1>1
<1>3. (a + n * q) % n = r
  BY <1>1, <1>2, OnlyRest
<1> QED BY <1>3 DEF r

-----------------------------------------------------------------------------
(* A ring.  Of the minutes of the past hour as seen at m, those an entry   *)
(* last moved to minute last has not seen are cleared, and no others.      *)
LEMMA SlotFacts ==
  /\ \A k \in Int : Slot(k) \in 0..Minutes - 1
  /\ \A j, k \in Int : j < k /\ k < j + Minutes => Slot(j) # Slot(k)
<1>1. Minutes \in Nat \ {0}
  BY ClientTallyAssumption
<1> QED BY <1>1, ModIs, Apart DEF Slot

LEMMA Cleared ==
  ASSUME NEW last \in Int, NEW m \in Int, last < m, NEW k \in Int, m - Minutes < k, k <= m
  PROVE  LET skipped == {Slot(last + j) : j \in 1..Smaller(m - last, Minutes)}
         IN Slot(k) \in skipped <=> k > last
<1> DEFINE gap == Smaller(m - last, Minutes)
           skipped == {Slot(last + j) : j \in 1..gap}
<1>1. Minutes \in Nat \ {0} /\ gap \in Nat /\ gap <= m - last /\ (gap = Minutes \/ gap = m - last)
  BY ClientTallyAssumption DEF Smaller
<1> HIDE DEF gap
<1>2. ASSUME k <= last, NEW j \in 1..gap PROVE Slot(k) # Slot(last + j)
  <2>1. k < last + j /\ last + j < k + Minutes /\ last + j \in Int
    BY <1>1, <1>2
  <2> QED BY <2>1, SlotFacts
<1>3. ASSUME k > last, gap = m - last PROVE \E j \in 1..gap : Slot(k) = Slot(last + j)
  <2>1. k - last \in 1..gap /\ last + (k - last) = k
    BY <1>1, <1>3
  <2> QED BY <2>1
<1>4. ASSUME k > last, gap = Minutes PROVE \E j \in 1..gap : Slot(k) = Slot(last + j)
  <2> DEFINE x == k - last - 1
             q == x \div Minutes
             r == x % Minutes
  <2>0. x \in Int
    OBVIOUS
  <2> HIDE DEF x
  <2>1. x \in Int /\ q \in Int /\ r \in 0..Minutes - 1 /\ x = Minutes * q + r
    BY <1>1, <2>0, ModIs
  <2>2. r + 1 \in 1..gap
    BY <1>1, <1>4, <2>1
  <2> HIDE DEF q, r
  <2>3. last + (r + 1) \in Int /\ (last + (r + 1)) + Minutes * q = k
    BY <1>1, <2>1 DEF x
  <2>4. Slot(k) = Slot(last + (r + 1))
    <3>1. ((last + (r + 1)) + Minutes * q) % Minutes = (last + (r + 1)) % Minutes
      BY <1>1, <2>1, <2>3, Shifted
    <3> QED BY <2>3, <3>1 DEF Slot
  <2> QED BY <2>2, <2>4
<1>5. k \in Int /\ last \in Int
  OBVIOUS
<1>6. Slot(k) \in skipped <=> \E j \in 1..gap : Slot(k) = Slot(last + j)
  OBVIOUS
<1> HIDE DEF skipped
<1>7. Slot(k) \in skipped <=> k > last
  BY <1>1, <1>2, <1>3, <1>4, <1>5, <1>6
<1> QED BY <1>7 DEF skipped, gap
-----------------------------------------------------------------------------
(* The tally.                                                              *)
TheHours == 0..MinuteOf(MaxNow)
Entries == [last : Int, requests : [0..Minutes - 1 -> Int]]

\* An entry tells what its client has asked, h, for as far back as its ring goes.
Then(h, k) == IF k < 0 THEN 0 ELSE h[k]
Tells(e, h) ==
  \A k \in Int : /\ e.last - Minutes < k /\ k <= e.last => e.requests[Slot(k)] = Then(h, k)
                 /\ e.last < k /\ k \in TheHours => h[k] = 0

LEMMA AdvanceTells ==
  ASSUME NEW e \in Entries, NEW h, NEW m \in TheHours, MinuteOf(MaxNow) \in Nat, Tells(e, h)
  PROVE  /\ Advance(e, m) \in Entries /\ Advance(e, m).last = Larger(m, e.last)
         /\ Tells(Advance(e, m), h)
<1> DEFINE skipped == {Slot(e.last + j) : j \in 1..Smaller(m - e.last, Minutes)}
           slots == [i \in 0..Minutes - 1 |-> IF i \in skipped THEN 0 ELSE e.requests[i]]
<1>1. /\ e.last \in Int /\ e.requests \in [0..Minutes - 1 -> Int] /\ m \in Int /\ m >= 0
      /\ Minutes \in Nat \ {0}
  BY ClientTallyAssumption DEF Entries, TheHours
<1>2. CASE m <= e.last
  <2>1. Advance(e, m) = e /\ Larger(m, e.last) = e.last
    BY <1>1, <1>2 DEF Advance, Larger
  <2> QED BY <2>1
<1>3. CASE e.last < m
  <2>1. Advance(e, m) = [last |-> m, requests |-> slots] /\ Larger(m, e.last) = m
    BY <1>1, <1>3 DEF Advance, Larger
  <2>2. slots \in [0..Minutes - 1 -> Int]
    BY <1>1
  <2>3. ASSUME NEW k \in Int, m - Minutes < k, k <= m PROVE slots[Slot(k)] = Then(h, k)
    <3>1. Slot(k) \in skipped <=> k > e.last
      BY <1>1, <1>3, <2>3, Cleared
    <3>2. Slot(k) \in 0..Minutes - 1
      BY SlotFacts
    <3> HIDE DEF skipped
    <3>3. slots[Slot(k)] = IF k > e.last THEN 0 ELSE e.requests[Slot(k)]
      BY <3>1, <3>2
    <3> HIDE DEF slots
    <3>4. k <= e.last => e.requests[Slot(k)] = Then(h, k)
      BY <1>1, <1>3, <2>3 DEF Tells
    <3>5. k > e.last => Then(h, k) = 0
      <4>1. k >= 0 /\ k > e.last => k \in TheHours
        BY <1>1, <2>3 DEF TheHours
      <4> QED BY <4>1 DEF Tells, Then
    <3> QED BY <1>1, <3>3, <3>4, <3>5
  <2>4. ASSUME NEW k \in TheHours, m < k PROVE h[k] = 0
    <3>1. k \in Int /\ e.last < k
      BY <1>1, <1>3, <2>4 DEF TheHours
    <3> QED BY <3>1 DEF Tells
  <2> HIDE DEF slots
  <2>5. Tells([last |-> m, requests |-> slots], h)
    BY <2>3, <2>4 DEF Tells
  <2> QED BY <1>1, <2>1, <2>2, <2>5 DEF Entries
<1> QED BY <1>1, <1>2, <1>3

LEMMA CountedTells ==
  ASSUME NEW e \in Entries, NEW h \in [TheHours -> Int], NEW m \in TheHours, MinuteOf(MaxNow) \in Nat,
         Tells(e, h), e.last \in TheHours, e.last - Minutes < m
  PROVE  /\ Counted(e, m) \in Entries /\ Counted(e, m).last = Larger(m, e.last)
         /\ Tells(Counted(e, m), [h EXCEPT ![m] = Smaller(@ + 1, CounterMax)])
<1> DEFINE f == Advance(e, m)
           s == Slot(m)
           slots == [f.requests EXCEPT ![s] = Smaller(@ + 1, CounterMax)]
           g == [h EXCEPT ![m] = Smaller(@ + 1, CounterMax)]
<1>1. f \in Entries /\ f.last = Larger(m, e.last) /\ Tells(f, h)
  BY AdvanceTells
<1>2. /\ m \in Int /\ m >= 0 /\ e.last \in Int /\ Minutes \in Nat \ {0} /\ CounterMax \in Nat
      /\ s \in 0..Minutes - 1
  BY ClientTallyAssumption, SlotFacts DEF TheHours, Entries
<1>3. Counted(e, m) = [f EXCEPT !.requests = slots]
  BY <1>1 DEF Counted, Entries
<1> HIDE DEF f
<1>4. /\ f.last \in Int /\ f.requests \in [0..Minutes - 1 -> Int]
      /\ f = [last |-> f.last, requests |-> f.requests]
  BY <1>1 DEF Entries
<1>5. slots \in [0..Minutes - 1 -> Int]
  BY <1>2, <1>4 DEF Smaller
<1>6. Counted(e, m) = [last |-> f.last, requests |-> slots]
  BY <1>3, <1>4
<1>7. /\ \A k \in TheHours : g[k] = IF k = m THEN Smaller(h[k] + 1, CounterMax) ELSE h[k]
      /\ \A i \in 0..Minutes - 1 :
           slots[i] = IF i = s THEN Smaller(f.requests[i] + 1, CounterMax) ELSE f.requests[i]
  BY <1>2, <1>4
<1>8. f.last - Minutes < m /\ m <= f.last /\ f.last \in TheHours
  BY <1>1, <1>2 DEF Larger
<1> HIDE DEF g, slots
<1>9. ASSUME NEW k \in Int, f.last - Minutes < k, k <= f.last
      PROVE  slots[Slot(k)] = Then(g, k)
  <2>1. f.requests[Slot(k)] = Then(h, k) /\ Slot(k) \in 0..Minutes - 1
    BY <1>1, <1>9, SlotFacts DEF Tells
  <2>2. CASE k = m
    BY <1>2, <1>7, <2>1, <2>2 DEF Then
  <2>3. CASE k # m
    <3>1. Slot(k) # s
      <4>1. (k < m /\ m < k + Minutes) \/ (m < k /\ k < m + Minutes)
        BY <1>2, <1>4, <1>8, <1>9, <2>3
      <4> QED BY <1>2, <4>1, SlotFacts
    <3>2. k >= 0 => k \in TheHours
      BY <1>8, <1>9 DEF TheHours
    <3> QED BY <1>7, <2>1, <2>3, <3>1, <3>2 DEF Then
  <2> QED BY <2>2, <2>3
<1>10. ASSUME NEW k \in Int, f.last < k, k \in TheHours PROVE g[k] = 0
  BY <1>1, <1>2, <1>4, <1>7, <1>8, <1>10 DEF Tells
<1>11. Tells([last |-> f.last, requests |-> slots], g)
  BY <1>9, <1>10 DEF Tells
<1> QED BY <1>1, <1>4, <1>5, <1>6, <1>11 DEF Entries, g

\* What the tally has of each client is what it has asked since its entry was made.
TallyInv ==
  /\ now \in Nat /\ now <= MaxNow /\ truth \in [Callers -> [TheHours -> Int]]
  /\ DOMAIN tally \subseteq Callers
  /\ \A c \in DOMAIN tally : /\ tally[c] \in Entries /\ tally[c].last \in 0..MinuteOf(now)
                            /\ Tells(tally[c], truth[c])

LEMMA MinuteFacts ==
  /\ MinuteOf(MaxNow) \in Nat
  /\ \A s, t \in Nat : s <= t => MinuteOf(s) \in Nat /\ MinuteOf(s) <= MinuteOf(t)
  /\ \A s, t \in Nat : t - MaxSkew <= s => MinuteOf(t) - Minutes < MinuteOf(s)
<1> USE ClockAssumption, ClientTallyAssumption
<1>1. PerMinute \in Nat \ {0} /\ MaxNow \in Nat
  OBVIOUS
<1>2. \A s, t \in Nat : s <= t => MinuteOf(s) \in Nat /\ MinuteOf(s) <= MinuteOf(t)
  BY <1>1, DivMono DEF MinuteOf
<1>3. ASSUME NEW s \in Nat, NEW t \in Nat, t - MaxSkew <= s PROVE MinuteOf(t) - Minutes < MinuteOf(s)
  <2>1. t - PerMinute <= s
    BY <1>3
  <2>2. MinuteOf(t) - 1 <= MinuteOf(s)
    BY <1>1, <2>1, DivBack DEF MinuteOf
  <2>3. MinuteOf(s) \in Nat /\ MinuteOf(t) \in Nat
    BY <1>2
  <2> QED BY <2>2, <2>3
<1> QED BY <1>1, <1>2, <1>3

LEMMA RecordTells ==
  ASSUME TallyInv, NEW c \in Callers, NEW t \in Stamps, Record(c, t), now' = now
  PROVE  TallyInv'
<1> DEFINE m == MinuteOf(t)
           sweep == c \notin DOMAIN tally /\ ~RoomLeft(tally) /\ t - tallySwept >= Second
           T == IF sweep THEN DropQuiet(tally, m) ELSE tally
           taken == c \in DOMAIN T \/ RoomLeft(T)
           e == IF c \in DOMAIN T THEN T[c] ELSE NewEntry(m)
           kept == [d \in Callers |-> IF d \in DOMAIN T THEN truth[d] ELSE NoEntry]
<1>1. /\ tally' = IF taken THEN [d \in DOMAIN T \union {c} |-> IF d = c THEN Counted(e, m) ELSE T[d]] ELSE T
      /\ truth' = IF taken THEN [kept EXCEPT ![c][m] = Smaller(@ + 1, CounterMax)] ELSE kept
  BY DEF Record
<1>2. DOMAIN T \subseteq DOMAIN tally /\ \A d \in DOMAIN T : T[d] = tally[d]
  BY DEF DropQuiet
<1> HIDE DEF sweep, T
<1>3. /\ t \in Nat /\ t <= now /\ now - MaxSkew <= t /\ now \in Nat /\ now <= MaxNow
      /\ MaxNow \in Nat /\ MaxSkew \in Nat
  BY ClockAssumption DEF TallyInv, Stamps, Larger
<1>4. /\ MinuteOf(MaxNow) \in Nat /\ MinuteOf(now) \in Nat /\ MinuteOf(now) <= MinuteOf(MaxNow)
      /\ m \in 0..MinuteOf(now) /\ m \in TheHours /\ MinuteOf(now) - Minutes < m
  BY <1>3, MinuteFacts DEF TheHours
<1> HIDE DEF m
<1>5. NoEntry \in [TheHours -> Int] /\ \A k \in TheHours : NoEntry[k] = 0
  BY DEF NoEntry, TheHours
<1>6. kept \in [Callers -> [TheHours -> Int]]
  BY <1>2, <1>5 DEF TallyInv
<1>7. \A d \in DOMAIN T : /\ d \in Callers /\ T[d] \in Entries /\ T[d].last \in 0..MinuteOf(now)
                          /\ Tells(T[d], kept[d])
  BY <1>2 DEF TallyInv
<1>8. /\ e \in Entries /\ e.last \in 0..MinuteOf(now) /\ Tells(e, kept[c])
  <2>1. CASE c \in DOMAIN T
    BY <1>7, <2>1
  <2>2. CASE c \notin DOMAIN T
    <3>1. e = NewEntry(m) /\ kept[c] = NoEntry
      BY <2>2
    <3>2. NewEntry(m) \in Entries /\ NewEntry(m).last = m
      BY <1>4 DEF NewEntry, Entries, TheHours
    <3>3. \A k \in Int : NewEntry(m).requests[Slot(k)] = 0
      BY SlotFacts DEF NewEntry
    <3>4. ASSUME NEW k \in Int, m - Minutes < k, k <= m PROVE Then(NoEntry, k) = 0
      <4>1. k >= 0 => k \in TheHours
        BY <1>4, <3>4 DEF TheHours
      <4> QED BY <1>5, <4>1 DEF Then
    <3>5. Tells(NewEntry(m), NoEntry)
      BY <1>5, <3>2, <3>3, <3>4 DEF Tells
    <3> QED BY <1>4, <3>1, <3>2, <3>5
  <2> QED BY <2>1, <2>2
<1> DEFINE h == kept[c]
           g == [h EXCEPT ![m] = Smaller(@ + 1, CounterMax)]
<1>9. h \in [TheHours -> Int] /\ g \in [TheHours -> Int]
  BY <1>4, <1>6, ClientTallyAssumption DEF Smaller
<1>10. /\ Counted(e, m) \in Entries /\ Counted(e, m).last = Larger(m, e.last) /\ Tells(Counted(e, m), g)
  <2>1. e.last \in TheHours /\ e.last - Minutes < m
    BY <1>4, <1>8, ClientTallyAssumption DEF TheHours
  <2> HIDE DEF e, h
  <2> QED BY <1>4, <1>8, <1>9, <2>1, CountedTells DEF h
<1>11. Counted(e, m).last \in 0..MinuteOf(now)
  BY <1>4, <1>8, <1>10 DEF Larger
<1>12. taken => truth' = [kept EXCEPT ![c] = g]
  BY <1>1, <1>6, <1>9
<1> HIDE DEF e, g, h, kept
<1>13. CASE taken
  <2>1. truth' \in [Callers -> [TheHours -> Int]] /\ truth'[c] = g
        /\ \A d \in Callers \ {c} : truth'[d] = kept[d]
    BY <1>6, <1>9, <1>12, <1>13
  <2>2. /\ DOMAIN tally' = DOMAIN T \union {c}
        /\ \A d \in DOMAIN tally' : tally'[d] = IF d = c THEN Counted(e, m) ELSE T[d]
    BY <1>1, <1>13
  <2> HIDE DEF taken
  <2>3. ASSUME NEW d \in DOMAIN tally'
        PROVE  /\ tally'[d] \in Entries /\ tally'[d].last \in 0..MinuteOf(now) /\ Tells(tally'[d], truth'[d])
    <3>1. CASE d = c
      BY <1>10, <1>11, <2>1, <2>2, <3>1
    <3>2. CASE d # c
      BY <1>7, <2>1, <2>2, <3>2
    <3> QED BY <3>1, <3>2
  <2>4. DOMAIN tally' \subseteq Callers
    BY <1>7, <2>2
  <2> QED BY <1>3, <2>1, <2>3, <2>4 DEF TallyInv
<1>14. CASE ~taken
  <2>1. tally' = T /\ truth' = kept
    BY <1>1, <1>14
  <2> QED BY <1>3, <1>6, <1>7, <2>1 DEF TallyInv
<1> QED BY <1>13, <1>14

LEMMA HourTold ==
  ASSUME TallyInv, NEW c \in DOMAIN tally
  PROVE  PastHour(tally[c], MinuteOf(now)) = AskedInHour(c)
<1> DEFINE M == MinuteOf(now)
<1>1. M \in Nat /\ M <= MinuteOf(MaxNow) /\ MinuteOf(MaxNow) \in Nat /\ Minutes \in Nat \ {0}
  BY MinuteFacts, ClockAssumption, ClientTallyAssumption DEF TallyInv
<1>2. tally[c].last \in 0..M /\ Tells(tally[c], truth[c])
  BY DEF TallyInv
<1> HIDE DEF M
<1>3. ASSUME NEW k \in M - Minutes + 1 .. M PROVE Held(tally[c], k) = Asked(c, k)
  <2>1. k \in Int /\ tally[c].last - Minutes < k
    BY <1>1, <1>2
  <2>2. CASE k <= tally[c].last
    BY <1>2, <2>1, <2>2 DEF Tells, Held, Asked, Then
  <2>3. CASE tally[c].last < k
    <3>1. k \in TheHours
      BY <1>1, <1>2, <2>1, <2>3 DEF TheHours
    <3>2. truth[c][k] = 0
      BY <1>2, <2>1, <2>3, <3>1 DEF Tells
    <3>3. ~(k <= tally[c].last) /\ ~(k < 0)
      BY <1>2, <2>1, <2>3
    <3> QED BY <3>2, <3>3 DEF Held, Asked
  <2> QED BY <1>2, <2>1, <2>2, <2>3
<1>4. [k \in M - Minutes + 1 .. M |-> Held(tally[c], k)] = [k \in M - Minutes + 1 .. M |-> Asked(c, k)]
  BY <1>3
<1> QED BY <1>4, Zenon DEF PastHour, AskedInHour, M

LEMMA TallyExact == TallyInv => TopIsExact
<1> SUFFICES ASSUME TallyInv PROVE TopIsExact
  OBVIOUS
<1> DEFINE M == MinuteOf(now)
<1>2. \A c \in DOMAIN tally : PastHour(tally[c], M) = AskedInHour(c)
  BY HourTold
<1> HIDE DEF M
<1>3. {d \in DOMAIN tally : PastHour(tally[d], M) > 0} = {d \in DOMAIN tally : AskedInHour(d) > 0}
  BY <1>2
<1>4. \A d \in DOMAIN tally : [client |-> d, requests |-> PastHour(tally[d], M)]
                                = [client |-> d, requests |-> AskedInHour(d)]
  BY <1>2
<1> DEFINE D == {d \in DOMAIN tally : AskedInHour(d) > 0}
<1>5. \A d \in D : [client |-> d, requests |-> PastHour(tally[d], M)]
                   = [client |-> d, requests |-> AskedInHour(d)]
  BY <1>4
<1>6. Top(M) = {[client |-> d, requests |-> PastHour(tally[d], M)] : d \in D}
  BY <1>3 DEF Top
<1> HIDE DEF D
<1>7. Top(M) = {[client |-> d, requests |-> AskedInHour(d)] : d \in D}
  BY <1>5, <1>6
<1> QED BY <1>7 DEF TopIsExact, M, D
-----------------------------------------------------------------------------
LEMMA TallyTicks ==
  ASSUME TallyInv, AdvanceClock, UNCHANGED <<tally, truth>> PROVE TallyInv'
<1>1. now \in Nat /\ now' = now + 1 /\ now' <= MaxNow /\ MaxNow \in Nat
  BY ClockAssumption DEF TallyInv, AdvanceClock
<1>2. MinuteOf(now) \in Nat /\ MinuteOf(now') \in Nat /\ MinuteOf(now) <= MinuteOf(now')
  BY <1>1, MinuteFacts
<1>3. \A c \in DOMAIN tally : tally[c].last \in 0..MinuteOf(now')
  BY <1>2 DEF TallyInv
<1> QED BY <1>1, <1>3 DEF TallyInv

LEMMA TallyStarts == now = 0 /\ TallyInit => TallyInv
<1> SUFFICES ASSUME now = 0, TallyInit PROVE TallyInv
  OBVIOUS
<1>1. tally = [c \in {} |-> 0] /\ truth = [c \in Callers |-> NoEntry] /\ now = 0
  BY DEF TallyInit
<1>2. truth \in [Callers -> [TheHours -> Int]]
  BY <1>1 DEF NoEntry, TheHours
<1>3. DOMAIN tally = {}
  BY <1>1
<1> QED BY <1>1, <1>2, <1>3, ClockAssumption DEF TallyInv

LEMMA BusyStays ==
  ASSUME TallyInv, NEW c \in Callers, NEW t \in Stamps, Record(c, t)
  PROVE  BusyKept
<1> SUFFICES ASSUME NEW d \in DOMAIN tally, AskedInHour(d) > 1, d \notin DOMAIN tally'
             PROVE  MinuteOf(tallySwept') < MinuteOf(now)
  BY DEF BusyKept
<1> DEFINE m == MinuteOf(t)
           sweep == c \notin DOMAIN tally /\ ~RoomLeft(tally) /\ t - tallySwept >= Second
           T == IF sweep THEN DropQuiet(tally, m) ELSE tally
           taken == c \in DOMAIN T \/ RoomLeft(T)
           e == IF c \in DOMAIN T THEN T[c] ELSE NewEntry(m)
<1>1. /\ tally' = IF taken THEN [b \in DOMAIN T \union {c} |-> IF b = c THEN Counted(e, m) ELSE T[b]] ELSE T
      /\ tallySwept' = IF sweep THEN t ELSE tallySwept
  BY DEF Record
<1>2. DOMAIN T \subseteq DOMAIN tally'
  <2> HIDE DEF T, e, m
  <2> QED BY <1>1
<1>3. sweep /\ d \notin DOMAIN DropQuiet(tally, m)
  BY <1>2
<1>4. ~(PastHour(tally[d], m) > 1)
  BY <1>3 DEF DropQuiet
<1>5. m # MinuteOf(now)
  BY <1>4, HourTold
<1>6. t \in Nat /\ t <= now /\ now \in Nat
  BY ClockAssumption DEF TallyInv, Stamps, Larger
<1>7. m \in Nat /\ MinuteOf(now) \in Nat /\ m <= MinuteOf(now)
  BY <1>6, MinuteFacts
<1>8. tallySwept' = t
  <2> HIDE DEF T, e, m, taken, sweep
  <2> QED BY <1>1, <1>3
<1> QED BY <1>5, <1>7, <1>8

LEMMA TallyKeeps == TallyInv /\ [TallyNext]_tallySpecVars => TallyInv' /\ BusyKept
<1> SUFFICES ASSUME TallyInv, [TallyNext]_tallySpecVars PROVE TallyInv' /\ BusyKept
  OBVIOUS
<1>1. CASE AskTally
  <2>1. PICK c \in Callers, t \in Stamps : Record(c, t)
    BY <1>1 DEF AskTally
  <2> QED BY <1>1, <2>1, RecordTells, BusyStays DEF AskTally
<1>2. CASE TallyWaits
  BY <1>2, TallyTicks DEF TallyWaits, BusyKept
<1>3. CASE UNCHANGED tallySpecVars
  BY <1>3 DEF tallySpecVars, TallyInv, BusyKept
<1> QED BY <1>1, <1>2, <1>3 DEF TallyNext

(* The clients top() names are those of the past hour, each with what it   *)
(* has asked in it, for every ring, cap and lateness of the calls.         *)
THEOREM TopKept == TallySpec => []TopIsExact
<1>1. TallyStart => TallyInv
  BY TallyStarts DEF TallyStart
<1> QED BY <1>1, TallyKeeps, TallyExact, PTL DEF TallySpec

(* A flood of new clients never pushes a busy one off the page: whoever    *)
(* has asked more than once in the past hour is kept by every sweep made   *)
(* with a time of the minute under way.                                    *)
THEOREM BusyClientsStay == TallySpec => [][BusyKept]_tallySpecVars
<1>1. TallyStart => TallyInv
  BY TallyStarts DEF TallyStart
<1> QED BY <1>1, TallyKeeps, PTL DEF TallySpec
-----------------------------------------------------------------------------
(* The counters.  A minute of the ring holds what was counted in it.       *)
Counters == [Fields -> Int]
StatRing == [minute : Int, at : [0..Minutes - 1 -> Counters]]

StatsTell(r, g) ==
  \A k \in Int : /\ r.minute - Minutes < k /\ k <= r.minute => r.at[Slot(k)] = (IF k < 0 THEN Zero ELSE g[k])
                 /\ r.minute < k /\ k \in TheHours => g[k] = Zero

StatsInv ==
  /\ now \in Nat /\ now <= MaxNow
  /\ counts \in Counters /\ unsent \in Int /\ counted \in [TheHours -> Counters]
  /\ ring \in StatRing /\ ring.minute \in 0..MinuteOf(now) /\ StatsTell(ring, counted)

LEMMA StatsAdvance ==
  ASSUME NEW r \in StatRing, NEW g, NEW m \in TheHours, MinuteOf(MaxNow) \in Nat, r.minute <= m, StatsTell(r, g)
  PROVE  /\ AdvanceMinutes(r, m) \in StatRing /\ AdvanceMinutes(r, m).minute = m
         /\ StatsTell(AdvanceMinutes(r, m), g)
<1> DEFINE skipped == {Slot(r.minute + j) : j \in 1..Smaller(m - r.minute, Minutes)}
           at == [i \in 0..Minutes - 1 |-> IF i \in skipped THEN Zero ELSE r.at[i]]
<1>1. /\ r.minute \in Int /\ r.at \in [0..Minutes - 1 -> Counters] /\ m \in Int /\ m >= 0
      /\ Minutes \in Nat \ {0} /\ Zero \in Counters
  BY ClientTallyAssumption DEF StatRing, TheHours, Counters, Zero
<1>2. CASE m <= r.minute
  <2>1. AdvanceMinutes(r, m) = r /\ r.minute = m
    BY <1>1, <1>2 DEF AdvanceMinutes
  <2> QED BY <2>1
<1>3. CASE r.minute < m
  <2>1. AdvanceMinutes(r, m) = [minute |-> m, at |-> at]
    BY <1>1, <1>3 DEF AdvanceMinutes, Slot
  <2>2. at \in [0..Minutes - 1 -> Counters]
    BY <1>1
  <2>3. ASSUME NEW k \in Int, m - Minutes < k, k <= m PROVE at[Slot(k)] = IF k < 0 THEN Zero ELSE g[k]
    <3>1. Slot(k) \in skipped <=> k > r.minute
      BY <1>1, <1>3, <2>3, Cleared
    <3>2. Slot(k) \in 0..Minutes - 1
      BY SlotFacts
    <3> HIDE DEF skipped
    <3>3. at[Slot(k)] = IF k > r.minute THEN Zero ELSE r.at[Slot(k)]
      BY <3>1, <3>2
    <3> HIDE DEF at
    <3>4. k <= r.minute => r.at[Slot(k)] = (IF k < 0 THEN Zero ELSE g[k])
      BY <1>1, <1>3, <2>3 DEF StatsTell
    <3>5. k > r.minute /\ k >= 0 => g[k] = Zero
      <4>1. k >= 0 => k \in TheHours
        BY <1>1, <2>3 DEF TheHours
      <4> QED BY <4>1 DEF StatsTell
    <3> QED BY <1>1, <3>3, <3>4, <3>5
  <2>4. ASSUME NEW k \in TheHours, m < k PROVE g[k] = Zero
    <3>1. k \in Int /\ r.minute < k
      BY <1>1, <1>3, <2>4 DEF TheHours
    <3> QED BY <3>1 DEF StatsTell
  <2> HIDE DEF at
  <2>5. StatsTell([minute |-> m, at |-> at], g)
    BY <2>3, <2>4 DEF StatsTell
  <2> QED BY <1>1, <2>1, <2>2, <2>5 DEF StatRing
<1> QED BY <1>1, <1>2, <1>3

\* What count() does to the counters, and that the ring goes on telling.
LEMMA CountKeeps ==
  ASSUME StatsInv, NEW F, Count(F), now' = now, unsent' \in Int
  PROVE  /\ StatsInv'
         /\ \A f \in Fields : counts'[f] = IF f \in F THEN counts[f] + 1 ELSE counts[f]
<1> DEFINE m == MinuteOf(now)
           r == AdvanceMinutes(ring, m)
           Bump(x) == [f \in Fields |-> IF f \in F THEN x[f] + 1 ELSE x[f]]
           s == Slot(m)
<1>1. /\ now \in Nat /\ now <= MaxNow /\ MaxNow \in Nat /\ counts \in Counters
      /\ counted \in [TheHours -> Counters] /\ ring \in StatRing /\ ring.minute \in 0..m
      /\ StatsTell(ring, counted)
  BY ClockAssumption DEF StatsInv
<1>2. m \in Nat /\ MinuteOf(MaxNow) \in Nat /\ m \in TheHours
  BY <1>1, MinuteFacts DEF TheHours
<1>3. r \in StatRing /\ r.minute = m /\ StatsTell(r, counted)
  BY <1>1, <1>2, StatsAdvance
<1>4. /\ counts' = Bump(counts) /\ ring' = [r EXCEPT !.at[r.minute % Minutes] = Bump(@)]
      /\ counted' = [counted EXCEPT ![m] = Bump(@)]
  BY DEF Count
<1>5. \A x \in Counters : Bump(x) \in Counters
  BY DEF Counters
<1>6. \A f \in Fields : counts'[f] = IF f \in F THEN counts[f] + 1 ELSE counts[f]
  BY <1>4
<1> HIDE DEF Bump, m, r
<1>7. r.at \in [0..Minutes - 1 -> Counters] /\ r = [minute |-> m, at |-> r.at]
  BY <1>3 DEF StatRing
<1>8. s \in 0..Minutes - 1 /\ m % Minutes = s
  BY <1>2, SlotFacts DEF Slot
<1> DEFINE at == [r.at EXCEPT ![s] = Bump(@)]
<1>9. ring' = [minute |-> m, at |-> at]
  BY <1>3, <1>4, <1>7, <1>8
<1>10. at \in [0..Minutes - 1 -> Counters]
       /\ \A i \in 0..Minutes - 1 : at[i] = IF i = s THEN Bump(r.at[s]) ELSE r.at[i]
  BY <1>5, <1>7, <1>8
<1>11. counted' \in [TheHours -> Counters]
       /\ \A k \in TheHours : counted'[k] = IF k = m THEN Bump(counted[m]) ELSE counted[k]
  BY <1>1, <1>2, <1>4, <1>5
<1> HIDE DEF at
<1>12. ASSUME NEW k \in Int, m - Minutes < k, k <= m
       PROVE  at[Slot(k)] = IF k < 0 THEN Zero ELSE counted'[k]
  <2>1. r.at[Slot(k)] = (IF k < 0 THEN Zero ELSE counted[k]) /\ Slot(k) \in 0..Minutes - 1
    BY <1>3, <1>12, SlotFacts DEF StatsTell
  <2>2. CASE k = m
    BY <1>2, <1>10, <1>11, <2>1, <2>2
  <2>3. CASE k # m
    <3>1. Slot(k) # s
      <4>1. k < m /\ m < k + Minutes
        BY <1>2, <1>12, <2>3, ClientTallyAssumption
      <4> QED BY <1>2, <4>1, SlotFacts
    <3>2. k >= 0 => k \in TheHours
      BY <1>2, <1>12 DEF TheHours
    <3> QED BY <1>10, <1>11, <2>1, <2>3, <3>1, <3>2
  <2> QED BY <2>2, <2>3
<1>13. ASSUME NEW k \in TheHours, m < k PROVE counted'[k] = Zero
  <2>1. counted'[k] = counted[k]
    BY <1>2, <1>11, <1>13
  <2>2. k \in Int
    BY <1>2 DEF TheHours
  <2> QED BY <1>3, <1>13, <2>1, <2>2 DEF StatsTell
<1>14. StatsTell([minute |-> m, at |-> at], counted')
  BY <1>12, <1>13 DEF StatsTell
<1>15. counts' \in Counters
  BY <1>1, <1>4, <1>5
<1>16. [minute |-> m, at |-> at] \in StatRing
  BY <1>2, <1>10 DEF StatRing
<1>17. m = MinuteOf(now)
  BY DEF m
<1> QED BY <1>1, <1>2, <1>6, <1>9, <1>11, <1>14, <1>15, <1>16, <1>17 DEF StatsInv

LEMMA StatsExact == StatsInv => PastHourExact
<1> SUFFICES ASSUME StatsInv, NEW f \in Fields
             PROVE  PastHourStats(f) = SumFunction([i \in 0..Minutes - 1 |-> CountedIn(MinuteIn(i), f)])
  BY DEF PastHourExact
<1> DEFINE m == MinuteOf(now)
           r == AdvanceMinutes(ring, m)
<1>1. /\ now \in Nat /\ now <= MaxNow /\ MaxNow \in Nat /\ ring \in StatRing /\ ring.minute \in 0..m
      /\ StatsTell(ring, counted) /\ Minutes \in Nat \ {0}
  BY ClockAssumption, ClientTallyAssumption DEF StatsInv
<1>2. m \in Nat /\ MinuteOf(MaxNow) \in Nat /\ m \in TheHours
  BY <1>1, MinuteFacts DEF TheHours
<1>3. r \in StatRing /\ r.minute = m /\ StatsTell(r, counted)
  BY <1>1, <1>2, StatsAdvance
<1> HIDE DEF r
<1>4. ASSUME NEW i \in 0..Minutes - 1 PROVE r.at[i][f] = CountedIn(MinuteIn(i), f)
  <2> DEFINE Hour == m - Minutes + 1 .. m
             y == m - i
             x == y % Minutes
             q == y \div Minutes
  <2>0. y \in Int
    BY <1>2
  <2> HIDE DEF y
  <2>1. x \in 0..Minutes - 1 /\ q \in Int /\ y = Minutes * q + x
    BY <1>1, <2>0, ModIs
  <2> HIDE DEF x, q
  <2>2. m - x \in Hour /\ m - x = Minutes * q + i /\ m - x \in Int
    BY <1>1, <1>2, <2>1 DEF y
  <2>3. (m - x) % Minutes = i
    BY <1>1, <2>1, <2>2, OnlyRest
  <2>4. \E k \in Hour : k % Minutes = i
    BY <2>2, <2>3
  <2>5. MinuteIn(i) \in Hour /\ MinuteIn(i) % Minutes = i
    BY <2>4 DEF MinuteIn
  <2> DEFINE k == MinuteIn(i)
  <2> HIDE DEF k
  <2>6. k \in Int /\ m - Minutes < k /\ k <= m /\ Slot(k) = i
    BY <1>1, <1>2, <2>5 DEF k, Slot
  <2>7. r.at[i] = IF k < 0 THEN Zero ELSE counted[k]
    BY <1>3, <2>6 DEF StatsTell
  <2>8. r.at[i][f] = CountedIn(k, f)
    BY <2>7 DEF CountedIn, Zero
  <2> QED BY <2>8 DEF k
<1>5. [i \in 0..Minutes - 1 |-> r.at[i][f]] = [i \in 0..Minutes - 1 |-> CountedIn(MinuteIn(i), f)]
  BY <1>4
<1> QED BY <1>5, Zenon DEF PastHourStats, r
-----------------------------------------------------------------------------
(* The requests in hand.                                                   *)
Idling == {"top", "poll", "done"}

\* What a thread holds of a request: it has seen what is current, and what
\* it has read for the reply it has seen.
Informed(r) ==
  r.at \notin Idling => current \in r.seen /\ (r.at \in {"refuse", "reply"} => r.c \in r.seen)

HandInv ==
  /\ ServerInv /\ TallyInv /\ StatsInv
  /\ Accounted /\ replies = {} /\ \A l \in Listeners : Informed(srv[l])

\* Counted under one of the four ends of a request.
Ends == {"answered", "ignored", "rateLimited", "sendErrors"}
EndsOnce(F) == "requests" \notin F /\ \E e \in Ends : F \intersect Ends = {e}

ServeQuietly(l, q) ==
  /\ UNCHANGED <<counts, ring, counted, replies, unsent>> /\ (q.at \in Idling <=> srv[l].at \in Idling)
  /\ q.at \notin Idling => q.seen = srv[l].seen
  /\ q.at \in {"refuse", "reply"} => q.c = current
ServeReceives(l, q) ==
  /\ Count({"requests"}) /\ UNCHANGED <<replies, unsent>>
  /\ srv[l].at \in Idling /\ q.at = "received" /\ q.seen = {current}
ServeEnds(l, q) ==
  /\ \E F \in SUBSET Fields : EndsOnce(F) /\ Count(F)
  /\ UNCHANGED <<replies, unsent>> /\ srv[l].at \notin Idling /\ q.at \in Idling
ServeFailsToKiss(l, q) ==
  /\ Count({"sendErrors"}) /\ unsent' = unsent + 1 /\ UNCHANGED replies
  /\ srv[l].at \notin Idling /\ q.at = "unkissed" /\ q.seen = srv[l].seen

LEMMA ServeStep ==
  ASSUME ServerInv, replies = {}, NEW l \in Listeners, Informed(srv[l]), Serve(l)
  PROVE  /\ now' = now /\ current' = current
         /\ \E q : /\ srv' = [srv EXCEPT ![l] = q]
                   /\ \/ ServeQuietly(l, q) \/ ServeReceives(l, q) \/ ServeEnds(l, q) \/ ServeFailsToKiss(l, q)
<1> DEFINE r == srv[l]
<1>1. /\ srv = [m \in Listeners |-> srv[m]] /\ InTime(r, now)
      /\ r.at \notin Idling => Shape(r)
  BY DEF ServerInv, InTime, Idling
<1>2. now' = now /\ current' = current
  BY DEF Serve, Leave, Poll, PollTimeout, Receive, Ignore, ReadClock, Limit, TallyUp, Drop, SendKiss,
         CountUnkissed, ReadCurrent, Refuse, Send, services, shared
<1>3. CASE Leave(l) \/ Poll(l) \/ PollTimeout(l)
  <2>1. PICK w \in Idling : /\ srv' = [srv EXCEPT ![l].at = w] /\ r.at \in Idling
                            /\ UNCHANGED <<counts, ring, counted, replies, unsent>>
    BY <1>3 DEF Leave, Poll, PollTimeout, Goes, At, serverHistory, Idling
  <2>2. r = [at |-> r.at]
    BY <1>1, <2>1 DEF InTime, Idling
  <2> DEFINE q == [r EXCEPT !.at = w]
  <2>3. srv' = [srv EXCEPT ![l] = q]
    BY <1>1, <2>1
  <2>4. q.at = w
    BY <2>2
  <2> HIDE DEF q
  <2>5. ServeQuietly(l, q)
    BY <2>1, <2>4 DEF ServeQuietly, Idling
  <2> QED BY <1>2, <2>3, <2>5
<1>4. CASE Receive(l)
  <2>1. PICK c \in Clients, proper \in BOOLEAN :
          srv' = [srv EXCEPT ![l] = [at |-> "received", client |-> c, proper |-> proper,
                                     t |-> 0, verdict |-> "none", c |-> Never, seen |-> {current}]]
    BY <1>4 DEF Receive
  <2> DEFINE q == [at |-> "received", client |-> c, proper |-> proper,
                   t |-> 0, verdict |-> "none", c |-> Never, seen |-> {current}]
  <2>2. q.at = "received" /\ q.seen = {current} /\ srv' = [srv EXCEPT ![l] = q]
    BY <2>1
  <2> HIDE DEF q
  <2>3. ServeReceives(l, q)
    BY <1>4, <2>2 DEF ServeReceives, Receive, At, Idling
  <2> QED BY <1>2, <2>2, <2>3
<1>5. CASE Ignore(l) \/ Drop(l) \/ CountUnkissed(l) \/ Refuse(l)
  <2>1. /\ srv' = [srv EXCEPT ![l] = NoRequest] /\ r.at \notin Idling
        /\ Count({"ignored"}) \/ Count({"rateLimited"})
        /\ UNCHANGED <<replies, unsent>>
    BY <1>5 DEF Ignore, Drop, CountUnkissed, Refuse, Finished, At, Idling
  <2>2. EndsOnce({"ignored"}) /\ EndsOnce({"rateLimited"})
    BY DEF EndsOnce, Ends
  <2>3. {"ignored"} \in SUBSET Fields /\ {"rateLimited"} \in SUBSET Fields
    BY DEF Fields
  <2>4. ServeEnds(l, NoRequest)
    BY <2>1, <2>2, <2>3 DEF ServeEnds, NoRequest, Idling
  <2> QED BY <1>2, <2>1, <2>4
<1>6. CASE Send(l)
  <2>1. /\ srv' = [srv EXCEPT ![l] = NoRequest] /\ r.at = "reply" /\ r.at \notin Idling
        /\ Count({"answered"} \union (IF r.c.synchronised THEN {} ELSE {"unsynchronised"})) \/ Count({"sendErrors"})
        /\ unsent' = unsent
    BY <1>6 DEF Send, Finished, At, Idling
  <2>2. replies' = replies
    <3>1. PICK lastDay \in BOOLEAN :
            replies' = IF \E c \in r.seen : Reply(r.c, lastDay) = Reply(c, lastDay)
                       THEN replies ELSE replies \union {Reply(r.c, lastDay)}
      BY <1>6 DEF Send
    <3>2. r.c \in r.seen
      BY <2>1 DEF Informed
    <3> QED BY <3>1, <3>2
  <2>3. EndsOnce({"answered"}) /\ EndsOnce({"answered", "unsynchronised"}) /\ EndsOnce({"sendErrors"})
    BY DEF EndsOnce, Ends
  <2>4. /\ {"answered"} \in SUBSET Fields /\ {"answered", "unsynchronised"} \in SUBSET Fields
        /\ {"sendErrors"} \in SUBSET Fields
    BY DEF Fields
  <2>5. Count({"answered"}) \/ Count({"answered", "unsynchronised"}) \/ Count({"sendErrors"})
    <3>1. /\ {"answered"} \union {} = {"answered"}
          /\ {"answered"} \union {"unsynchronised"} = {"answered", "unsynchronised"}
      OBVIOUS
    <3>2. CASE r.c.synchronised
      <4>1. {"answered"} \union (IF r.c.synchronised THEN {} ELSE {"unsynchronised"}) = {"answered"}
        BY <3>1, <3>2
      <4> QED BY <2>1, <4>1
    <3>3. CASE ~r.c.synchronised
      <4>1. {"answered"} \union (IF r.c.synchronised THEN {} ELSE {"unsynchronised"}) = {"answered", "unsynchronised"}
        BY <3>1, <3>3
      <4> QED BY <2>1, <4>1
    <3> QED BY <3>2, <3>3
  <2>6. ServeEnds(l, NoRequest)
    BY <2>1, <2>2, <2>3, <2>4, <2>5 DEF ServeEnds, NoRequest, Idling
  <2> QED BY <1>2, <2>1, <2>6
<1>7. CASE SendKiss(l)
  <2>1. /\ r.at \notin Idling /\ UNCHANGED replies
        /\ \/ Count({"rateLimited", "kodSent"}) /\ srv' = [srv EXCEPT ![l] = NoRequest] /\ unsent' = unsent
           \/ Count({"sendErrors"}) /\ srv' = [srv EXCEPT ![l].at = "unkissed"] /\ unsent' = unsent + 1
    BY <1>7 DEF SendKiss, Finished, Goes, At, Idling
  <2>2. CASE Count({"rateLimited", "kodSent"}) /\ srv' = [srv EXCEPT ![l] = NoRequest] /\ unsent' = unsent
    <3>1. EndsOnce({"rateLimited", "kodSent"}) /\ {"rateLimited", "kodSent"} \in SUBSET Fields
      BY DEF EndsOnce, Ends, Fields
    <3>2. ServeEnds(l, NoRequest)
      BY <2>1, <2>2, <3>1 DEF ServeEnds, NoRequest, Idling
    <3> QED BY <1>2, <2>2, <3>2
  <2>3. CASE Count({"sendErrors"}) /\ srv' = [srv EXCEPT ![l].at = "unkissed"] /\ unsent' = unsent + 1
    <3> DEFINE q == [r EXCEPT !.at = "unkissed"]
    <3>1. srv' = [srv EXCEPT ![l] = q]
      BY <1>1, <2>3
    <3>2. q.at = "unkissed" /\ q.seen = r.seen
      BY <1>1, <2>1 DEF Shape
    <3> HIDE DEF q
    <3>3. ServeFailsToKiss(l, q)
      BY <2>1, <2>3, <3>2 DEF ServeFailsToKiss
    <3> QED BY <1>2, <3>1, <3>3
  <2> QED BY <2>1, <2>2, <2>3
<1>8. CASE ReadClock(l)
  <2> DEFINE q == [r EXCEPT !.at = "stamped", !.t = now]
  <2>1. /\ srv' = [srv EXCEPT ![l] = q] /\ r.at \notin Idling
        /\ UNCHANGED <<counts, ring, counted, replies, unsent>>
    BY <1>1, <1>8 DEF ReadClock, At, serverHistory, Idling
  <2>2. q.at = "stamped" /\ q.seen = r.seen
    BY <1>1, <2>1 DEF Shape
  <2> HIDE DEF q
  <2>3. ServeQuietly(l, q)
    BY <2>1, <2>2 DEF ServeQuietly, Idling
  <2> QED BY <1>2, <2>1, <2>3
<1>9. CASE Limit(l)
  <2>1. PICK v \in Verdicts : srv' = [srv EXCEPT ![l].at = "limited", ![l].verdict = v]
    BY <1>9 DEF Limit
  <2> DEFINE q == [r EXCEPT !.at = "limited", !.verdict = v]
  <2>2. /\ srv' = [srv EXCEPT ![l] = q] /\ r.at \notin Idling
        /\ UNCHANGED <<counts, ring, counted, replies, unsent>>
    BY <1>1, <1>9, <2>1 DEF Limit, At, serverHistory, Idling
  <2>3. q.at = "limited" /\ q.seen = r.seen
    BY <1>1, <2>2 DEF Shape
  <2> HIDE DEF q
  <2>4. ServeQuietly(l, q)
    BY <2>2, <2>3 DEF ServeQuietly, Idling
  <2> QED BY <1>2, <2>2, <2>4
<1>10. CASE TallyUp(l)
  <2>1. PICK w \in {"drop", "kod", "answer"} :
          /\ srv' = [srv EXCEPT ![l].at = w] /\ r.at \notin Idling
          /\ UNCHANGED <<counts, ring, counted, replies, unsent>>
    BY <1>10 DEF TallyUp, Goes, At, serverHistory, Idling
  <2> DEFINE q == [r EXCEPT !.at = w]
  <2>2. srv' = [srv EXCEPT ![l] = q]
    BY <1>1, <2>1
  <2>3. q.at = w /\ q.seen = r.seen
    BY <1>1, <2>1 DEF Shape
  <2> HIDE DEF q
  <2>4. ServeQuietly(l, q)
    BY <2>1, <2>3 DEF ServeQuietly, Idling
  <2> QED BY <1>2, <2>2, <2>4
<1>11. CASE ReadCurrent(l)
  <2>1. PICK w \in {"refuse", "reply"} :
          /\ srv' = [srv EXCEPT ![l].at = w, ![l].c = current] /\ r.at \notin Idling
          /\ UNCHANGED <<counts, ring, counted, replies, unsent>>
    BY <1>11 DEF ReadCurrent, At, serverHistory, Idling, CurrentFor
  <2> DEFINE q == [r EXCEPT !.at = w, !.c = current]
  <2>2. srv' = [srv EXCEPT ![l] = q]
    BY <1>1, <2>1
  <2>3. q.at = w /\ q.seen = r.seen /\ q.c = current
    BY <1>1, <2>1 DEF Shape
  <2> HIDE DEF q
  <2>4. ServeQuietly(l, q)
    BY <2>1, <2>3 DEF ServeQuietly, Idling
  <2> QED BY <1>2, <2>2, <2>4
<1> QED BY <1>3, <1>4, <1>5, <1>6, <1>7, <1>8, <1>9, <1>10, <1>11 DEF Serve

LEMMA Hands ==
  ASSUME ServerInv, NEW l \in Listeners, NEW q, srv' = [srv EXCEPT ![l] = q]
  PROVE  /\ InHand' = IF q.at \in Idling THEN InHand \ {l} ELSE InHand \union {l}
         /\ l \in InHand <=> srv[l].at \notin Idling
         /\ IsFiniteSet(InHand) /\ Cardinality(InHand) \in Nat
         /\ Cardinality(InHand') = Cardinality(InHand)
              + (IF l \in InHand THEN 0 ELSE 1) - (IF q.at \in Idling THEN 1 ELSE 0)
<1>1. srv = [k \in Listeners |-> srv[k]]
  BY DEF ServerInv
<1>2. \A k \in Listeners : srv'[k] = IF k = l THEN q ELSE srv[k]
  BY <1>1
<1>3. InHand' = IF q.at \in Idling THEN InHand \ {l} ELSE InHand \union {l}
  BY <1>2 DEF InHand, Idling
<1>4. l \in InHand <=> srv[l].at \notin Idling
  BY DEF InHand, Idling
<1>5. IsFiniteSet(InHand)
  <2>1. InHand \subseteq Listeners /\ IsFiniteSet(Listeners)
    BY NtpServerAssumption DEF InHand
  <2> QED BY <2>1, FS_Subset
<1>6. Cardinality(InHand) \in Nat
  BY <1>5, FS_CardinalityType
<1>7. /\ Cardinality(InHand \union {l}) = IF l \in InHand THEN Cardinality(InHand) ELSE Cardinality(InHand) + 1
      /\ Cardinality(InHand \ {l}) = IF l \in InHand THEN Cardinality(InHand) - 1 ELSE Cardinality(InHand)
  BY <1>5, FS_AddElement, FS_RemoveElement
<1> DEFINE H == InHand
<1> HIDE DEF H
<1>8. Cardinality(InHand') = Cardinality(InHand)
              + (IF l \in InHand THEN 0 ELSE 1) - (IF q.at \in Idling THEN 1 ELSE 0)
  <2>1. CASE q.at \in Idling
    <3>1. InHand' = InHand \ {l}
      BY <1>3, <2>1
    <3>2. Cardinality(InHand') = IF l \in InHand THEN Cardinality(InHand) - 1 ELSE Cardinality(InHand)
      BY <1>7, <3>1
    <3> QED BY <1>6, <2>1, <3>2
  <2>2. CASE q.at \notin Idling
    <3>1. InHand' = InHand \union {l}
      BY <1>3, <2>2
    <3>2. Cardinality(InHand') = IF l \in InHand THEN Cardinality(InHand) ELSE Cardinality(InHand) + 1
      BY <1>7, <3>1
    <3> QED BY <1>6, <2>2, <3>2
  <2> QED BY <2>1, <2>2
<1> QED BY <1>3, <1>4, <1>5, <1>6, <1>8

LEMMA ServeCounts ==
  ASSUME ServerInv, StatsInv, Accounted, NEW l \in Listeners, NEW q, srv' = [srv EXCEPT ![l] = q], now' = now,
         ServeQuietly(l, q) \/ ServeReceives(l, q) \/ ServeEnds(l, q) \/ ServeFailsToKiss(l, q)
  PROVE  StatsInv' /\ Accounted'
<1> DEFINE n == Cardinality(InHand)
           d == (IF l \in InHand THEN 0 ELSE 1) - (IF q.at \in Idling THEN 1 ELSE 0)
<1>1. /\ Cardinality(InHand') = n + d
      /\ n \in Nat /\ (l \in InHand <=> srv[l].at \notin Idling)
  <2>1. \A a, b \in {0, 1} : n \in Nat => n + a - b = n + (a - b)
    OBVIOUS
  <2>2. Cardinality(InHand') = n + (IF l \in InHand THEN 0 ELSE 1) - (IF q.at \in Idling THEN 1 ELSE 0)
    BY Hands
  <2>3. n \in Nat
    BY Hands
  <2> QED BY <2>2, <2>3, Hands
<1>2. counts \in Counters /\ unsent \in Int
  BY DEF StatsInv
<1>3. {"requests", "answered", "ignored", "rateLimited", "sendErrors"} \subseteq Fields
  BY DEF Fields
<1>4. counts["requests"] \in Int /\ \A e \in Ends : counts[e] \in Int
  BY <1>2, <1>3 DEF Counters, Ends
<1>5. counts["requests"] - n =
        (counts["answered"] + counts["ignored"] + counts["rateLimited"] + counts["sendErrors"]) - unsent
  BY <1>1, <1>2, <1>4 DEF Accounted, Ends
<1>6. CASE ServeQuietly(l, q)
  <2>1. d = 0
    BY <1>1, <1>6 DEF ServeQuietly
  <2>2. StatsInv'
    BY <1>6 DEF ServeQuietly, StatsInv
  <2> HIDE DEF n, d
  <2>3. Accounted'
    BY <1>1, <1>2, <1>4, <1>5, <1>6, <2>1 DEF ServeQuietly, Accounted, Ends
  <2> QED BY <2>2, <2>3
<1>7. CASE ServeReceives(l, q)
  <2>1. d = 1
    BY <1>1, <1>7 DEF ServeReceives, Idling
  <2>2. Count({"requests"}) /\ unsent' = unsent
    BY <1>7 DEF ServeReceives
  <2>3. StatsInv' /\ \A f \in Fields : counts'[f] = IF f \in {"requests"} THEN counts[f] + 1 ELSE counts[f]
    BY <1>2, <2>2, CountKeeps
  <2>4. /\ counts'["requests"] = counts["requests"] + 1 /\ counts'["answered"] = counts["answered"]
        /\ counts'["ignored"] = counts["ignored"] /\ counts'["rateLimited"] = counts["rateLimited"]
        /\ counts'["sendErrors"] = counts["sendErrors"]
    BY <1>3, <2>3
  <2> HIDE DEF n, d
  <2>5. Accounted'
    <3> DEFINE a == counts["answered"] + counts["ignored"] + counts["rateLimited"] + counts["sendErrors"]
    <3>1. a \in Int /\ counts["requests"] - n = a - unsent
      BY <1>4, <1>5 DEF Ends
    <3>2. Accounted' <=> counts'["requests"] - Cardinality(InHand') = a - unsent'
      BY <2>4 DEF Accounted
    <3> HIDE DEF a
    <3> QED BY <1>1, <1>2, <1>4, <2>1, <2>2, <2>4, <3>1, <3>2
  <2> QED BY <2>3, <2>5
<1>8. CASE ServeEnds(l, q)
  <2>1. d = -1
    BY <1>1, <1>8 DEF ServeEnds
  <2>2. PICK F \in SUBSET Fields : EndsOnce(F) /\ Count(F)
    BY <1>8 DEF ServeEnds
  <2>3. unsent' = unsent
    BY <1>8 DEF ServeEnds
  <2>4. StatsInv' /\ \A f \in Fields : counts'[f] = IF f \in F THEN counts[f] + 1 ELSE counts[f]
    BY <1>2, <2>2, <2>3, CountKeeps
  <2>5. PICK e \in Ends : F \intersect Ends = {e}
    BY <2>2 DEF EndsOnce
  <2>6. /\ counts'["requests"] = counts["requests"]
        /\ \A x \in Ends : counts'[x] = IF x = e THEN counts[x] + 1 ELSE counts[x]
    <3>1. \A x \in Ends : x \in F <=> x = e
      BY <2>5
    <3>2. Ends \subseteq Fields
      BY <1>3 DEF Ends
    <3> QED BY <1>3, <2>2, <2>4, <3>1, <3>2 DEF EndsOnce
  <2> HIDE DEF n, d
  <2>7. counts'["answered"] + counts'["ignored"] + counts'["rateLimited"] + counts'["sendErrors"]
          = counts["answered"] + counts["ignored"] + counts["rateLimited"] + counts["sendErrors"] + 1
    <3>1. e = "answered" \/ e = "ignored" \/ e = "rateLimited" \/ e = "sendErrors"
      BY DEF Ends
    <3> QED BY <1>4, <2>6, <3>1 DEF Ends
  <2>8. Accounted'
    <3> DEFINE a == counts["answered"] + counts["ignored"] + counts["rateLimited"] + counts["sendErrors"]
               b == counts'["answered"] + counts'["ignored"] + counts'["rateLimited"] + counts'["sendErrors"]
    <3>1. a \in Int /\ b = a + 1 /\ counts["requests"] - n = a - unsent
      BY <1>4, <1>5, <2>7 DEF Ends
    <3>2. Accounted' <=> counts'["requests"] - Cardinality(InHand') = b - unsent'
      BY DEF Accounted
    <3> HIDE DEF a, b
    <3>3. /\ counts'["requests"] = counts["requests"] /\ unsent' = unsent /\ Cardinality(InHand') = n - 1
          /\ n \in Nat /\ unsent \in Int /\ counts["requests"] \in Int
      BY <1>1, <1>2, <1>4, <2>1, <2>3, <2>6
    <3> QED BY <3>1, <3>2, <3>3
  <2> QED BY <2>4, <2>8
<1>9. CASE ServeFailsToKiss(l, q)
  <2>1. d = 0
    BY <1>1, <1>9 DEF ServeFailsToKiss, Idling
  <2>2. Count({"sendErrors"}) /\ unsent' = unsent + 1
    BY <1>9 DEF ServeFailsToKiss
  <2>3. StatsInv' /\ \A f \in Fields : counts'[f] = IF f \in {"sendErrors"} THEN counts[f] + 1 ELSE counts[f]
    BY <1>2, <2>2, CountKeeps
  <2>4. /\ counts'["requests"] = counts["requests"] /\ counts'["answered"] = counts["answered"]
        /\ counts'["ignored"] = counts["ignored"] /\ counts'["rateLimited"] = counts["rateLimited"]
        /\ counts'["sendErrors"] = counts["sendErrors"] + 1
    BY <1>3, <2>3
  <2> HIDE DEF n, d
  <2>5. Accounted'
    <3> DEFINE a == counts["answered"] + counts["ignored"] + counts["rateLimited"]
    <3>1. a \in Int /\ counts["sendErrors"] \in Int
      BY <1>4 DEF Ends
    <3>2. counts["requests"] - n = (a + counts["sendErrors"]) - unsent
      BY <1>5
    <3>3. Accounted' <=> counts'["requests"] - Cardinality(InHand') = (a + counts'["sendErrors"]) - unsent'
      BY <2>4 DEF Accounted
    <3> HIDE DEF a
    <3>4. /\ counts'["requests"] = counts["requests"] /\ unsent' = unsent + 1 /\ Cardinality(InHand') = n
          /\ n \in Nat /\ unsent \in Int /\ counts["requests"] \in Int
      BY <1>1, <1>2, <1>4, <2>1, <2>2, <2>4
    <3> QED BY <2>4, <3>1, <3>2, <3>3, <3>4
  <2> QED BY <2>3, <2>5
<1> QED BY <1>6, <1>7, <1>8, <1>9

LEMMA StaysInformed ==
  ASSUME ServerInv, NEW l \in Listeners, NEW q, srv' = [srv EXCEPT ![l] = q], current' = current,
         \A k \in Listeners : Informed(srv[k]),
         ServeQuietly(l, q) \/ ServeReceives(l, q) \/ ServeEnds(l, q) \/ ServeFailsToKiss(l, q)
  PROVE  (\A k \in Listeners : Informed(srv[k]))' /\ replies' = replies
<1>1. srv = [k \in Listeners |-> srv[k]]
  BY DEF ServerInv
<1>2. \A k \in Listeners : srv'[k] = IF k = l THEN q ELSE srv[k]
  BY <1>1
<1>3. Informed(q)
  <2>1. Informed(srv[l])
    OBVIOUS
  <2> QED BY <2>1 DEF Informed, ServeQuietly, ServeReceives, ServeEnds, ServeFailsToKiss, Idling
<1>4. \A k \in Listeners : Informed(srv'[k])
  BY <1>2, <1>3
<1>5. replies' = replies
  BY DEF ServeQuietly, ServeReceives, ServeEnds, ServeFailsToKiss
<1> QED BY <1>4, <1>5 DEF Informed

LEMMA HandStarts == ServerInit => HandInv
<1> SUFFICES ASSUME ServerInit PROVE HandInv
  OBVIOUS
<1>1. ServerInv /\ TallyInv
  BY ServerStarts, TallyStarts DEF ServerInit
<1>2. /\ srv = [l \in Listeners |-> NoRequest] /\ counts = Zero /\ unsent = 0 /\ replies = {} /\ now = 0
      /\ ring = [minute |-> 0, at |-> [i \in 0..Minutes - 1 |-> Zero]]
      /\ counted = [m \in TheHours |-> Zero]
  BY DEF ServerInit, TheHours
<1>3. Zero \in Counters /\ \A f \in Fields : Zero[f] = 0
  BY DEF Zero, Counters
<1>4. MaxNow \in Nat /\ MinuteOf(MaxNow) \in Nat /\ MinuteOf(0) \in Nat /\ Minutes \in Nat \ {0}
  BY MinuteFacts, ClockAssumption, ClientTallyAssumption
<1>5. InHand = {} /\ \A l \in Listeners : Informed(srv[l])
  BY <1>2 DEF InHand, NoRequest, Informed, Idling
<1>6. Accounted
  <2>1. Cardinality(InHand) = 0
    BY <1>5, FS_EmptySet
  <2>2. {"requests", "answered", "ignored", "rateLimited", "sendErrors"} \subseteq Fields
    BY DEF Fields
  <2> QED BY <1>2, <1>3, <2>1, <2>2 DEF Accounted
<1>7. ring \in StatRing /\ counted \in [TheHours -> Counters]
  BY <1>2, <1>3 DEF StatRing
<1>8. StatsTell(ring, counted)
  <2>1. ASSUME NEW k \in Int, k <= 0, k >= 0 PROVE k \in TheHours
    BY <1>4, <2>1 DEF TheHours
  <2>2. \A k \in Int : ring.at[Slot(k)] = Zero
    BY <1>2, SlotFacts
  <2>3. ring.minute = 0 /\ \A k \in TheHours : counted[k] = Zero
    BY <1>2
  <2> QED BY <2>1, <2>2, <2>3 DEF StatsTell
<1>9. StatsInv
  BY <1>2, <1>3, <1>4, <1>7, <1>8 DEF StatsInv
<1> QED BY <1>1, <1>2, <1>5, <1>6, <1>9 DEF HandInv

LEMMA StatsTick ==
  ASSUME StatsInv, AdvanceClock, UNCHANGED <<counts, unsent, counted, ring>> PROVE StatsInv'
<1>1. now \in Nat /\ now' = now + 1 /\ now' <= MaxNow /\ MaxNow \in Nat
  BY ClockAssumption DEF StatsInv, AdvanceClock
<1>2. MinuteOf(now) \in Nat /\ MinuteOf(now') \in Nat /\ MinuteOf(now) <= MinuteOf(now')
  BY <1>1, MinuteFacts
<1>3. ring.minute \in 0..MinuteOf(now')
  BY <1>2 DEF StatsInv
<1> QED BY <1>1, <1>3 DEF StatsInv

\* The tally through a step of a thread.
LEMMA ServeTallies ==
  ASSUME ServerInv, TallyInv, NEW l \in Listeners, Serve(l)
  PROVE  TallyInv' /\ BusyKept
<1>1. CASE TallyUp(l)
  <2>1. now' = now /\ srv[l].at = "limited" /\ Record(srv[l].client, srv[l].t)
    BY <1>1 DEF TallyUp, At
  <2>2. /\ srv[l].client \in Callers /\ srv[l].t \in Nat /\ now - MaxSkew <= srv[l].t /\ srv[l].t <= now
        /\ now \in Nat
    BY <2>1, NtpServerAssumption DEF ServerInv, InTime
  <2>3. srv[l].t \in Stamps
    BY <2>2, ClockAssumption DEF Stamps, Larger
  <2> QED BY <2>1, <2>2, <2>3, RecordTells, BusyStays
<1>2. CASE ~TallyUp(l)
  <2>1. now' = now /\ tally' = tally /\ truth' = truth
    BY <1>2 DEF Serve, Leave, Poll, PollTimeout, Receive, Ignore, ReadClock, Limit, Drop, SendKiss,
                CountUnkissed, ReadCurrent, Refuse, Send, services
  <2> QED BY <2>1 DEF TallyInv, BusyKept
<1> QED BY <1>1, <1>2

LEMMA HandKeeps == HandInv /\ [ServerNext]_serverSpecVars => HandInv' /\ BusyKept
<1> SUFFICES ASSUME HandInv, [ServerNext]_serverSpecVars PROVE HandInv' /\ BusyKept
  OBVIOUS
<1>1. /\ ServerInv /\ TallyInv /\ StatsInv /\ Accounted /\ replies = {}
      /\ \A l \in Listeners : Informed(srv[l])
  BY DEF HandInv
<1>2. ServerInv'
  BY <1>1, ServerKeeps
<1>3. ASSUME NEW l \in Listeners, Serve(l) PROVE HandInv' /\ BusyKept
  <2>1. TallyInv' /\ BusyKept
    BY <1>1, <1>3, ServeTallies
  <2>2. now' = now /\ current' = current
    BY <1>1, <1>3, ServeStep
  <2>3. PICK q : /\ srv' = [srv EXCEPT ![l] = q]
                 /\ ServeQuietly(l, q) \/ ServeReceives(l, q) \/ ServeEnds(l, q) \/ ServeFailsToKiss(l, q)
    BY <1>1, <1>3, ServeStep
  <2>4. StatsInv' /\ Accounted'
    BY <1>1, <2>2, <2>3, ServeCounts
  <2>5. (\A k \in Listeners : Informed(srv[k]))' /\ replies' = replies
    BY <1>1, <2>2, <2>3, StaysInformed
  <2> QED BY <1>1, <1>2, <2>1, <2>4, <2>5 DEF HandInv
<1>4. CASE Publish
  <2>1. /\ srv' = [l \in Listeners |-> IF l \in InHand
                                THEN [srv[l] EXCEPT !.seen = srv[l].seen \union {current'}] ELSE srv[l]]
        /\ UNCHANGED <<now, tally, tallySwept, truth, counts, ring, counted, replies, unsent>>
    BY <1>4 DEF Publish, services, serverHistory
  <2>2. ASSUME NEW l \in Listeners
        PROVE  /\ srv'[l].at = srv[l].at
               /\ srv[l].at \notin Idling => srv'[l].seen = srv[l].seen \union {current'} /\ srv'[l].c = srv[l].c
    <3>1. CASE l \notin InHand
      <4>1. srv'[l] = srv[l] /\ srv[l].at \in Idling
        BY <2>1, <3>1 DEF InHand, Idling
      <4> QED BY <4>1
    <3>2. CASE l \in InHand
      <4>1. srv[l].at \notin Idling /\ InTime(srv[l], now)
        BY <1>1, <3>2 DEF InHand, Idling, ServerInv
      <4>2. Shape(srv[l])
        BY <4>1 DEF InTime, Idling
      <4>3. srv'[l] = [srv[l] EXCEPT !.seen = srv[l].seen \union {current'}]
        BY <2>1, <3>2
      <4> QED BY <4>2, <4>3 DEF Shape
    <3> QED BY <3>1, <3>2
  <2>3. InHand' = InHand
    BY <2>2 DEF InHand
  <2>4. \A l \in Listeners : Informed(srv[l])'
    BY <1>1, <2>2 DEF Informed
  <2>5. Accounted'
    BY <1>1, <2>1, <2>3 DEF Accounted
  <2>6. TallyInv' /\ StatsInv' /\ BusyKept
    BY <1>1, <2>1 DEF TallyInv, StatsInv, BusyKept
  <2> QED BY <1>1, <1>2, <2>1, <2>4, <2>5, <2>6 DEF HandInv
<1>5. CASE Stop
  <2>1. UNCHANGED <<now, tally, tallySwept, truth, current, srv, counts, ring, counted, replies, unsent>>
    BY <1>5 DEF Stop, services, serverHistory
  <2>2. TallyInv' /\ StatsInv' /\ BusyKept /\ Accounted' /\ \A l \in Listeners : Informed(srv[l])'
    BY <1>1, <2>1 DEF TallyInv, StatsInv, BusyKept, Accounted, InHand, Informed
  <2> QED BY <1>1, <1>2, <2>1, <2>2 DEF HandInv
<1>6. CASE Wait
  <2>1. AdvanceClock /\ UNCHANGED <<tally, tallySwept, truth, current, srv, counts, ring, counted, replies, unsent>>
    BY <1>6 DEF Wait, serverVars, serverHistory
  <2>2. TallyInv' /\ StatsInv'
    BY <1>1, <2>1, TallyTicks, StatsTick
  <2>3. BusyKept /\ Accounted' /\ \A l \in Listeners : Informed(srv[l])'
    BY <1>1, <2>1 DEF BusyKept, Accounted, InHand, Informed
  <2> QED BY <1>1, <1>2, <2>1, <2>2, <2>3 DEF HandInv
<1>7. CASE UNCHANGED serverSpecVars
  <2>1. UNCHANGED <<now, tally, tallySwept, truth, current, srv, counts, ring, counted, replies, unsent>>
    BY <1>7 DEF serverSpecVars, serverVars, serverHistory
  <2>2. TallyInv' /\ StatsInv' /\ BusyKept /\ Accounted' /\ \A l \in Listeners : Informed(srv[l])'
    BY <1>1, <2>1 DEF TallyInv, StatsInv, BusyKept, Accounted, InHand, Informed
  <2> QED BY <1>1, <1>2, <2>1, <2>2 DEF HandInv
<1> QED BY <1>3, <1>4, <1>5, <1>6, <1>7 DEF ServerNext

(* The status page is right whatever the threads do meanwhile: every       *)
(* request is counted once under what became of it, the figures of the     *)
(* past hour and of its clients are those of the past hour, and no reply   *)
(* claims what the Selector said before its request came.                  *)
THEOREM PageIsExact == ServerSpec => []CountsAreExact
<1>1. HandInv => CountsAreExact
  BY TallyExact, StatsExact DEF HandInv, CountsAreExact, ReplyIsCurrent
<1> QED BY <1>1, HandStarts, HandKeeps, PTL DEF ServerSpec

(* And a busy client is not swept off it, on any number of listeners.      *)
THEOREM ServiceKeepsBusy == ServerSpec => [][BusyKept]_serverSpecVars
BY HandStarts, HandKeeps, PTL DEF ServerSpec
=============================================================================
