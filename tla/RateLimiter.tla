----------------------------- MODULE RateLimiter ----------------------------
(***************************************************************************)
(* Per-client response limiting (src/src/RateLimiter.cpp): a token bucket  *)
(* for each client address cut to its prefix, in a map that is swept and   *)
(* capped.                                                                 *)
(*                                                                         *)
(* Time is in ticks.  A token is Interval ticks of credit, so that the     *)
(* code's division becomes exact: credit = tokens * Interval.              *)
(***************************************************************************)
EXTENDS MonotonicClock, FiniteSets, Sequences

CONSTANTS
  Clients,     \* masked addresses
  Exempt,      \* those under rate_limit.exempt
  Interval,    \* interval_s; 0 for no limit
  Burst,       \* burst
  Kod, Leak,   \* kod, and whether leak is above 0
  MaxBuckets,  \* kMaxBuckets
  SweepEvery   \* ticks in the minute between two sweeps

ASSUME RateLimiterAssumption ==
  /\ Exempt \subseteq Clients /\ IsFiniteSet(Clients)
  /\ Interval \in Nat /\ Burst \in Nat \ {0} /\ Kod \in BOOLEAN /\ Leak \in BOOLEAN
  /\ MaxBuckets \in Nat \ {0} /\ SweepEvery \in Nat /\ Second <= SweepEvery

VARIABLES
  buckets,    \* m_buckets
  lastSweep,  \* m_lastSweep
  answers,    \* history: when each client was answered, and out of which of its buckets
  kods,       \* history: when each client was sent a kiss
  wronged     \* history: a client within its limit was refused

limiterVars == <<buckets, lastSweep>>
limiterHistory == <<answers, kods, wronged>>

Full == Burst * Interval
KodEvery == Larger(Second, Interval)
NoKod == -(KodEvery + MaxSkew)  \* minus infinity

LimiterInit ==
  /\ buckets = [c \in {} |-> 0] /\ lastSweep = 0
  /\ answers = [c \in Clients |-> <<>>] /\ kods = [c \in Clients |-> <<>>] /\ wronged = FALSE

-----------------------------------------------------------------------------
Tracked == DOMAIN buckets

\* What a sweep leaves: the buckets used within the given time.
Swept(B, t, idle) == [c \in {d \in DOMAIN B : t - B[d].at <= idle} |-> B[c]]

\* The minute's sweep, on any call.
SweepDue(t) == t - lastSweep > SweepEvery

\* A slip: the sweep forgets a bucket before it has filled.
AfterEarlySweep(t) == IF SweepDue(t) THEN Swept(buckets, t, SweepEvery) ELSE buckets
AfterSweep(t) == IF SweepDue(t) THEN Swept(buckets, t, Larger(SweepEvery, Full)) ELSE buckets

SweptAt(t) == IF SweepDue(t) THEN t ELSE lastSweep

\* How many buckets client c has had answers out of.
Lives(c) == IF answers[c] = <<>> THEN 0 ELSE answers[c][Len(answers[c])].life
AnswerFrom(c, t, life) == answers' = [answers EXCEPT ![c] = Append(@, [at |-> t, life |-> life])]

Put(B, c, b) == [d \in DOMAIN B \union {c} |-> IF d = c THEN b ELSE B[d]]

\* A slip: a client starts with an empty bucket.
NewEmptyBucket(t) == [credit |-> 0, at |-> t, kodAt |-> NoKod]

NewBucket(t) == [credit |-> Full - Interval, at |-> t, kodAt |-> NoKod]

\* What has been earned since the bucket was last used.
Refilled(b, t) == Smaller(Full, b.credit + (t - b.at))

(* A client without a bucket.  At the cap there is a sweep of whatever has *)
(* had time to fill again, at most one a second, and if that frees nothing *)
(* the client is answered untracked.                                       *)
Crowded(B) == Cardinality(DOMAIN B) >= MaxBuckets

SweptAtCap(B, t) == Swept(B, t, Full)

\* A slip: at the cap, every packet of a flood walks the map.
SweepEachTime(t) == TRUE

MaySweepAtCap(t) == t - SweptAt(t) >= Second

HasRoom(B) == ~Crowded(B)

Admit(c, t, v) ==
  LET B == AfterSweep(t)
      C == IF Crowded(B) /\ MaySweepAtCap(t) THEN SweptAtCap(B, t) ELSE B
  IN /\ c \notin DOMAIN B
     /\ v = "answer"
     /\ lastSweep' = IF Crowded(B) /\ MaySweepAtCap(t) THEN t ELSE SweptAt(t)
     /\ IF HasRoom(C)
        THEN buckets' = Put(C, c, NewBucket(t)) /\ AnswerFrom(c, t, Lives(c) + 1)
        ELSE buckets' = C /\ UNCHANGED answers
     /\ UNCHANGED <<kods, wronged>>

\* A slip: a client that ignores the kiss is sent one for each request.
KodAlways(b, t) == Kod

\* One kiss per client per interval, and never more than one a second.
KodDue(b, t) == Kod /\ t - b.kodAt >= KodEvery

(* What forgetting a bucket may lose: one that was last used, and is made  *)
(* again, by calls that come MaxSkew late had that much less time to fill. *)
Lost == Larger(0, 2 * MaxSkew - 1)

(* The limit itself, without a bucket: in no window may there be more      *)
(* answers than the burst and one for each interval.                       *)
WithinLimit(s) ==
  \A i, j \in DOMAIN s : i <= j =>
    (j - i + 1 - Burst) * Interval <= s[j].at - s[i].at + (s[j].life - s[i].life) * Lost

\* One more answer at time t would break it.
OverLimit(c, t) ==
  \E i \in DOMAIN answers[c] : (Len(answers[c]) - i + 2 - Burst) * Interval > t - answers[c][i].at

(* A client with a bucket: answered if it holds a token; if not, now and   *)
(* then answered anyway, or told to slow down, or ignored.                 *)
Draw(c, t, v) ==
  LET B == AfterSweep(t)
      credit == Refilled(B[c], t)
      b == [B[c] EXCEPT !.credit = credit, !.at = t]
  IN /\ c \in DOMAIN B
     /\ lastSweep' = SweptAt(t)
     /\ \/ /\ credit >= Interval /\ v = "answer"
           /\ buckets' = [B EXCEPT ![c] = [b EXCEPT !.credit = credit - Interval]]
           /\ AnswerFrom(c, t, Lives(c)) /\ UNCHANGED <<kods, wronged>>
        \/ /\ credit < Interval /\ Leak /\ v = "leak"
           /\ buckets' = [B EXCEPT ![c] = b] /\ UNCHANGED limiterHistory
        \/ /\ credit < Interval /\ KodDue(b, t) /\ v = "kod"
           /\ buckets' = [B EXCEPT ![c] = [b EXCEPT !.kodAt = t]]
           /\ kods' = [kods EXCEPT ![c] = Append(@, t)]
           /\ wronged' = (wronged \/ ~OverLimit(c, t)) /\ UNCHANGED answers
        \/ /\ credit < Interval /\ ~KodDue(b, t) /\ v = "drop"
           /\ buckets' = [B EXCEPT ![c] = b]
           /\ wronged' = (wronged \/ ~OverLimit(c, t)) /\ UNCHANGED <<answers, kods>>

\* check(): the verdict v on a request of client c at time t.
Check(c, t, v) ==
  IF Interval = 0 \/ c \in Exempt
  THEN v = "answer" /\ UNCHANGED limiterVars /\ UNCHANGED limiterHistory
  ELSE Admit(c, t, v) \/ Draw(c, t, v)

Verdicts == {"answer", "leak", "kod", "drop"}

-----------------------------------------------------------------------------
(* The limiter by itself, asked by listeners that may be a little late.    *)
limiterSpecVars == <<now, limiterVars, limiterHistory>>

AskLimiter ==
  (\E c \in Clients, t \in Stamps, v \in Verdicts : Check(c, t, v)) /\ UNCHANGED now

LimiterWaits == AdvanceClock /\ UNCHANGED <<limiterVars, limiterHistory>>

LimiterStart == now = 0 /\ LimiterInit
LimiterNext == AskLimiter \/ LimiterWaits
LimiterSpec == LimiterStart /\ [][LimiterNext]_limiterSpecVars
-----------------------------------------------------------------------------
LimiterTypeOK ==
  /\ now \in 0..MaxNow /\ lastSweep \in 0..now /\ Tracked \subseteq Clients
  /\ Cardinality(Tracked) <= MaxBuckets
  /\ \A c \in Tracked : /\ buckets[c].credit \in -MaxSkew..Full
                        /\ buckets[c].at \in 0..now /\ buckets[c].kodAt \in NoKod..now

\* However often a client's bucket is swept and made again, in no window is
\* it answered out of its bucket more than the burst and once an interval.
RateHeld == \A c \in DOMAIN answers : WithinLimit(answers[c])

\* A client is refused only when one more answer would have broken its limit.
OnlyOverLimitRefused == ~wronged

\* The kisses to one client are an interval, and a second, apart; or as long
\* as a forgotten bucket takes to fill, where that is less.
KodGap == Smaller(KodEvery, Full + 1 - 2 * MaxSkew)
KodsApart ==
  \A c \in DOMAIN kods : \A i \in 1..Len(kods[c]) - 1 : kods[c][i + 1] - kods[c][i] >= KodGap

(* The buckets are the limit: with buckets swept, capped and made again    *)
(* ("forgetting it loses nothing", RateLimiter.cpp, but for the lateness   *)
(* of the calls), a client is answered as often as its limit allows and    *)
(* refused only beyond it, nobody pays for what another client did, and    *)
(* the kisses are "one per client per interval".                           *)
LimitExact == RateHeld /\ OnlyOverLimitRefused /\ KodsApart

\* A flood of new addresses walks the map at most once a second.
SweepsApart == lastSweep' # lastSweep => lastSweep' - lastSweep >= Second
=============================================================================
