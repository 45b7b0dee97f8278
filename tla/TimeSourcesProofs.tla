------------------------- MODULE TimeSourcesProofs --------------------------
(***************************************************************************)
(* What NtpPeer keeps for every size of its burst, register and estimator, *)
(* every interval and whatever the server answers: only measured offsets   *)
(* are offered, a backed-off server is not retried early, and spikes do    *)
(* not starve the estimator.  And what a radio source keeps for every      *)
(* choice of its waits: its attempts at a receiver are kept apart.         *)
(***************************************************************************)
EXTENDS MCTimeSources, TLAPS

-----------------------------------------------------------------------------
(* The poll thread's record, by its fields.                                *)
PeerFields ==
  {"wasInactive", "fd", "timeouts", "burstLeft", "retryable", "quickRetries", "backoff", "goodRun",
   "stopped", "reach", "filter", "spikeRun", "samples", "haveOffset", "pollSec", "maxAge", "wait"}
IsPeer(p) == p = [f \in PeerFields |-> p[f]]

\* The fields p and q have alike.
Keeps(p, q, F) == \A f \in F : q[f] = p[f]

\* The offset published is one the estimator has the samples for.
Measured(p) == p.haveOffset => p.samples >= MinSamples
\* The estimator holds nothing but the e replies earned, or those are enough.
Earned(p, e) == p.samples \in Nat /\ (p.samples <= e \/ e >= MinSamples)
\* The counters that are compared are numbers.
Counted(p) == p.backoff \in Nat /\ p.burstLeft \in Nat /\ p.spikeRun \in Nat
\* Since the last sample that was handed on, every reply added to the run of
\* spikes; or the register is empty, and the next reply is its own best.
RunCounted(p, u) == p.spikeRun < SpikeRunLimit /\ (p.filter = <<>> \/ u <= p.spikeRun)

PeerInv ==
  /\ IsPeer(peer) /\ Counted(peer) /\ Measured(peer)
  /\ earned \in Nat /\ Earned(peer, earned)
  /\ unhanded \in Nat /\ unhanded < SpikeRunLimit /\ RunCounted(peer, unhanded)
  /\ pc = "sent" => ~peer.retryable

\* What a step that ends a poll does under a backoff.
WaitsItOut ==
  pc' = "wait" /\ peer'.backoff > 0 /\ (peer.burstLeft = 0 \/ peer'.backoff > peer.backoff)
    => peer'.wait = peer'.backoff

-----------------------------------------------------------------------------
(* Minimum and maximum.                                                    *)
LEMMA MinOne == ASSUME NEW x \in Int PROVE Min({x}) = x
BY DEF Min

LEMMA MinTwo == ASSUME NEW x \in Int, NEW y \in Int PROVE Min({x, y}) = IF x <= y THEN x ELSE y
BY DEF Min

LEMMA MaxTwo == ASSUME NEW x \in Int, NEW y \in Int PROVE Max({x, y}) = IF x >= y THEN x ELSE y
BY DEF Max

-----------------------------------------------------------------------------
(* What each function of the poll thread leaves alone.                     *)
LEMMA CloseSocketKeeps ==
  ASSUME NEW p, IsPeer(p)
  PROVE  IsPeer(CloseSocket(p)) /\ Keeps(p, CloseSocket(p), PeerFields \ {"fd"})
BY DEF IsPeer, Keeps, CloseSocket, PeerFields

LEMMA DropTimingKeeps ==
  ASSUME NEW p, IsPeer(p)
  PROVE  /\ IsPeer(DropTiming(p))
         /\ Keeps(p, DropTiming(p), PeerFields \ {"filter", "samples", "haveOffset"})
         /\ DropTiming(p).filter = <<>> /\ DropTiming(p).haveOffset = FALSE
         /\ DropTiming(p).samples = 0
BY DEF IsPeer, Keeps, DropTiming, PeerFields

LEMMA ConnectPeerKeeps ==
  ASSUME NEW p, IsPeer(p), NEW A, NEW a, NEW u
  PROVE  /\ IsPeer(ConnectPeer(p, A, a))
         /\ Keeps(p, ConnectPeer(p, A, a), PeerFields \ {"fd", "timeouts", "filter", "spikeRun"})
         /\ Counted(p) => Counted(ConnectPeer(p, A, a))
         /\ RunCounted(p, u) => RunCounted(ConnectPeer(p, A, a), u)
<1> USE NtpPeerAssumption DEF PeerFields, IsPeer, Keeps, Counted, RunCounted, SpikeRunLimit
<1>1. CASE A = {} \/ p.fd \in A
  BY <1>1 DEF ConnectPeer
<1>2. CASE ~(A = {} \/ p.fd \in A) /\ p.fd = 0
  BY <1>2 DEF ConnectPeer
<1>3. CASE ~(A = {} \/ p.fd \in A) /\ p.fd # 0
  <2>1. ConnectPeer(p, A, a) = [p EXCEPT !.fd = a, !.timeouts = 0, !.filter = <<>>, !.spikeRun = 0]
    BY <1>3 DEF ConnectPeer
  <2>2. IsPeer(ConnectPeer(p, A, a))
    BY <2>1
  <2>3. Keeps(p, ConnectPeer(p, A, a), PeerFields \ {"fd", "timeouts", "filter", "spikeRun"})
    BY <2>1
  <2>4. /\ ConnectPeer(p, A, a).filter = <<>> /\ ConnectPeer(p, A, a).spikeRun = 0
        /\ ConnectPeer(p, A, a).backoff = p.backoff /\ ConnectPeer(p, A, a).burstLeft = p.burstLeft
    BY <2>1
  <2> QED BY <2>2, <2>3, <2>4
<1> QED BY <1>1, <1>2, <1>3

LEMMA ResumeKeeps ==
  ASSUME NEW p, IsPeer(p)
  PROVE  /\ IsPeer(Resume(p))
         /\ Keeps(p, Resume(p), PeerFields \ {"wasInactive", "burstLeft", "backoff"})
         /\ Counted(p) => Counted(Resume(p))
BY NtpPeerAssumption DEF PeerFields, IsPeer, Keeps, Counted, Resume

LEMMA StartOverKeeps ==
  ASSUME NEW p, IsPeer(p), NEW u
  PROVE  /\ IsPeer(StartOver(p))
         /\ Counted(p) => Counted(StartOver(p))
         /\ Measured(p) => Measured(StartOver(p))
         /\ RunCounted(p, u) => RunCounted(StartOver(p), u)
         /\ \A e \in Nat : Earned(p, e) => Earned(StartOver(p), IF reacquire THEN 0 ELSE e)
<1> DEFINE q == CloseSocket(p)
           d == DropTiming(q)
<1>1. IsPeer(q) /\ Keeps(p, q, PeerFields \ {"fd"})
  BY CloseSocketKeeps
<1>2. /\ IsPeer(d) /\ Keeps(q, d, PeerFields \ {"filter", "samples", "haveOffset"})
      /\ d.filter = <<>> /\ d.haveOffset = FALSE /\ d.samples = 0
  BY <1>1, DropTimingKeeps
<1> HIDE DEF q, d
<1>3. StartOver(p) = IF reacquire THEN [d EXCEPT !.burstLeft = BurstCount] ELSE p
  BY DEF StartOver, q, d
<1>4. ASSUME NEW e \in Nat, Earned(p, e) PROVE Earned(StartOver(p), IF reacquire THEN 0 ELSE e)
  <2>1. reacquire => StartOver(p).samples = 0
    BY <1>2, <1>3 DEF IsPeer, PeerFields
  <2>2. ~reacquire => StartOver(p) = p
    BY <1>3
  <2> QED BY <1>4, <2>1, <2>2 DEF Earned
<1>5. /\ IsPeer(StartOver(p))
      /\ Counted(p) => Counted(StartOver(p))
      /\ Measured(p) => Measured(StartOver(p))
      /\ RunCounted(p, u) => RunCounted(StartOver(p), u)
  <2>1. CASE ~reacquire BY <2>1, <1>3
  <2>2. CASE reacquire
    <3> DEFINE r == [d EXCEPT !.burstLeft = BurstCount]
    <3>1. StartOver(p) = r BY <1>3, <2>2
    <3>2. Keeps(p, d, PeerFields \ {"fd", "filter", "samples", "haveOffset"})
      BY <1>1, <1>2 DEF Keeps, PeerFields
    <3>3. IsPeer(r) BY <1>2, NtpPeerAssumption DEF IsPeer, PeerFields
    <3>4. Keeps(d, r, PeerFields \ {"burstLeft"}) BY <1>2 DEF Keeps, IsPeer, PeerFields
    <3>5. /\ r.backoff = p.backoff /\ r.spikeRun = p.spikeRun /\ r.burstLeft = BurstCount
          /\ r.filter = <<>> /\ r.haveOffset = FALSE
      BY <1>2, <3>2, <3>4 DEF Keeps, PeerFields, IsPeer, r
    <3> HIDE DEF r
    <3>6. Counted(p) => Counted(r) BY <3>5, NtpPeerAssumption DEF Counted
    <3>7. Measured(r) /\ (RunCounted(p, u) => RunCounted(r, u)) BY <3>5 DEF Measured, RunCounted
    <3> QED BY <3>1, <3>3, <3>5, <3>6, <3>7
  <2> QED BY <2>1, <2>2
<1> QED BY <1>4, <1>5

\* Everything before the send.
LEMMA PrepareKeeps ==
  ASSUME NEW p, IsPeer(p), NEW A, NEW a, NEW due, NEW u, Counted(p), Measured(p), RunCounted(p, u),
         NEW e \in Nat, Earned(p, e)
  PROVE  LET q == Prepare(p, A, a, due)
         IN /\ IsPeer(q) /\ Counted(q) /\ Measured(q) /\ RunCounted(q, u) /\ q.retryable = FALSE
            /\ Earned(q, IF reacquire THEN 0 ELSE e)
<1> DEFINE f == IF reacquire THEN 0 ELSE e
           Good(x) == IsPeer(x) /\ Counted(x) /\ Measured(x) /\ RunCounted(x, u) /\ Earned(x, f)
<1> HIDE DEF f
<1>1. /\ IsPeer(Resume(p)) /\ Counted(Resume(p)) /\ Measured(Resume(p))
      /\ RunCounted(Resume(p), u) /\ Earned(Resume(p), e)
  BY ResumeKeeps DEF Keeps, PeerFields, Measured, RunCounted, Earned
<1>2. Good(StartOver(Resume(p)))
  BY <1>1, StartOverKeeps DEF f
<1>3. ASSUME NEW x, Good(x) PROVE Good(ConnectPeer(x, A, a))
  <2>1. Keeps(x, ConnectPeer(x, A, a), PeerFields \ {"fd", "timeouts", "filter", "spikeRun"})
    BY <1>3, ConnectPeerKeeps, Zenon
  <2>2. Keeps(x, ConnectPeer(x, A, a), {"samples", "haveOffset"})
    BY <2>1 DEF Keeps, PeerFields
  <2> QED BY <1>3, <2>2, ConnectPeerKeeps DEF Keeps, Measured, Earned
<1>4. ASSUME NEW x, Good(x) PROVE Good([x EXCEPT !.timeouts = 0])
  BY <1>4 DEF IsPeer, PeerFields, Counted, Measured, RunCounted, Earned
<1> DEFINE r == StartOver(Resume(p))
           s == Reresolve(r, A, a, due)
           c == IF s.fd = 0 THEN ConnectPeer(s, A, a) ELSE s
<1> HIDE DEF Good, r
<1>5. Good(s)
  <2>1. Good(r) /\ Good(ConnectPeer(r, A, a)) /\ Good([ConnectPeer(r, A, a) EXCEPT !.timeouts = 0])
    BY <1>2, <1>3, <1>4 DEF r
  <2> QED BY <2>1 DEF Reresolve
<1> HIDE DEF s
<1>6. Good(c)
  BY <1>3, <1>5
<1> HIDE DEF c
<1>7. Prepare(p, A, a, due) = [c EXCEPT !.retryable = FALSE]
  BY DEF Prepare, c, s, r
<1> QED
  BY <1>6, <1>7 DEF Good, f, IsPeer, PeerFields, Counted, Measured, RunCounted, Earned

-----------------------------------------------------------------------------
(* What a poll ends in.                                                    *)

\* The snapshot is made anew: whatever offset it has is measured.
LEMMA ReachMeasures ==
  ASSUME NEW p, IsPeer(p), NEW ok
  PROVE  LET q == Reach(p, ok)
         IN /\ IsPeer(q) /\ Measured(q)
            /\ Keeps(p, q, PeerFields \ {"reach", "haveOffset", "maxAge"})
<1> DEFINE v == (2 * p.reach + IF ok THEN 1 ELSE 0) % 2^ReachBits
           r == [p EXCEPT !.reach = v]
<1>1. IsPeer(r) /\ Keeps(p, r, PeerFields \ {"reach"})
  BY DEF IsPeer, PeerFields, Keeps
<1>2. Reach(p, ok) = Recompute(r)
  BY DEF Reach
<1> HIDE DEF r
<1> QED
  BY <1>1, <1>2 DEF Recompute, IsPeer, PeerFields, Keeps, Measured

LEMMA PaceKeeps ==
  ASSUME NEW p, IsPeer(p), Counted(p)
  PROVE  LET q == Pace(p)
         IN /\ IsPeer(q) /\ Counted(q)
            /\ Keeps(p, q, PeerFields \ {"burstLeft", "quickRetries", "wait", "pollSec"})
            /\ p.burstLeft = 0 /\ p.backoff > 0 => q.wait = q.backoff
<1> DEFINE interval == IF p.backoff > 0 THEN p.backoff ELSE 1
           quick == p.retryable /\ p.backoff = 0 /\ p.reach # 0 /\ p.quickRetries < MaxQuickRetries
           b == [p EXCEPT !.burstLeft = @ - 1, !.wait = 0]
           s == [p EXCEPT !.quickRetries = @ + 1, !.wait = 0]
           w == [p EXCEPT !.quickRetries = 0, !.wait = interval]
<1>1. CASE p.burstLeft > 0
  <2>1. Pace(p) = [b EXCEPT !.pollSec = interval]
    BY <1>1 DEF Pace
  <2>2. p.burstLeft - 1 \in Nat /\ p.burstLeft # 0
    BY <1>1 DEF Counted
  <2>3. /\ IsPeer(b) /\ Keeps(p, b, PeerFields \ {"burstLeft", "wait"})
        /\ b.burstLeft = p.burstLeft - 1
    BY DEF IsPeer, PeerFields, Keeps
  <2> HIDE DEF b
  <2> QED BY <2>1, <2>2, <2>3 DEF IsPeer, PeerFields, Keeps, Counted
<1>2. CASE p.burstLeft = 0 /\ quick
  <2>1. ~(p.burstLeft > 0) /\ ~(p.backoff > 0)
    BY <1>2 DEF Counted
  <2>2. Pace(p) = [s EXCEPT !.pollSec = interval]
    BY <1>2, <2>1, Zenon DEF Pace
  <2>3. IsPeer(s) /\ Keeps(p, s, PeerFields \ {"quickRetries", "wait"})
    BY DEF IsPeer, PeerFields, Keeps
  <2> HIDE DEF s
  <2> QED BY <1>2, <2>1, <2>2, <2>3 DEF IsPeer, PeerFields, Keeps, Counted
<1>3. CASE p.burstLeft = 0 /\ ~quick
  <2>1. ~(p.burstLeft > 0)
    BY <1>3 DEF Counted
  <2>2. Pace(p) = [w EXCEPT !.pollSec = interval]
    BY <1>3, <2>1, Zenon DEF Pace
  <2>3. IsPeer(w) /\ Keeps(p, w, PeerFields \ {"quickRetries", "wait"}) /\ w.wait = interval
    BY DEF IsPeer, PeerFields, Keeps
  <2> HIDE DEF w
  <2> QED BY <1>3, <2>1, <2>2, <2>3 DEF IsPeer, PeerFields, Keeps, Counted
<1>4. p.burstLeft > 0 \/ p.burstLeft = 0
  BY DEF Counted
<1> QED BY <1>1, <1>2, <1>3, <1>4, Zenon

\* The end of a poll keeps the run of spikes, and offers what is measured.
LEMMA FinishKeeps ==
  ASSUME NEW p, IsPeer(p), Counted(p), NEW ok, NEW u, RunCounted(p, u), Finish(p, ok)
  PROVE  /\ IsPeer(peer') /\ Counted(peer') /\ Measured(peer') /\ RunCounted(peer', u)
         /\ peer'.samples = p.samples
         /\ pc' \in {"refused", "wait"}
         /\ peer'.backoff = p.backoff
         /\ pc' = "wait" /\ p.burstLeft = 0 /\ p.backoff > 0 => peer'.wait = peer'.backoff
<1> DEFINE q == Reach(p, ok)
<1>1. /\ IsPeer(q) /\ Measured(q) /\ Counted(q) /\ RunCounted(q, u)
      /\ q.backoff = p.backoff /\ q.burstLeft = p.burstLeft /\ q.samples = p.samples
  BY ReachMeasures DEF Keeps, PeerFields, Counted, RunCounted
<1>2. \/ peer' = q /\ pc' = "refused"
      \/ peer' = Pace(q) /\ pc' = "wait"
  BY DEF Finish
<1> HIDE DEF q
<1>3. CASE peer' = q /\ pc' = "refused"
  BY <1>1, <1>3
<1>4. CASE peer' = Pace(q) /\ pc' = "wait"
  BY <1>1, <1>4, PaceKeeps DEF Keeps, PeerFields, Measured, RunCounted
<1> QED BY <1>2, <1>3, <1>4

-----------------------------------------------------------------------------
(* What an answer does.                                                    *)
LEMMA EaseKeeps ==
  ASSUME NEW p, IsPeer(p), p.backoff \in Nat
  PROVE  /\ IsPeer(Ease(p)) /\ Keeps(p, Ease(p), PeerFields \ {"backoff", "goodRun"})
         /\ Ease(p).backoff \in Nat /\ Ease(p).backoff <= p.backoff
<1> DEFINE eased == IF p.backoff \div 2 <= 1 THEN 0 ELSE p.backoff \div 2
           g == [p EXCEPT !.goodRun = @ + 1]
           e == [p EXCEPT !.goodRun = 0, !.backoff = eased]
<1>1. eased \in Nat /\ eased <= p.backoff
  OBVIOUS
<1>2. Ease(p) \in {p, g, e}
  BY DEF Ease
<1> HIDE DEF eased
<1>3. /\ IsPeer(g) /\ Keeps(p, g, PeerFields \ {"backoff", "goodRun"})
      /\ g.backoff = p.backoff
  BY DEF IsPeer, PeerFields, Keeps
<1>4. /\ IsPeer(e) /\ Keeps(p, e, PeerFields \ {"backoff", "goodRun"})
      /\ e.backoff = eased
  BY DEF IsPeer, PeerFields, Keeps
<1>5. Keeps(p, p, PeerFields \ {"backoff", "goodRun"})
  BY DEF Keeps
<1> HIDE DEF g, e
<1> QED BY <1>1, <1>2, <1>3, <1>4, <1>5

LEMMA RateKeeps ==
  ASSUME NEW p, IsPeer(p), p.backoff \in Nat, NEW asked \in Nat
  PROVE  /\ IsPeer(Rate(p, asked))
         /\ Keeps(p, Rate(p, asked), PeerFields \ {"burstLeft", "goodRun", "backoff"})
         /\ Rate(p, asked).burstLeft = 0 /\ Rate(p, asked).backoff \in Nat
<1> DEFINE current == IF p.backoff > 0 THEN p.backoff ELSE 1
           longer == Max({2 * current, asked})
           slower == Min({MaxBackoff, longer})
<1>1. current \in Nat
  OBVIOUS
<1> HIDE DEF current
<1>2. longer \in Nat
  BY <1>1, MaxTwo
<1> HIDE DEF longer
<1>3. slower \in Nat
  BY <1>2, MinTwo, NtpPeerAssumption
<1> HIDE DEF slower
<1>4. Rate(p, asked) = [p EXCEPT !.burstLeft = 0, !.goodRun = 0, !.backoff = slower]
  BY DEF Rate, slower, longer, current
<1> QED BY <1>3, <1>4 DEF IsPeer, PeerFields, Keeps

\* A register of one reply has that reply for its best.
LEMMA OneReply ==
  ASSUME NEW d \in Nat
  PROVE  Min(ToSet(SubSeq(<<d>> \o <<>>, 1, Min({FilterSize, Len(<<>>) + 1})))) = d
<1>1. Min({FilterSize, Len(<<>>) + 1}) = 1
  BY MinTwo, NtpPeerAssumption
<1>2. <<d>> \o <<>> = <<d>>
  OBVIOUS
<1>3. /\ SubSeq(<<d>>, 1, 1) \in Seq(Nat)
      /\ Len(SubSeq(<<d>>, 1, 1)) = 1 /\ SubSeq(<<d>>, 1, 1)[1] = d
  <2>1. <<d>> \in Seq(Nat) /\ Len(<<d>>) = 1
    OBVIOUS
  <2> QED BY <2>1
<1>4. ToSet(SubSeq(<<d>>, 1, 1)) = {d}
  <2>1. ASSUME NEW s \in Seq(Nat), Len(s) = 1, s[1] = d PROVE {s[i] : i \in DOMAIN s} = {d}
    BY <2>1
  <2> QED BY <1>3, <2>1 DEF ToSet
<1>5. Min({d}) = d
  BY MinOne
<1> QED BY <1>1, <1>2, <1>4, <1>5, Zenon

\* A reply to an empty register is its own best, and no spike; a spike is
\* counted and marked, and anything else ends the run.
LEMMA FilterAddKeeps ==
  ASSUME NEW p, IsPeer(p), p.spikeRun \in Nat, NEW d \in Nat
  PROVE  LET q == FilterAdd(p, d)
         IN /\ IsPeer(q) /\ Keeps(p, q, PeerFields \ {"filter", "spikeRun", "samples", "retryable"})
            /\ \/ /\ p.filter # <<>> /\ q.retryable = TRUE
                  /\ q.spikeRun = p.spikeRun + 1 /\ q.spikeRun < SpikeRunLimit
                  /\ q.samples = p.samples
               \/ /\ q.retryable = p.retryable /\ q.spikeRun = 0
                  /\ q.samples = Min({p.samples + 1, MaxSamples})
<1> DEFINE filter == SubSeq(<<d>> \o p.filter, 1, Min({FilterSize, Len(p.filter) + 1}))
           sorted == SortSeq(filter, LAMBDA x, y : x < y)
           best == Min(ToSet(filter))
           cleanSpread == sorted[Len(filter) \div 4 + 1] - best
           spike == /\ \A allowed \in {SpikeFloor, best, 3 * cleanSpread} : d - best > allowed
                    /\ p.spikeRun + 1 < SpikeRunLimit
           s == [p EXCEPT !.filter = filter, !.spikeRun = @ + 1, !.retryable = TRUE]
           h == [p EXCEPT !.filter = filter, !.spikeRun = 0, !.samples = Min({@ + 1, MaxSamples})]
<1>1. p.filter = <<>> => ~spike
  <2> SUFFICES ASSUME p.filter = <<>> PROVE ~spike
    OBVIOUS
  <2>1. best = d
    BY OneReply, Zenon
  <2> HIDE DEF filter, sorted, best, cleanSpread
  <2>2. ~(d - best > SpikeFloor)
    BY <2>1, NtpPeerAssumption
  <2> QED BY <2>2, Zenon
<1>2. FilterAdd(p, d) = IF spike THEN s ELSE h
  BY DEF FilterAdd
<1>3. spike => p.spikeRun + 1 < SpikeRunLimit
  OBVIOUS
<1> HIDE DEF spike, filter
<1>4. /\ IsPeer(s) /\ Keeps(p, s, PeerFields \ {"filter", "spikeRun", "samples", "retryable"})
      /\ s.retryable = TRUE /\ s.spikeRun = p.spikeRun + 1 /\ s.samples = p.samples
  BY DEF IsPeer, PeerFields, Keeps
<1>5. /\ IsPeer(h) /\ Keeps(p, h, PeerFields \ {"filter", "spikeRun", "samples", "retryable"})
      /\ h.retryable = p.retryable /\ h.spikeRun = 0 /\ h.samples = Min({p.samples + 1, MaxSamples})
  BY DEF IsPeer, PeerFields, Keeps
<1> HIDE DEF s, h
<1> QED BY <1>1, <1>2, <1>3, <1>4, <1>5

\* An answer to the request in flight: the run of spikes counts every usable
\* reply that is not handed on, and a kiss ends the burst.
LEMMA HandleKeeps ==
  ASSUME NEW p, IsPeer(p), Counted(p), NEW u \in Nat, u < SpikeRunLimit, RunCounted(p, u),
         p.retryable = FALSE, NEW answer \in Answers, NEW n \in Nat, Earned(p, n)
  PROVE  LET q == Handle(p, answer)
             v == IF answer[1] # "usable" THEN u ELSE IF q.retryable THEN u + 1 ELSE 0
             m == IF answer[1] = "usable" /\ ~q.retryable THEN Min({n + 1, MinSamples}) ELSE n
         IN /\ IsPeer(q) /\ Counted(q) /\ RunCounted(q, v) /\ v \in Nat /\ v < SpikeRunLimit
            /\ p.burstLeft = 0 \/ q.backoff > p.backoff => q.burstLeft = 0
            /\ m \in Nat /\ Earned(q, m)
<1> USE NtpPeerAssumption DEF SpikeRunLimit
<1>1. CASE answer[1] = "usable"
  <2> DEFINE x == [p EXCEPT !.timeouts = 0]
             e == Ease(x)
             q == FilterAdd(e, answer[2])
  <2>1. IsPeer(x) /\ Keeps(p, x, PeerFields \ {"timeouts"})
    BY DEF IsPeer, PeerFields, Keeps
  <2>2. x.backoff \in Nat /\ x.backoff = p.backoff
    BY <2>1 DEF Keeps, PeerFields, Counted
  <2> HIDE DEF x
  <2>3. /\ IsPeer(e) /\ Keeps(x, e, PeerFields \ {"backoff", "goodRun"})
        /\ e.backoff \in Nat /\ e.backoff <= x.backoff
    BY <2>1, <2>2, EaseKeeps
  <2>4. /\ e.spikeRun = p.spikeRun /\ e.filter = p.filter /\ e.burstLeft = p.burstLeft
        /\ e.retryable = FALSE /\ e.samples = p.samples
    BY <2>1, <2>3 DEF Keeps, PeerFields
  <2> HIDE DEF e
  <2>5. answer[2] \in Nat /\ e.spikeRun \in Nat
    BY <1>1, <2>4 DEF Counted
  <2>6. /\ IsPeer(q) /\ Keeps(e, q, PeerFields \ {"filter", "spikeRun", "samples", "retryable"})
        /\ \/ /\ e.filter # <<>> /\ q.retryable = TRUE
              /\ q.spikeRun = e.spikeRun + 1 /\ q.spikeRun < SpikeRunLimit
              /\ q.samples = e.samples
           \/ /\ q.retryable = e.retryable /\ q.spikeRun = 0
              /\ q.samples = Min({e.samples + 1, MaxSamples})
    BY <2>3, <2>5, FilterAddKeeps
  <2> HIDE DEF q
  <2>7. q.backoff = e.backoff /\ q.burstLeft = e.burstLeft
    BY <2>6 DEF Keeps, PeerFields
  <2>8. Handle(p, answer) = q
    BY <1>1 DEF Handle, q, e, x
  <2>9. CASE /\ p.filter # <<>> /\ q.retryable = TRUE
             /\ q.spikeRun = p.spikeRun + 1 /\ q.spikeRun < SpikeRunLimit
             /\ q.samples = p.samples
    BY <1>1, <2>2, <2>3, <2>4, <2>6, <2>7, <2>8, <2>9 DEF Counted, RunCounted, Earned
  <2>10. CASE /\ q.retryable = FALSE /\ q.spikeRun = 0
              /\ q.samples = Min({p.samples + 1, MaxSamples})
    <3>1. /\ Min({n + 1, MinSamples}) = IF n + 1 <= MinSamples THEN n + 1 ELSE MinSamples
          /\ q.samples = IF p.samples + 1 <= MaxSamples THEN p.samples + 1 ELSE MaxSamples
      BY <2>10, MinTwo DEF Earned
    <3>2. Min({n + 1, MinSamples}) \in Nat /\ Earned(q, Min({n + 1, MinSamples}))
      BY <3>1 DEF Earned
    <3> QED BY <1>1, <2>2, <2>3, <2>4, <2>6, <2>7, <2>8, <2>10, <3>2 DEF Counted, RunCounted
  <2> QED BY <2>4, <2>6, <2>9, <2>10
<1>2. CASE answer[1] = "rate"
  <2> DEFINE q == Rate(p, answer[2])
  <2>1. answer[2] \in Nat
    BY <1>2
  <2>2. /\ IsPeer(q) /\ Keeps(p, q, PeerFields \ {"burstLeft", "goodRun", "backoff"})
        /\ q.burstLeft = 0 /\ q.backoff \in Nat
    BY <2>1, RateKeeps DEF Counted
  <2>3. Handle(p, answer) = q
    BY <1>2 DEF Handle
  <2> HIDE DEF q
  <2>4. q.spikeRun = p.spikeRun /\ q.filter = p.filter /\ q.samples = p.samples
    BY <2>2 DEF Keeps, PeerFields
  <2> QED BY <1>2, <2>2, <2>3, <2>4 DEF Counted, RunCounted, Earned
<1>3. CASE answer[1] = "deny"
  <2> DEFINE q == [p EXCEPT !.stopped = TRUE]
  <2>1. IsPeer(q) /\ Keeps(p, q, PeerFields \ {"stopped"})
    BY DEF IsPeer, PeerFields, Keeps
  <2>2. Handle(p, answer) = q
    BY <1>3 DEF Handle
  <2> HIDE DEF q
  <2>3. /\ q.spikeRun = p.spikeRun /\ q.filter = p.filter
        /\ q.backoff = p.backoff /\ q.burstLeft = p.burstLeft /\ q.samples = p.samples
    BY <2>1 DEF Keeps, PeerFields
  <2> QED BY <1>3, <2>1, <2>2, <2>3 DEF Counted, RunCounted, Earned
<1>4. CASE answer[1] = "refused"
  <2>1. Handle(p, answer) = p
    BY <1>4 DEF Handle
  <2> QED BY <1>4, <2>1 DEF Counted, RunCounted, Earned
<1> QED BY <1>1, <1>2, <1>3, <1>4

-----------------------------------------------------------------------------
(* The invariant, and what a poll that ends does.                          *)
LEMMA FreshIsPeer ==
  /\ IsPeer(Fresh) /\ IsPeer([Fresh EXCEPT !.burstLeft = 0])
BY DEF Fresh, IsPeer, PeerFields

LEMMA PeerStarts == Init => PeerInv
<1> SUFFICES ASSUME Init PROVE PeerInv
  OBVIOUS
<1>1. CASE peer = Fresh
  BY <1>1, FreshIsPeer, NtpPeerAssumption
  DEF Init, Fresh, PeerInv, Counted, Measured, Earned, RunCounted, SpikeRunLimit
<1>2. CASE peer = [Fresh EXCEPT !.burstLeft = 0]
  BY <1>2, FreshIsPeer, NtpPeerAssumption
  DEF Init, Fresh, PeerInv, Counted, Measured, Earned, RunCounted, SpikeRunLimit
<1> QED BY <1>1, <1>2 DEF Init

\* A reply: taken only if it answers the request in flight.
LEMMA ReceiveKeeps ==
  ASSUME PeerInv, Receive
  PROVE  PeerInv' /\ WaitsItOut
<1>1. pc = "sent"
  BY DEF Receive
<1>2. PICK answer \in Answers, ours \in BOOLEAN :
        IF ~Matches(ours) THEN UNCHANGED vars
        ELSE LET p == Handle(peer, answer)
                 ok == answer[1] = "usable" IN
             /\ Finish(p, ok)
             /\ unhanded' = IF ~ok THEN unhanded ELSE IF p.retryable THEN unhanded + 1 ELSE 0
             /\ earned' = IF ok /\ ours /\ ~p.retryable THEN Min({earned + 1, MinSamples})
                          ELSE earned
             /\ UNCHANGED <<running, active, reacquire>>
  BY Zenon DEF Receive
<1>3. CASE ~Matches(ours)
  <2>1. UNCHANGED vars
    BY <1>2, <1>3
  <2> QED BY <1>1, <2>1 DEF vars, PeerInv, Counted, Measured, Earned, RunCounted, IsPeer, WaitsItOut
<1>4. CASE Matches(ours)
  <2> DEFINE p == Handle(peer, answer)
             ok == answer[1] = "usable"
             v == IF answer[1] # "usable" THEN unhanded ELSE IF p.retryable THEN unhanded + 1 ELSE 0
             m == IF answer[1] = "usable" /\ ~p.retryable THEN Min({earned + 1, MinSamples})
                  ELSE earned
  <2>1. Finish(p, ok) /\ unhanded' = v /\ earned' = m
    <3>1. /\ Finish(p, ok)
          /\ earned' = IF ok /\ ours /\ ~p.retryable THEN Min({earned + 1, MinSamples}) ELSE earned
          /\ unhanded' = IF ~ok THEN unhanded ELSE IF p.retryable THEN unhanded + 1 ELSE 0
      BY <1>2, <1>4, Zenon
    <3>2. ours
      BY <1>4 DEF Matches
    <3> QED BY <3>1, <3>2, Zenon
  <2>2. peer.retryable = FALSE
    BY <1>1 DEF PeerInv
  <2>3. /\ IsPeer(p) /\ Counted(p) /\ RunCounted(p, v) /\ v \in Nat /\ v < SpikeRunLimit
        /\ peer.burstLeft = 0 \/ p.backoff > peer.backoff => p.burstLeft = 0
        /\ m \in Nat /\ Earned(p, m)
    BY <2>2, HandleKeeps DEF PeerInv
  <2> HIDE DEF p, ok, v, m
  <2>4. /\ IsPeer(peer') /\ Counted(peer') /\ Measured(peer') /\ RunCounted(peer', v)
        /\ peer'.samples = p.samples
        /\ pc' \in {"refused", "wait"}
        /\ peer'.backoff = p.backoff
        /\ pc' = "wait" /\ p.burstLeft = 0 /\ p.backoff > 0 => peer'.wait = peer'.backoff
    BY <2>1, <2>3, FinishKeeps
  <2>5. PeerInv'
    BY <2>1, <2>3, <2>4
    DEF PeerInv, SpikeRunLimit, IsPeer, PeerFields, Counted, Measured, Earned, RunCounted
  <2> QED BY <2>3, <2>4, <2>5 DEF WaitsItOut
<1> QED BY <1>3, <1>4

\* A poll that ends without an answer.
LEMMA UnansweredKeeps ==
  ASSUME PeerInv, NEW p, IsPeer(p), Counted(p), RunCounted(p, unhanded), Finish(p, FALSE),
         UNCHANGED unhanded, earned' \in Nat, Earned(p, earned')
  PROVE  /\ PeerInv'
         /\ pc' = "wait" /\ p.burstLeft = 0 /\ p.backoff > 0 => peer'.wait = peer'.backoff
         /\ peer'.backoff = p.backoff
<1>1. /\ IsPeer(peer') /\ Counted(peer') /\ Measured(peer') /\ RunCounted(peer', unhanded)
      /\ peer'.samples = p.samples
      /\ pc' \in {"refused", "wait"}
      /\ peer'.backoff = p.backoff
      /\ pc' = "wait" /\ p.burstLeft = 0 /\ p.backoff > 0 => peer'.wait = peer'.backoff
  BY FinishKeeps
<1> QED
  BY <1>1 DEF PeerInv, SpikeRunLimit, IsPeer, PeerFields, Counted, Measured, Earned, RunCounted

LEMMA TimeoutKeeps ==
  ASSUME PeerInv, Timeout
  PROVE  PeerInv' /\ WaitsItOut
<1> DEFINE n == Min({peer.timeouts + 1, ReresolveAfter})
           p == [peer EXCEPT !.timeouts = n, !.retryable = TRUE]
<1> HIDE DEF n
<1>1. IsPeer(p) /\ Keeps(peer, p, PeerFields \ {"timeouts", "retryable"})
  BY DEF PeerInv, IsPeer, PeerFields, Keeps
<1>2. Finish(p, FALSE) /\ UNCHANGED <<unhanded, earned>>
  BY DEF Timeout, n
<1> HIDE DEF p
<1>3. /\ p.spikeRun = peer.spikeRun /\ p.filter = peer.filter
      /\ p.backoff = peer.backoff /\ p.burstLeft = peer.burstLeft /\ p.samples = peer.samples
  BY <1>1 DEF Keeps, PeerFields
<1>4. Counted(p) /\ RunCounted(p, unhanded) /\ earned' \in Nat /\ Earned(p, earned')
  BY <1>2, <1>3 DEF PeerInv, Counted, RunCounted, Earned
<1>5. /\ PeerInv'
      /\ pc' = "wait" /\ p.burstLeft = 0 /\ p.backoff > 0 => peer'.wait = peer'.backoff
      /\ peer'.backoff = p.backoff
  BY <1>1, <1>2, <1>4, UnansweredKeeps
<1> QED BY <1>3, <1>5 DEF PeerInv, Counted, WaitsItOut

LEMMA RecvErrorKeeps ==
  ASSUME PeerInv, RecvError
  PROVE  PeerInv' /\ WaitsItOut
<1> DEFINE p == CloseSocket(peer)
<1>1. IsPeer(p) /\ Keeps(peer, p, PeerFields \ {"fd"})
  BY CloseSocketKeeps DEF PeerInv
<1>2. Finish(p, FALSE) /\ UNCHANGED <<unhanded, earned>>
  BY DEF RecvError
<1> HIDE DEF p
<1>3. /\ p.spikeRun = peer.spikeRun /\ p.filter = peer.filter
      /\ p.backoff = peer.backoff /\ p.burstLeft = peer.burstLeft /\ p.samples = peer.samples
  BY <1>1 DEF Keeps, PeerFields
<1>4. Counted(p) /\ RunCounted(p, unhanded) /\ earned' \in Nat /\ Earned(p, earned')
  BY <1>2, <1>3 DEF PeerInv, Counted, RunCounted, Earned
<1>5. /\ PeerInv'
      /\ pc' = "wait" /\ p.burstLeft = 0 /\ p.backoff > 0 => peer'.wait = peer'.backoff
      /\ peer'.backoff = p.backoff
  BY <1>1, <1>2, <1>4, UnansweredKeeps
<1> QED BY <1>3, <1>5 DEF PeerInv, Counted, WaitsItOut

LEMMA PollKeeps ==
  ASSUME PeerInv, Poll
  PROVE  PeerInv'
<1>1. PICK A \in SUBSET Addresses, a \in Addresses, due \in BOOLEAN :
        LET p == Prepare(peer, A, a, due) IN
        \/ p.fd # 0 /\ peer' = p /\ pc' = "sent"
        \/ Finish(CloseSocket(p), FALSE)
  BY Zenon DEF Poll
<1> DEFINE p == Prepare(peer, A, a, due)
           c == CloseSocket(p)
<1>2. /\ IsPeer(p) /\ Counted(p) /\ Measured(p) /\ RunCounted(p, unhanded) /\ p.retryable = FALSE
      /\ Earned(p, IF reacquire THEN 0 ELSE earned)
  BY PrepareKeeps DEF PeerInv
<1>3. UNCHANGED unhanded /\ earned' = (IF reacquire THEN 0 ELSE earned) /\ earned' \in Nat
  BY DEF Poll, PeerInv
<1>4. (peer' = p /\ pc' = "sent") \/ Finish(c, FALSE)
  BY <1>1, Zenon
<1> HIDE DEF p
<1>5. CASE peer' = p /\ pc' = "sent"
  BY <1>2, <1>3, <1>5
  DEF PeerInv, SpikeRunLimit, IsPeer, PeerFields, Counted, Measured, Earned, RunCounted
<1>6. CASE Finish(c, FALSE)
  <2>1. IsPeer(c) /\ Keeps(p, c, PeerFields \ {"fd"})
    BY <1>2, CloseSocketKeeps
  <2> HIDE DEF c
  <2>2. Counted(c) /\ RunCounted(c, unhanded) /\ Earned(c, earned')
    BY <1>2, <1>3, <2>1 DEF Keeps, PeerFields, Counted, RunCounted, Earned
  <2> QED BY <1>3, <1>6, <2>1, <2>2, UnansweredKeeps
<1> QED BY <1>4, <1>5, <1>6

LEMMA GoIdleKeeps ==
  ASSUME PeerInv, GoIdle
  PROVE  PeerInv'
<1> DEFINE c == CloseSocket(peer)
           d == DropTiming(c)
           e == [d EXCEPT !.wasInactive = TRUE, !.reach = 0]
<1>1. IsPeer(c) /\ Keeps(peer, c, PeerFields \ {"fd"})
  BY CloseSocketKeeps DEF PeerInv
<1>2. /\ IsPeer(d) /\ Keeps(c, d, PeerFields \ {"filter", "samples", "haveOffset"})
      /\ d.filter = <<>> /\ d.haveOffset = FALSE /\ d.samples = 0
  BY <1>1, DropTimingKeeps
<1>3. /\ pc' = "idle" /\ UNCHANGED unhanded
      /\ (peer' = peer /\ earned' = earned) \/ (peer' = e /\ earned' = 0)
  BY DEF GoIdle
<1> HIDE DEF c, d
<1>4. IsPeer(e) /\ Keeps(d, e, PeerFields \ {"wasInactive", "reach"})
  BY <1>2 DEF IsPeer, PeerFields, Keeps
<1> HIDE DEF e
<1>5. /\ e.filter = <<>> /\ e.haveOffset = FALSE /\ e.samples = 0 /\ e.spikeRun = peer.spikeRun
      /\ e.backoff = peer.backoff /\ e.burstLeft = peer.burstLeft
  BY <1>1, <1>2, <1>4 DEF Keeps, PeerFields
<1>6. Counted(e) /\ Measured(e) /\ RunCounted(e, unhanded) /\ Earned(e, 0)
  BY <1>5 DEF PeerInv, Counted, Measured, RunCounted, Earned
<1>7. CASE peer' = peer /\ earned' = earned
  BY <1>3, <1>7 DEF PeerInv, SpikeRunLimit, IsPeer, PeerFields, Counted, Measured, Earned, RunCounted
<1>8. CASE peer' = e /\ earned' = 0
  BY <1>3, <1>4, <1>6, <1>8
  DEF PeerInv, SpikeRunLimit, IsPeer, PeerFields, Counted, Measured, Earned, RunCounted
<1> QED BY <1>3, <1>7, <1>8

LEMMA LeaveKeeps ==
  ASSUME PeerInv, Leave
  PROVE  PeerInv'
<1> DEFINE c == CloseSocket(peer)
<1>1. IsPeer(c) /\ Keeps(peer, c, PeerFields \ {"fd"})
  BY CloseSocketKeeps DEF PeerInv
<1>2. peer' = c /\ pc' = "done" /\ UNCHANGED <<unhanded, earned>>
  BY DEF Leave
<1> HIDE DEF c
<1>3. Counted(c) /\ Measured(c) /\ RunCounted(c, unhanded) /\ Earned(c, earned)
  BY <1>1 DEF PeerInv, Keeps, PeerFields, Counted, Measured, RunCounted, Earned
<1> QED
  BY <1>1, <1>2, <1>3 DEF PeerInv, SpikeRunLimit, IsPeer, PeerFields, Counted, Measured, Earned, RunCounted

\* A step that leaves the thread's record alone and sends nothing.
LEMMA StandsKeeps ==
  ASSUME PeerInv, UNCHANGED <<peer, unhanded, earned>>, pc' = pc \/ pc' = "top"
  PROVE  PeerInv'
BY DEF PeerInv, SpikeRunLimit, IsPeer, PeerFields, Counted, Measured, Earned, RunCounted

\* One step, of any actor.
LEMMA PeerStep == PeerInv /\ [Next]_vars => PeerInv'
<1> SUFFICES ASSUME PeerInv, [Next]_vars PROVE PeerInv'
  OBVIOUS
<1>1. CASE Leave BY <1>1, LeaveKeeps
<1>2. CASE GoIdle BY <1>2, GoIdleKeeps
<1>3. CASE Poll BY <1>3, PollKeeps
<1>4. CASE Receive BY <1>4, ReceiveKeeps
<1>5. CASE Timeout BY <1>5, TimeoutKeeps
<1>6. CASE RecvError BY <1>6, RecvErrorKeeps
<1>7. CASE Wake BY <1>7, StandsKeeps DEF Wake
<1>8. CASE RequestReacquire BY <1>8, StandsKeeps DEF RequestReacquire
<1>9. CASE SetActive BY <1>9, StandsKeeps DEF SetActive
<1>10. CASE Stop BY <1>10, StandsKeeps DEF Stop
<1>11. CASE UNCHANGED vars BY <1>11, StandsKeeps DEF vars
<1> QED
  BY <1>1, <1>2, <1>3, <1>4, <1>5, <1>6, <1>7, <1>8, <1>9, <1>10, <1>11 DEF Next, Thread, Turn

LEMMA PeerHolds == Spec => []PeerInv
BY PeerStarts, PeerStep, PTL DEF Spec

-----------------------------------------------------------------------------
(* From when the thread stands down or starts over, the peer is ready only *)
(* after MinSamples replies, each the answer to the request in flight      *)
(* (pollOnce's nonce, dropTiming in run): for every size of the estimator  *)
(* and of the register, in whatever order the thread is parked, woken and  *)
(* sent back, and whatever comes off the network.  The estimator never     *)
(* holds more than was earned since, unless that is already enough.        *)
THEOREM OfferedMeasured == Spec => []OfferedIsMeasured
<1>1. PeerInv => OfferedIsMeasured
  BY NtpPeerAssumption DEF PeerInv, Measured, Earned, OfferedIsMeasured, Ready
<1> QED BY <1>1, PeerHolds, PTL

(* Of the replies accepted in a row one in kSpikeRunLimit reaches the      *)
(* estimator (filterAdd), through moves to another address, standby and    *)
(* fresh starts, which empty the register and may leave the run counting.  *)
THEOREM SpikesNeverStarve == Spec => []SpikesDoNotStarve
<1>1. PeerInv => SpikesDoNotStarve
  BY DEF PeerInv, SpikesDoNotStarve
<1> QED BY <1>1, PeerHolds, PTL

(* A server that asked for a slower poll gets it: the poll that earned the *)
(* kiss ends the burst, and until the backoff is eased away a lost or slow *)
(* reply outside a burst waits the full interval (pollLoop, pollOnce).     *)
THEOREM BackedOffWaits == Spec => NoRetryWhileBackedOff
<1>1. PeerInv /\ [Next]_vars => [pc = "sent" => WaitsItOut]_vars
  <2> SUFFICES ASSUME PeerInv, Next, pc = "sent", pc' = "wait" PROVE WaitsItOut
    BY DEF WaitsItOut
  <2>1. Receive \/ Timeout \/ RecvError
    BY DEF Next, Thread, Turn, Leave, GoIdle, Poll, Wake, RequestReacquire, SetActive, Stop
  <2> QED BY <2>1, ReceiveKeeps, TimeoutKeeps, RecvErrorKeeps
<1>2. (pc = "sent" => WaitsItOut)
      => (pc = "sent" /\ pc' = "wait" /\ peer'.backoff > 0
            /\ (peer.burstLeft = 0 \/ peer'.backoff > peer.backoff)
          => peer'.wait = peer'.backoff)
  BY DEF WaitsItOut
<1> QED BY <1>1, <1>2, PeerHolds, PTL DEF Spec, NoRetryWhileBackedOff
-----------------------------------------------------------------------------
(* Why the attempts are kept apart.  While the source is not stopped, the  *)
(* supervisor's own backoff is always as long as the wait owed after one   *)
(* more failure, unless this connection has proved itself or standby has   *)
(* wiped the slate; and in a wait, what is left of it and what was slept   *)
(* of it make up what is owed.                                             *)
LinkTypes ==
  /\ backoff \in Nat /\ BackoffMin <= backoff /\ backoff <= BackoffMax
  /\ owed \in Nat /\ owed <= BackoffMax
  /\ wait \in Nat /\ slept \in Nat /\ age \in Nat

\* When the supervisor's locals may be set.
Locals ==
  /\ wasInactive => pc \in {"idle", "top", "done"}
  /\ proven => pc \in {"stream", "teardown"} /\ sawOpen /\ age >= ProvenAfter

Escalated ==
  pc \in {"top", "handshake", "stream", "teardown", "tooOld"}
    => proven \/ backoff >= Doubled(owed)

Paid ==
  /\ pc = "top" => slept >= owed /\ (wasInactive => owed = 0)
  /\ pc = "backoff" => backoff >= owed /\ (wait + slept >= owed \/ slept >= BackoffMax)
  /\ pc = "tooOld" => wait + slept >= BackoffMax

LinkInv == LinkTypes /\ Locals /\ (running => Escalated /\ Paid)

LEMMA LinkInvInit == AttemptInit => LinkInv
  BY LinkAssumption
  DEF AttemptInit, LinkInit, LinkInv, LinkTypes, Locals, Escalated, Paid, Doubled

LEMMA LinkInvStep == LinkInv /\ [AttemptNext]_attemptVars => LinkInv'
<1> SUFFICES ASSUME LinkInv, [AttemptNext]_attemptVars PROVE LinkInv'
  OBVIOUS
<1> USE LinkAssumption DEF LinkInv, LinkTypes, Locals, Escalated, Paid, Doubled
<1>1. CASE Fails
  BY <1>1 DEF Fails, HandshakeFails
<1>2. CASE Ends
  <2> USE <1>2 DEF Ends, Teardown
  <2>1. CASE ~active
    BY <2>1
  <2>2. CASE active /\ ~running
    BY <2>2
  <2>3. CASE active /\ running /\ tooOld
    BY <2>3
  <2>4. CASE active /\ running /\ ~tooOld
    BY <2>4
  <2> QED
    BY <2>1, <2>2, <2>3, <2>4
<1>3. CASE Sleeps /\ BackoffWait
  BY <1>3 DEF Sleeps, BackoffWait
<1>4. CASE Sleeps /\ TooOldWait
  BY <1>4 DEF Sleeps, TooOldWait
<1>5. CASE Parks
  BY <1>5 DEF Parks, IdleGate
<1>6. CASE Top /\ UNCHANGED <<owed, slept>>
  BY <1>6 DEF Top
<1>7. CASE Connect /\ UNCHANGED <<owed, slept>>
  BY <1>7 DEF Connect
<1>8. CASE StreamTurn /\ UNCHANGED <<owed, slept>>
  <2> USE <1>8 DEF StreamTurn
  <2>1. pc = "stream" /\ pc' \in {"stream", "teardown"}
    OBVIOUS
  <2>2. age' \in Nat /\ age' >= age
    BY DEF Older
  <2>3. CASE running /\ active /\ opened
    <3>1. sawOpen' /\ (proven' <=> proven \/ Proves)
      BY <2>3
    <3>2. CASE Proves /\ ~proven
      <4>1. proven' /\ age' >= ProvenAfter
        BY <3>1, <3>2 DEF Proves
      <4>2. LinkTypes' /\ Locals'
        BY <2>1, <2>2, <2>3, <3>1, <3>2, <4>1
      <4>3. Escalated' /\ Paid'
        BY <2>1, <4>1
      <4> QED
        BY <4>2, <4>3
    <3>3. CASE ~Proves \/ proven
      <4>1. UNCHANGED backoff /\ (proven' <=> proven)
        BY <2>3, <3>1, <3>3
      <4>2. LinkTypes' /\ Locals'
        BY <2>1, <2>2, <3>1, <4>1
      <4>3. Escalated' /\ Paid'
        BY <2>1, <2>3, <4>1
      <4> QED
        BY <4>2, <4>3
    <3> QED
      BY <3>2, <3>3
  <2>4. CASE ~(running /\ active /\ opened)
    BY <2>1, <2>2, <2>4
  <2> QED
    BY <2>3, <2>4
<1>9. CASE (SocketThread \/ MainLoop) /\ UNCHANGED <<owed, slept>>
  BY <1>9 DEF SocketThread, MainLoop, OpenFlag, OpenState, Close, AudioFrame, OldFrame,
              SetLinkActive, RequestLinkReacquire, StopSource
<1>10. CASE UNCHANGED attemptVars
  BY <1>10 DEF attemptVars, linkVars
<1> QED
  BY <1>1, <1>2, <1>3, <1>4, <1>5, <1>6, <1>7, <1>8, <1>9, <1>10 DEF AttemptNext, Supervised, Sleeps

(* For every choice of the waits, with the long one no shorter than the    *)
(* longest backoff: however handshakes, connections and standby follow one *)
(* another, two attempts at a receiver are kept apart by the backoff their *)
(* failures have doubled.                                                  *)
THEOREM AttemptsKeptApart == AttemptSpec => AttemptsSpaced
<1>1. LinkInv /\ [AttemptNext]_attemptVars => [Spaced]_attemptVars
  <2> SUFFICES ASSUME LinkInv, AttemptNext, pc = "top", pc' = "handshake" PROVE slept >= owed
    BY DEF Spaced
  <2>1. Top
    BY DEF AttemptNext, Supervised, Fails, Ends, Sleeps, Parks, HandshakeFails, Teardown,
           BackoffWait, TooOldWait, IdleGate, Connect, StreamTurn, SocketThread, MainLoop,
           OpenFlag, OpenState, Close, AudioFrame, OldFrame, SetLinkActive,
           RequestLinkReacquire, StopSource
  <2> QED
    BY <2>1 DEF Top, LinkInv, Paid
<1> QED
  BY <1>1, LinkInvInit, LinkInvStep, PTL DEF AttemptSpec, AttemptsSpaced
=============================================================================
