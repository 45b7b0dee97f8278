------------------------------ MODULE NtpServer -----------------------------
(***************************************************************************)
(* The NTP service (src/src/NtpServer.cpp): one thread per listening       *)
(* address, sharing the limiter, the tally and the counters, each under a  *)
(* lock of its own, while the main thread publishes a new combined time    *)
(* and finally stops them.                                                 *)
(*                                                                         *)
(* A step ends where a lock is given back or the clock is read.  A request *)
(* is its sender and whether it is one for the time at all.  A reply is    *)
(* what it claims: leap indicator, stratum and reference.                  *)
(***************************************************************************)
EXTENDS RateLimiter, ClientTally

CONSTANTS
  Listeners,                 \* the sockets bound
  AnswerWhenUnsynchronised,  \* answer_when_unsynchronised
  HonourLeapWarning,         \* honour_leap_warning
  Combinations,              \* what the Selector may publish
  MaxRequests                \* bound of the model

ASSUME NtpServerAssumption ==
  /\ Callers = Clients /\ AnswerWhenUnsynchronised \in BOOLEAN
  /\ HonourLeapWarning \in BOOLEAN /\ MaxRequests \in Nat
  /\ IsFiniteSet(Listeners)

VARIABLES
  running,  \* m_running
  current,  \* what m_selector.current() gives
  srv,      \* where each thread is, and the request it has in hand; seen is a history
            \* of what was current while it had it
  counts,   \* m_stats
  ring,     \* m_minutes and m_minute
  replies,  \* history: the replies that claim nothing of what was seen
  unsent,   \* history: kisses that could not be sent
  counted   \* history: what was counted in each minute

serverVars == <<running, current, srv, counts, ring>>
serverHistory == <<counted, replies, unsent>>
serverSpecVars == <<now, limiterVars, limiterHistory, tally, tallySwept, truth, serverVars, serverHistory>>

Fields == {"requests", "answered", "ignored", "rateLimited", "kodSent", "unsynchronised", "sendErrors"}
Zero == [f \in Fields |-> 0]

NoRequest == [at |-> "top"]

Never == [valid |-> FALSE, synchronised |-> FALSE, stratum |-> 0, address |-> FALSE, leap |-> FALSE]

ServerInit ==
  /\ now = 0 /\ LimiterInit /\ TallyInit
  /\ running = TRUE /\ current = Never
  /\ srv = [l \in Listeners |-> NoRequest]
  /\ counts = Zero /\ ring = [minute |-> 0, at |-> [i \in 0..Minutes - 1 |-> Zero]]
  /\ replies = {} /\ unsent = 0 /\ counted = [m \in 0..MinuteOf(MaxNow) |-> Zero]
-----------------------------------------------------------------------------
\* A slip: a minute nobody asked in keeps the counts of an hour ago.
AdvanceOneMinute(r, m) ==
  IF m <= r.minute THEN r ELSE [minute |-> m, at |-> [r.at EXCEPT ![m % Minutes] = Zero]]

\* Move the counters of the past hour on to minute m.
AdvanceMinutes(r, m) ==
  IF m <= r.minute THEN r
  ELSE LET gap == Smaller(m - r.minute, Minutes)
           skipped == {(r.minute + k) % Minutes : k \in 1..gap}
       IN [minute |-> m, at |-> [i \in 0..Minutes - 1 |-> IF i \in skipped THEN Zero ELSE r.at[i]]]

\* count(): bump the counters F, since the start and in this minute.
Count(F) ==
  LET r == AdvanceMinutes(ring, MinuteOf(now))
      Bump(x) == [f \in Fields |-> IF f \in F THEN x[f] + 1 ELSE x[f]]
  IN /\ counts' = Bump(counts)
     /\ ring' = [r EXCEPT !.at[r.minute % Minutes] = Bump(@)]
     /\ counted' = [counted EXCEPT ![MinuteOf(now)] = Bump(@)]

\* stats(): what the status page is told of the past hour.
PastHourStats(f) ==
  LET r == AdvanceMinutes(ring, MinuteOf(now))
  IN SumFunction([i \in 0..Minutes - 1 |-> r.at[i][f]])

\* What a reply made from the combined time c claims.
Reply(c, lastDay) ==
  [leap |-> CASE ~c.synchronised -> 3
              [] c.synchronised /\ c.leap /\ HonourLeapWarning /\ lastDay -> 1
              [] OTHER -> 0,
   stratum |-> CASE ~c.synchronised -> 0
                 [] c.synchronised /\ c.stratum > 0 -> c.stratum
                 [] OTHER -> 1,
   refid |-> CASE ~c.valid -> "INIT" [] c.valid /\ c.address -> "address" [] OTHER -> "station"]

At(l, where) == srv[l].at = where
InHand == {l \in Listeners : srv[l].at \notin {"top", "poll", "done"}}
Goes(l, where) == srv' = [srv EXCEPT ![l].at = where]
\* Back to the top of the loop; what was kept of the request is gone.
Finished(l) == srv' = [srv EXCEPT ![l] = NoRequest]

shared == <<running, current>>
services == <<now, limiterVars, limiterHistory, tally, tallySwept, truth>>
-----------------------------------------------------------------------------
(* A listening thread.                                                     *)

Leave(l) ==
  /\ At(l, "top") /\ ~running /\ Goes(l, "done")
  /\ UNCHANGED <<services, shared, counts, ring, serverHistory>>

Poll(l) ==
  /\ At(l, "top") /\ running /\ Goes(l, "poll")
  /\ UNCHANGED <<services, shared, counts, ring, serverHistory>>

\* A slip: poll() waits for a packet for ever.
PollForEver(l) ==
  /\ At(l, "poll") /\ FALSE /\ Goes(l, "top")
  /\ UNCHANGED <<services, shared, counts, ring, serverHistory>>

\* Nothing for half a second, or an error.
PollTimeout(l) ==
  /\ At(l, "poll") /\ Goes(l, "top")
  /\ UNCHANGED <<services, shared, counts, ring, serverHistory>>

\* A packet is taken, and counted whatever it is.
Receive(l) ==
  /\ At(l, "poll") /\ counts["requests"] < MaxRequests
  /\ \E c \in Clients, proper \in BOOLEAN :
       srv' = [srv EXCEPT ![l] = [at |-> "received", client |-> c, proper |-> proper,
                                  t |-> 0, verdict |-> "none", c |-> Never, seen |-> {current}]]
  /\ Count({"requests"})
  /\ UNCHANGED <<services, shared, replies, unsent>>

\* Too short, or not a client's request of a known version.
Ignore(l) ==
  /\ At(l, "received") /\ ~srv[l].proper
  /\ Count({"ignored"}) /\ Finished(l)
  /\ UNCHANGED <<services, shared, replies, unsent>>

\* A slip: the request goes on with no time of its own.
Unstamped(l) ==
  /\ At(l, "received") /\ srv[l].proper
  /\ srv' = [srv EXCEPT ![l].at = "stamped"]
  /\ UNCHANGED <<services, shared, counts, ring, serverHistory>>

ReadClock(l) ==
  /\ At(l, "received") /\ srv[l].proper
  /\ srv' = [srv EXCEPT ![l].at = "stamped", ![l].t = now]
  /\ UNCHANGED <<services, shared, counts, ring, serverHistory>>

Limit(l) ==
  /\ At(l, "stamped")
  /\ \E v \in Verdicts :
       /\ Check(srv[l].client, srv[l].t, v)
       /\ srv' = [srv EXCEPT ![l].at = "limited", ![l].verdict = v]
  /\ UNCHANGED <<now, tally, tallySwept, truth, shared, counts, ring, serverHistory>>

TallyUp(l) ==
  /\ At(l, "limited") /\ Record(srv[l].client, srv[l].t)
  /\ Goes(l, CASE srv[l].verdict = "drop" -> "drop" [] srv[l].verdict = "kod" -> "kod" [] OTHER -> "answer")
  /\ UNCHANGED <<now, limiterVars, limiterHistory, shared, counts, ring, serverHistory>>

Drop(l) ==
  /\ At(l, "drop")
  /\ Count({"rateLimited"}) /\ Finished(l)
  /\ UNCHANGED <<services, shared, replies, unsent>>

\* The kiss is sent and counted; an error is counted first, by itself.
SendKiss(l) ==
  /\ At(l, "kod")
  /\ \/ Count({"rateLimited", "kodSent"}) /\ Finished(l) /\ UNCHANGED unsent
     \/ Count({"sendErrors"}) /\ Goes(l, "unkissed") /\ unsent' = unsent + 1
  /\ UNCHANGED <<services, shared, replies>>

CountUnkissed(l) ==
  /\ At(l, "unkissed")
  /\ Count({"rateLimited"}) /\ Finished(l)
  /\ UNCHANGED <<services, shared, replies, unsent>>

\* A slip: the thread keeps the combined time it had when it started.
CurrentAtStart(l) == Never

\* The combined time the reply is made of, read under the Selector's lock.
CurrentFor(l) == current

ReadCurrent(l) ==
  /\ At(l, "answer")
  /\ srv' = [srv EXCEPT ![l].at = IF ~CurrentFor(l).synchronised /\ ~AnswerWhenUnsynchronised
                                  THEN "refuse" ELSE "reply",
                        ![l].c = CurrentFor(l)]
  /\ UNCHANGED <<services, shared, counts, ring, serverHistory>>

Refuse(l) ==
  /\ At(l, "refuse")
  /\ Count({"ignored"}) /\ Finished(l)
  /\ UNCHANGED <<services, shared, replies, unsent>>

\* A slip: a reply that could not be sent is counted as neither.
SendUncounted(l) ==
  /\ At(l, "reply")
  /\ \/ Count({"answered"} \union IF srv[l].c.synchronised THEN {} ELSE {"unsynchronised"})
     \/ UNCHANGED <<counts, ring, counted>>
  /\ Finished(l)
  /\ UNCHANGED <<services, shared, replies, unsent>>

\* The reply is sent and counted, as answered or as an error.
Send(l) ==
  /\ At(l, "reply")
  /\ \/ Count({"answered"} \union IF srv[l].c.synchronised THEN {} ELSE {"unsynchronised"})
     \/ Count({"sendErrors"})
  /\ \E lastDay \in BOOLEAN :
       replies' = IF \E c \in srv[l].seen : Reply(srv[l].c, lastDay) = Reply(c, lastDay)
                  THEN replies ELSE replies \union {Reply(srv[l].c, lastDay)}
  /\ Finished(l)
  /\ UNCHANGED <<services, shared, unsent>>

Serve(l) ==
  \/ Leave(l) \/ Poll(l) \/ PollTimeout(l) \/ Receive(l) \/ Ignore(l) \/ ReadClock(l) \/ Limit(l)
  \/ TallyUp(l) \/ Drop(l) \/ SendKiss(l) \/ CountUnkissed(l) \/ ReadCurrent(l) \/ Refuse(l) \/ Send(l)

(* The main thread.                                                        *)
Publish ==
  /\ running /\ current' \in Combinations \ {current}
  /\ srv' = [l \in Listeners |-> IF l \in InHand THEN [srv[l] EXCEPT !.seen = @ \union {current'}]
                                 ELSE srv[l]]
  /\ UNCHANGED <<services, running, counts, ring, serverHistory>>

Stop ==
  /\ running /\ running' = FALSE
  /\ UNCHANGED <<services, current, srv, counts, ring, serverHistory>>

\* A thread is not held up for more than MaxSkew between the clock and the lock.
Wait ==
  /\ AdvanceClock
  /\ \A l \in Listeners : srv[l].at \in {"stamped", "limited"} => now - srv[l].t < MaxSkew
  /\ UNCHANGED <<limiterVars, limiterHistory, tally, tallySwept, truth, serverVars, serverHistory>>

ServerNext == (\E l \in Listeners : Serve(l)) \/ Publish \/ Stop \/ Wait

(* The threads run, and poll() returns within half a second.               *)
ServerSpec == ServerInit /\ [][ServerNext]_serverSpecVars /\ \A l \in Listeners : WF_serverSpecVars(Serve(l))
-----------------------------------------------------------------------------
ServerTypeOK ==
  /\ running \in BOOLEAN /\ current \in Combinations \union {Never}
  /\ \A f \in Fields : counts[f] \in 0..MaxRequests
  /\ ring.minute <= MinuteOf(now) /\ LimiterTypeOK /\ TallyTypeOK

\* Every request taken is, in the end, counted under exactly one of answered,
\* ignored, rate-limited or send error, and a failed kiss is the only one
\* counted under two.
Accounted ==
  LET settled == counts["answered"] + counts["ignored"] + counts["rateLimited"] + counts["sendErrors"]
  IN counts["requests"] - Cardinality(InHand) = settled - unsent

\* The minute of the past hour that is kept in slot i, and what was counted in it.
MinuteIn(i) == CHOOSE k \in MinuteOf(now) - Minutes + 1 .. MinuteOf(now) : k % Minutes = i
CountedIn(k, f) == IF k < 0 THEN 0 ELSE counted[k][f]

\* Every figure shown for the past hour is that of the last Minutes minutes,
\* however many of them passed without a request.
PastHourExact ==
  \A f \in Fields :
    PastHourStats(f) = SumFunction([i \in 0..Minutes - 1 |-> CountedIn(MinuteIn(i), f)])

\* A reply claims what the Selector published at some time while the request
\* was in the server, never what it said before.
ReplyIsCurrent == replies = {}

(* The status page is right (NtpServer::stats, ClientTally::top): every    *)
(* request is counted once, under what became of it; the figures of the    *)
(* past hour, and of each of its busiest clients, are those of the past    *)
(* hour, in the first one too and however long nobody asked; and a reply   *)
(* never claims what the Selector said before the request came.            *)
CountsAreExact == Accounted /\ PastHourExact /\ TopIsExact /\ ReplyIsCurrent
=============================================================================
