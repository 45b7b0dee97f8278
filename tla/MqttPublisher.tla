---------------------------- MODULE MqttPublisher ---------------------------
(***************************************************************************)
(* Mqtt.cpp over the event log of Events.cpp: one thread that wakes every  *)
(* second, asks a receiver it has lost whether it is back, and publishes   *)
(* the events, the summary and the sources within the receiver's limits.   *)
(* The log keeps the newest Capacity events, numbered without a gap, so an *)
(* event is its number and a list of fresh ones is a range of them.        *)
(*                                                                         *)
(* Instants of the code are kept as what is left until them, or since.     *)
(* A request takes no time; HoldFor is longer than one pass.               *)
(***************************************************************************)
EXTENDS Naturals, Sequences

CONSTANTS
  Capacity,      \* EventLog::kCapacity
  TokenCap,      \* events a full bucket lets through
  TokenCost,     \* ticks a token takes to come back
  HoldFor,       \* kHoldSec
  ProbeEvery,    \* kProbeEverySec
  SummaryEvery,  \* kSummaryEverySec
  SummaryGap,    \* kSummaryMinGapSec
  SourcesEvery,  \* sourceInterval
  MaxEvents,     \* bound on the events recorded
  MaxRepeats     \* bound on the events sent again because the answer was not heard

ASSUME MqttAssumption ==
  /\ {Capacity, TokenCap, TokenCost} \subseteq Nat \ {0}
  /\ {HoldFor, ProbeEvery, SummaryEvery, SummaryGap, SourcesEvery, MaxEvents, MaxRepeats}
       \subseteq Nat

VARIABLES
  nextId,     \* EventLog::m_nextId
  step,       \* where the thread is in run()
  running, available,  \* m_running, m_available
  probeIn, holdIn, summaryIn, sourcesIn,  \* until m_nextProbe, m_holdUntil, ...
  summaryAge, \* since m_lastSummary
  tokens,     \* m_eventTokens, in parts of TokenCost to an event
  slept,      \* since m_eventRefillAt
  lastId,     \* m_lastEventId
  newest,     \* the newest of the fresh events of this pass
  sentOne,    \* sent
  eventsLost, \* m_eventsLost
  taken,      \* external: the events the receiver has taken, in order
  turned,     \* external: the events it has answered it will not have
  well        \* external: the receiver answers, and is able to pass things on

mqttVars ==
  <<nextId, step, running, available, probeIn, holdIn, summaryIn, sourcesIn, summaryAge, tokens,
    slept, lastId, newest, sentOne, eventsLost, taken, turned, well>>
timers == <<probeIn, holdIn, summaryIn, sourcesIn, summaryAge>>
cursor == <<lastId, eventsLost, taken, turned>>

FullBucket == TokenCap * TokenCost
Lesser(a, b) == IF a < b THEN a ELSE b
Less(a, d) == IF a > d THEN a - d ELSE 0

MqttInit ==
  /\ nextId = 1 /\ step = "wake" /\ running = TRUE /\ available = FALSE
  /\ probeIn = 0 /\ holdIn = 0 /\ summaryIn = 0 /\ sourcesIn = 0 /\ summaryAge = SummaryGap
  /\ tokens = 0 /\ slept = 0 /\ lastId = 0 /\ newest = 0 /\ sentOne = FALSE
  /\ eventsLost = 0 /\ taken = <<>> /\ turned = {} /\ well = FALSE

\* EventLog::add, from the main loop.
RecordEvent ==
  /\ nextId <= MaxEvents /\ nextId' = nextId + 1
  /\ UNCHANGED <<step, running, available, timers, tokens, slept, cursor, newest, sentOne, well>>

Oldest == IF nextId > Capacity THEN nextId - Capacity ELSE 1

\* External: the receiver, or the way to it.
ReceiverTurns ==
  /\ well' = ~well
  /\ UNCHANGED <<nextId, step, running, available, timers, tokens, slept, cursor, newest, sentOne>>

StopMqtt ==
  /\ running /\ running' = FALSE
  /\ UNCHANGED <<nextId, step, available, timers, tokens, slept, cursor, newest, sentOne, well>>
-----------------------------------------------------------------------------
Open == available /\ holdIn = 0

(* What a request may come to: 503 and 429 are one answer here, and so are *)
(* the refusals other than 403.  A transfer is cut short by stop().        *)
Answers ==
  IF ~running THEN {"none"}
  ELSE IF well THEN {"ok"} ELSE {"ok", "unheard", "none", "busy", "forbidden", "refused"}

Unavailable == available' = FALSE /\ probeIn' = ProbeEvery

(* publish(): what an answer does to the state of the link; `after` is     *)
(* what the caller does on Ok and Refused.                                 *)
Publish(a) ==
  CASE a \in {"none", "unheard", "forbidden"} -> Unavailable /\ UNCHANGED holdIn
    [] a = "busy" -> holdIn' = HoldFor /\ UNCHANGED <<available, probeIn>>
    [] OTHER -> UNCHANGED <<available, probeIn, holdIn>>
Done(a) == a \in {"ok", "forbidden", "refused"}

\* run(), first part: ask a receiver that was lost, and start over with one that is back.
Probe ==
  /\ step = "wake" /\ running /\ step' = "events"
  /\ IF available \/ probeIn > 0
     THEN UNCHANGED <<available, timers, tokens, slept>>
     ELSE \E a \in Answers, declared \in IF running /\ well THEN {TRUE} ELSE BOOLEAN :
            IF a = "ok"
            THEN /\ available' = declared
                 /\ probeIn' = ProbeEvery
                 /\ summaryIn' = 0 /\ sourcesIn' = 0 /\ tokens' = FullBucket /\ slept' = 0
                 /\ UNCHANGED <<holdIn, summaryAge>>
            ELSE /\ Unavailable
                 /\ UNCHANGED <<holdIn, summaryIn, sourcesIn, summaryAge, tokens, slept>>
  /\ UNCHANGED <<nextId, running, cursor, newest, sentOne, well>>

\* Slip: counted, but the cursor stays where it was.
CountedAgain ==
  /\ newest' = nextId - 1
  /\ eventsLost' = eventsLost + (IF lastId + 1 < Oldest THEN Oldest - 1 - lastId ELSE 0)
  /\ UNCHANGED lastId

\* Events the log has overwritten since are given up and counted; the rest are fresh.
FreshEvents ==
  /\ newest' = nextId - 1
  /\ IF lastId + 1 < Oldest
     THEN lastId' = Oldest - 1 /\ eventsLost' = eventsLost + (Oldest - 1 - lastId)
     ELSE UNCHANGED <<lastId, eventsLost>>

\* Slip: the bucket is filled when the receiver is found, and not after.
NotRefilled == tokens
Refilled == Lesser(FullBucket, tokens + slept)

BeginEvents ==
  /\ step = "events"
  /\ IF Open
     THEN /\ step' = "send" /\ sentOne' = FALSE
          /\ tokens' = Refilled /\ slept' = 0
          /\ FreshEvents
     ELSE /\ step' = "summary" /\ UNCHANGED <<tokens, slept, newest, lastId, eventsLost, sentOne>>
  /\ UNCHANGED <<nextId, running, available, timers, taken, turned, well>>

SendEvent(a) ==
  /\ step = "send" /\ lastId < newest /\ tokens >= TokenCost
  /\ a = "unheard" => Len(taken) < lastId + MaxRepeats
  /\ tokens' = tokens - TokenCost
  /\ Publish(a)
  /\ taken' = IF a \in {"ok", "unheard"} THEN Append(taken, lastId + 1) ELSE taken
  /\ turned' = IF a \in {"forbidden", "refused"} THEN turned \union {lastId + 1} ELSE turned
  /\ IF Done(a)
     THEN lastId' = lastId + 1 /\ sentOne' = TRUE /\ UNCHANGED step
     ELSE step' = "sent" /\ UNCHANGED <<lastId, sentOne>>
  /\ UNCHANGED <<nextId, running, summaryIn, sourcesIn, summaryAge, slept, newest, eventsLost,
                 well>>

EndEvents ==
  /\ step = "sent" \/ (step = "send" /\ (lastId >= newest \/ tokens < TokenCost))
  /\ step' = "summary"
  /\ summaryIn' = IF sentOne THEN Lesser(summaryIn, Less(SummaryGap, summaryAge)) ELSE summaryIn
  /\ sentOne' = FALSE
  /\ UNCHANGED <<nextId, running, available, probeIn, holdIn, sourcesIn, summaryAge, tokens, slept,
                 cursor, newest, well>>

\* The summary, and with it the sources when they are due.
PublishSummary ==
  /\ step = "summary"
  /\ IF ~Open \/ summaryIn > 0
     THEN step' = "sleep" /\ UNCHANGED <<available, timers>>
     ELSE \E a \in Answers :
            /\ Publish(a)
            /\ step' = IF available' /\ holdIn' = 0 /\ sourcesIn = 0 THEN "sources" ELSE "sleep"
            /\ summaryIn' = IF Done(a) THEN SummaryEvery ELSE summaryIn
            /\ summaryAge' = IF Done(a) THEN 0 ELSE summaryAge
            /\ UNCHANGED sourcesIn
  /\ UNCHANGED <<nextId, running, tokens, slept, cursor, newest, sentOne, well>>

PublishSources ==
  /\ step = "sources" /\ step' = "sleep"
  /\ \E a \in Answers :
       /\ Publish(a)
       /\ sourcesIn' = IF Done(a) THEN SourcesEvery ELSE sourcesIn
  /\ UNCHANGED <<nextId, running, summaryIn, summaryAge, tokens, slept, cursor, newest, sentOne,
                 well>>

\* A second, or less when stopped.
Rest ==
  /\ step = "sleep" /\ step' = "wake"
  /\ probeIn' = Less(probeIn, 1) /\ holdIn' = Less(holdIn, 1)
  /\ summaryIn' = Less(summaryIn, 1) /\ sourcesIn' = Less(sourcesIn, 1)
  /\ summaryAge' = Lesser(summaryAge + 1, SummaryGap)
  /\ slept' = Lesser(slept + 1, FullBucket)
  /\ UNCHANGED <<nextId, running, available, tokens, cursor, newest, sentOne, well>>

EndMqtt ==
  /\ step = "wake" /\ ~running /\ step' = "ended"
  /\ UNCHANGED <<nextId, running, available, timers, tokens, slept, cursor, newest, sentOne, well>>

PublisherStep ==
  \/ Probe \/ BeginEvents \/ (\E a \in Answers : SendEvent(a)) \/ EndEvents
  \/ PublishSummary \/ PublishSources \/ Rest \/ EndMqtt

MqttNext == RecordEvent \/ ReceiverTurns \/ StopMqtt \/ PublisherStep

MqttSpec == MqttInit /\ [][MqttNext]_mqttVars /\ WF_mqttVars(PublisherStep)

\* The queue this is one of.
Queue == INSTANCE EventQueue
  WITH recorded <- nextId - 1, settled <- lastId, lost <- eventsLost, seen <- taken
-----------------------------------------------------------------------------
(* "Every event, once, in order [...] The only ones that can be lost are   *)
(* those the event log itself overwrote first [...] and they are counted"  *)
(* (Mqtt.cpp, publishEvents): the log and its reader are the queue they    *)
(* are described as.                                                       *)
PublishesAsQueue == Queue!QueueSpec

(* What they are: that queue, but for the events the receiver answered it  *)
(* will not have (publish(), Result::Refused).  However receiver, budget,  *)
(* holds and the overwriting of the log fall together, events go out in    *)
(* order, none is passed over that was not refused by name or overwritten  *)
(* first, and what was overwritten is counted.                             *)
PublishesButRefused == Queue!RefusingSpec

(* Every event goes out in the end, however far behind the publisher has   *)
(* fallen and whatever the receiver did before, once it stays well.        *)
EventsGoOut ==
  <>[](well /\ running) => \A k \in 1..MaxEvents : nextId > k ~> lastId >= k
=============================================================================
