----------------------------- MODULE MCNtpServer ----------------------------
(***************************************************************************)
(* The NTP service in five parts: the limiter by itself, with room for one *)
(* bucket and with room for two; the tally by itself; two listeners with   *)
(* requests in hand and a Selector that publishes; and the same being      *)
(* stopped.                                                                *)
(***************************************************************************)
EXTENDS NtpServer

CONSTANTS
  c1, c2,      \* clients
  RoomyNow,    \* bound on the clock of the limiter with room,
  TallyNow,    \*   of the tally,
  ServiceNow,  \*   of the service
  StopNow      \*   and of the service that is stopped

VARIABLE part  \* the part a behaviour is about

vars == <<part, serverSpecVars>>

\* On an upstream with a leap second announced, and past the coast limit.
Published ==
  {[valid |-> TRUE, synchronised |-> TRUE, stratum |-> 3, address |-> TRUE, leap |-> TRUE],
   [valid |-> TRUE, synchronised |-> FALSE, stratum |-> 1, address |-> FALSE, leap |-> FALSE]}

\* Room for both clients, so that one that is forgotten may be back at once.
Roomy ==
  INSTANCE RateLimiter WITH MaxBuckets <- 2, Kod <- FALSE, Leak <- FALSE, MaxNow <- RoomyNow

\* Two callers, room for one.
Tally == INSTANCE ClientTally WITH MaxNow <- TallyNow

\* One client, without a burst: its second request is over the limit.
Served ==
  INSTANCE NtpServer
    WITH Clients <- {c1}, Callers <- {c1}, Burst <- 1, Leak <- FALSE, SweepEvery <- 4,
         MaxNow <- ServiceNow

\* No kisses, and no answers while unsynchronised.
Stopped ==
  INSTANCE NtpServer
    WITH Clients <- {c1}, Callers <- {c1}, Burst <- 1, Leak <- FALSE, SweepEvery <- 4,
         MaxNow <- StopNow, Kod <- FALSE, AnswerWhenUnsynchronised <- FALSE

Idle == running = FALSE /\ current = Never /\ srv = [l \in Listeners |-> NoRequest] /\ counts = Zero
        /\ ring = [minute |-> 0, at |-> [i \in 0..Minutes - 1 |-> Zero]]
        /\ replies = {} /\ unsent = 0 /\ counted = [m \in 0..MinuteOf(MaxNow) |-> Zero]

Init ==
  \/ part = "service" /\ Served!ServerInit
  \/ part = "stop" /\ Stopped!ServerInit
  \/ part \in {"limiter", "roomy"} /\ LimiterStart /\ TallyInit /\ Idle
  \/ part = "tally" /\ Tally!TallyStart /\ LimiterInit /\ Idle

others == <<part, serverVars, serverHistory>>

Service == part = "service" /\ Served!ServerNext /\ UNCHANGED part
StopService == part = "stop" /\ Stopped!ServerNext /\ UNCHANGED part
Limited == part = "limiter" /\ LimiterNext /\ UNCHANGED <<others, tallyVars, truth>>
LimitedWithRoom == part = "roomy" /\ Roomy!LimiterNext /\ UNCHANGED <<others, tallyVars, truth>>
Tallied == part = "tally" /\ Tally!TallyNext /\ UNCHANGED <<others, limiterVars, limiterHistory>>

(* The threads run, and poll() returns within half a second.               *)
Spec ==
  /\ Init /\ [][Service \/ StopService \/ Limited \/ LimitedWithRoom \/ Tallied]_vars
  /\ \A l \in Listeners : WF_vars(part = "stop" /\ Stopped!Serve(l) /\ UNCHANGED part)
-----------------------------------------------------------------------------
(* Listeners share one limiter and one tally: each of their steps is one   *)
(* of the limiter by itself, so that what holds of it holds of the service *)
(* and a client gains nothing by asking on two addresses; and a flood of   *)
(* clients neither walks the limiter's map more than once a second nor     *)
(* pushes a busy client off the status page.                               *)
SharedFairly ==
  [][/\ part = "service" => UNCHANGED limiterSpecVars \/ Served!LimiterNext
     /\ SweepsApart
     /\ part = "tally" => Tally!BusyKept
     /\ part \in {"service", "stop"} => Served!BusyKept]_vars

(* stop() returns: every thread it joins ends, from a poll, the limiter,   *)
(* a send or a wait for a lock.                                            *)
StopsWhenAsked == part = "stop" /\ ~running ~> \A l \in Listeners : At(l, "done")
=============================================================================
