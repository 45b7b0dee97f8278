------------------------------ MODULE HttpApi -------------------------------
(***************************************************************************)
(* The threads of HttpApi.cpp: the acceptor, a detached thread for every   *)
(* connection, and stop() on the main thread.  What a connection serves is *)
(* left out, but that it uses the Selector and the status provider, which  *)
(* are gone once stop() has returned.  Descriptors are numbers the kernel  *)
(* gives out again as soon as they are closed.                             *)
(*                                                                         *)
(* Beside it, the pacing of an event stream (serveEvents): one tick at     *)
(* every corrected second.                                                 *)
(***************************************************************************)
EXTENDS Integers, FiniteSets

CONSTANTS
  Threads,         \* the connections that may come, each with its thread
  Fds,             \* descriptors
  MaxConnections,  \* kMaxConnections
  MaxStreams,      \* kMaxStreams
  SecondLen,       \* a second, in quarter milliseconds
  HoldUps,         \* how late a poll may return, and how long a tick may take to send
  Shifts,          \* what a new consensus may move the corrected time by
  StreamEnd        \* bound on the corrected time a stream is followed for

ASSUME HttpAssumption ==
  /\ IsFiniteSet(Threads) /\ Threads \intersect {"free", "other", "acceptor"} = {}
  /\ MaxConnections \in Nat /\ MaxStreams \in Nat /\ SecondLen \in Nat /\ StreamEnd \in Nat
  /\ SecondLen >= 8  \* two milliseconds
  /\ HoldUps \subseteq Nat /\ Shifts \subseteq Int

VARIABLES
  up,        \* m_running
  acceptor,  \* where the acceptor is, and the descriptor it holds
  thread,    \* where each connection's thread is, and its descriptor
  connections, streams, liveFds,  \* m_connections, m_streams, m_liveFds
  owner,     \* who has each descriptor
  broken,    \* connections whose socket was shut down
  stopper,   \* where stop() is
  stray      \* a socket that is no connection's was shut down

httpVars == <<up, acceptor, thread, connections, streams, liveFds, owner, broken, stopper, stray>>

Free  == "free"
Other == "other"  \* a socket of another part of the daemon

HttpInit ==
  /\ up = TRUE /\ acceptor = [at |-> "poll", fd |-> Free]
  /\ thread = [t \in Threads |-> [at |-> "none", fd |-> Free]]
  /\ connections = 0 /\ streams = 0 /\ liveFds = {} /\ owner = [f \in Fds |-> Free]
  /\ broken = {} /\ stopper = "idle" /\ stray = FALSE

\* A connection comes in, and is counted and known before its thread starts.
Accept ==
  /\ acceptor.at = "poll" /\ up /\ \E t \in Threads : thread[t].at = "none"
  /\ \E f \in Fds :
       /\ owner[f] = Free
       /\ owner' = [owner EXCEPT ![f] = "acceptor"]
       /\ acceptor' = [at |-> "check", fd |-> f]
  /\ UNCHANGED <<up, thread, connections, streams, liveFds, broken, stopper, stray>>

Admit ==
  /\ acceptor.at = "check"
  /\ IF connections >= MaxConnections
     THEN /\ owner' = [owner EXCEPT ![acceptor.fd] = Free]
          /\ acceptor' = [at |-> "poll", fd |-> Free]
          /\ UNCHANGED connections
     ELSE /\ connections' = connections + 1
          /\ acceptor' = [acceptor EXCEPT !.at = "insert"]
          /\ UNCHANGED owner
  /\ UNCHANGED <<up, thread, streams, liveFds, broken, stopper, stray>>

Spawn ==
  /\ acceptor.at = "insert"
  /\ LET t == CHOOSE t \in Threads : thread[t].at = "none"
     IN /\ thread' = [thread EXCEPT ![t] = [at |-> "serve", fd |-> acceptor.fd]]
        /\ owner' = [owner EXCEPT ![acceptor.fd] = t]
  /\ liveFds' = liveFds \union {acceptor.fd}
  /\ acceptor' = [at |-> "poll", fd |-> Free]
  /\ UNCHANGED <<up, connections, streams, broken, stopper, stray>>

EndAcceptor ==
  /\ acceptor.at = "poll" /\ ~up
  /\ acceptor' = [at |-> "done", fd |-> Free]
  /\ UNCHANGED <<up, thread, connections, streams, liveFds, owner, broken, stopper, stray>>
-----------------------------------------------------------------------------
Goto(t, where) == thread' = [thread EXCEPT ![t].at = where]
Idle == UNCHANGED <<up, acceptor, broken, stopper, stray>>

\* serveConnection: an answer, a refusal, a timeout or an exception; or a stream.
Answered(t) ==
  /\ thread[t].at = "serve" /\ Goto(t, "erase")
  /\ Idle /\ UNCHANGED <<connections, streams, liveFds, owner>>

\* Slip: counted in only once it is known to fit.
CheckFirst(n) == n - 1 <= MaxStreams
Fits(n) == n <= MaxStreams

\* serveEvents: the slot is claimed first and looked at after.
Claim(t) ==
  /\ thread[t].at = "serve"
  /\ streams' = streams + 1
  /\ Goto(t, IF Fits(streams + 1) THEN "stream" ELSE "release")
  /\ Idle /\ UNCHANGED <<connections, liveFds, owner>>

\* The client goes, a write fails, the socket was shut down, or m_running is false.
EndStream(t) ==
  /\ thread[t].at = "stream" /\ Goto(t, "release")
  /\ Idle /\ UNCHANGED <<connections, streams, liveFds, owner>>

Release(t) ==
  /\ thread[t].at = "release" /\ Goto(t, "erase")
  /\ streams' = streams - 1
  /\ Idle /\ UNCHANGED <<connections, liveFds, owner>>

Erase(t) ==
  /\ thread[t].at = "erase" /\ Goto(t, "close")
  /\ liveFds' = liveFds \ {thread[t].fd}
  /\ Idle /\ UNCHANGED <<connections, streams, owner>>

CloseFd(t) ==
  /\ thread[t].at = "close" /\ Goto(t, "count")
  /\ owner' = [owner EXCEPT ![thread[t].fd] = Free]
  /\ Idle /\ UNCHANGED <<connections, streams, liveFds>>

CountOut(t) ==
  /\ thread[t].at = "count" /\ Goto(t, "gone")
  /\ connections' = connections - 1
  /\ Idle /\ UNCHANGED <<streams, liveFds, owner>>

Winds(t) == Release(t) \/ Erase(t) \/ CloseFd(t) \/ CountOut(t)
ThreadStep(t) == Answered(t) \/ Claim(t) \/ EndStream(t) \/ Winds(t)

\* External: the descriptors of the rest of the daemon.
OtherOpens ==
  /\ \E f \in Fds : owner[f] = Free /\ owner' = [owner EXCEPT ![f] = Other]
  /\ Cardinality({f \in Fds : owner[f] = Other}) < 1
  /\ UNCHANGED <<up, acceptor, thread, connections, streams, liveFds, broken, stopper, stray>>
-----------------------------------------------------------------------------
StopBegin ==
  /\ stopper = "idle" /\ up /\ up' = FALSE /\ stopper' = "join"
  /\ UNCHANGED <<acceptor, thread, connections, streams, liveFds, owner, broken, stray>>

\* Slip: the acceptor is left to notice by itself.
NotJoined == stopper = "join"
Joined == stopper = "join" /\ acceptor.at = "done"

\* The acceptor has ended: every connection there will be is among the live ones.
Break ==
  /\ Joined /\ stopper' = "wait"
  /\ broken' = {owner[f] : f \in liveFds} \intersect Threads
  /\ stray' = (stray \/ \E f \in liveFds : owner[f] \notin Threads)
  /\ UNCHANGED <<up, acceptor, thread, connections, streams, liveFds, owner>>

StopReturn ==
  /\ stopper = "wait" /\ connections = 0 /\ stopper' = "returned"
  /\ UNCHANGED <<up, acceptor, thread, connections, streams, liveFds, owner, broken, stray>>

\* Past the deadline the process ends, and nothing is destroyed under a thread.
StopExit ==
  /\ stopper = "wait" /\ connections > 0 /\ stopper' = "exited"
  /\ UNCHANGED <<up, acceptor, thread, connections, streams, liveFds, owner, broken, stray>>

HttpStep ==
  \/ Accept \/ Admit \/ Spawn \/ EndAcceptor
  \/ \E t \in Threads : ThreadStep(t)
  \/ StopBegin \/ Break \/ StopReturn \/ StopExit
HttpNext == stopper # "exited" /\ (HttpStep \/ OtherOpens)
-----------------------------------------------------------------------------
(* The pacing of a stream.  A second is named by its number, and begins at *)
(* that many times SecondLen.                                              *)
VARIABLES
  corrected,  \* the corrected time, Combined::utcAt(daemonNow())
  pollLeft,   \* what is left of the poll's timeout, -1 outside the poll
  ticks,      \* history: the second of the last tick, of the one before, and whether the
              \* correction stood and poll did not fail between the two
  shifted,    \* history: how far the correction has moved since the last tick, up to Steady + 1
  heldUp      \* history: the seconds after ticks.before that came up with the loop not in its poll

tickVars == <<corrected, pollLeft, ticks, shifted, heldUp>>

Milli == 4
Steady == Milli \div 2  \* half a millisecond: what is passed over is more than poll truncates

\* The second a tick at t shows: one less than a millisecond and a quarter off is there.
SecondOf(t) == (t + 5) \div SecondLen
\* The seconds that come up in a time the loop is away, or two milliseconds after it.
CameUp(from, to) ==
  {s \in 0..(to + 2 * Milli + Steady) :
     from - Steady <= s * SecondLen /\ s * SecondLen <= to + 2 * Milli + Steady}

\* A first tick is sent as the stream opens, at any moment.
TickInit ==
  /\ corrected \in 0..(SecondLen - 1) /\ pollLeft = -1 /\ shifted = 0
  /\ heldUp = CameUp(corrected, corrected)
  /\ ticks = [before |-> SecondOf(corrected) - 1, last |-> SecondOf(corrected), even |-> TRUE]

\* Slip: a boundary just ahead is waited for like any other.
ToBoundary(x) == (SecondLen - x) % SecondLen
TickWait(x) ==
  LET w == (SecondLen - x) % SecondLen IN IF w < 2 * Milli THEN w + SecondLen ELSE w

\* The top of the loop: the wait, in the whole milliseconds poll takes.
PlanTick ==
  /\ pollLeft = -1 /\ corrected < StreamEnd
  /\ pollLeft' = (TickWait(corrected % SecondLen) \div Milli) * Milli
  /\ UNCHANGED <<corrected, ticks, shifted, heldUp>>

\* A tick at `at`, after a hold-up since `from`; the send takes a while too.
SendTick(from, at, took, failed) ==
  /\ ticks' = [before |-> ticks.last, last |-> SecondOf(at), even |-> shifted <= Steady /\ ~failed]
  /\ heldUp' = {s \in heldUp : s > ticks.last} \union CameUp(from, at + took)
  /\ corrected' = at + took /\ pollLeft' = -1 /\ shifted' = 0

Waits ==
  /\ pollLeft > 0 /\ pollLeft' = pollLeft - 1 /\ corrected' = corrected + 1
  /\ UNCHANGED <<ticks, shifted, heldUp>>

\* poll times out, and may return late.
TimedOut(late, took) == pollLeft = 0 /\ SendTick(corrected, corrected + late, took, FALSE)

\* poll fails, and the loop falls through.
PollFails(took) == pollLeft >= 0 /\ SendTick(corrected, corrected, took, TRUE)

\* The client sends something: it is discarded, and the wait worked out again.
ClientSpeaks(late) ==
  /\ pollLeft >= 0 /\ pollLeft' = -1
  /\ corrected' = corrected + late
  /\ heldUp' = heldUp \union CameUp(corrected, corrected + late)
  /\ UNCHANGED <<ticks, shifted>>

\* The Selector publishes another offset, in the poll or outside it.
CorrectionMoves(by) ==
  LET total == shifted + IF by < 0 THEN -by ELSE by
  IN /\ corrected < StreamEnd /\ corrected + by >= 0
     /\ corrected' = corrected + by
     /\ shifted' = IF total > Steady THEN Steady + 1 ELSE total
     /\ UNCHANGED <<pollLeft, ticks, heldUp>>

TickNext ==
  \/ PlanTick \/ Waits
  \/ \E late, took \in HoldUps : TimedOut(late, took)
  \/ \E h \in HoldUps : PollFails(h) \/ ClientSpeaks(h)
  \/ \E by \in Shifts : CorrectionMoves(by)
-----------------------------------------------------------------------------
\* No more streams than there are slots, and every slot comes back.
SlotsHeld ==
  /\ Cardinality({t \in Threads : thread[t].at = "stream"}) <= MaxStreams
  /\ Cardinality({t \in Threads : thread[t].at \notin {"none", "gone"}}) <= MaxConnections
  /\ (\A t \in Threads : thread[t].at \in {"none", "erase", "close", "count", "gone"}) => streams = 0

(* stop() returns only when no connection's thread is left to use what is  *)
(* destroyed next, and shuts down no socket but theirs, whatever the       *)
(* acceptor was in the middle of and whichever numbers have been given out *)
(* again; and a connection that ends in any way gives its slot back.       *)
CleanStop ==
  /\ ~stray /\ SlotsHeld
  /\ stopper = "returned" => \A t \in Threads : thread[t].at \in {"none", "gone"}

(* One tick at every corrected second.  While poll works and the           *)
(* correction moves by no more than half a millisecond from one tick to    *)
(* the next, no second is ticked twice, though poll ends up to a           *)
(* millisecond early and however often the client speaks; and one is left  *)
(* out only if it came up while the loop was away from its poll, sending   *)
(* the last tick, returning late or taking what the client sent, or within *)
(* two milliseconds after that (serveEvents).                              *)
OneTickASecond ==
  ticks.even => /\ ticks.before < ticks.last
                /\ (ticks.before + 1)..(ticks.last - 1) \subseteq heldUp
=============================================================================
