------------------------------- MODULE NtpPeer ------------------------------
(***************************************************************************)
(* One upstream NTP server (src/src/NtpClient.cpp): the poll thread with   *)
(* its socket, burst, quick retries, kiss-o'-death backoff, reach register *)
(* and clock filter, and the main thread that parks it, wakes it, sends it *)
(* back and stops it.                                                      *)
(*                                                                         *)
(* What only the poll thread writes is one record, and each function of    *)
(* the code a function of it.  Intervals are in units of the configured    *)
(* poll; a burst or retry spacing is 0.  An address is a number, 0 for no  *)
(* socket.  The register holds the round trip of each reply, newest first. *)
(* The network may lose, delay, repeat or forge a packet: a packet that    *)
(* answers another request may come at any time.                           *)
(***************************************************************************)
EXTENDS SourceThread, Integers, FiniteSetsExt, SequencesExt

CONSTANTS
  BurstCount,       \* kBurstCount
  MaxQuickRetries,  \* kMaxQuickRetries
  ReresolveAfter,   \* kReresolveAfterTimeouts
  MaxBackoff,       \* kMaxBackoffPollSec
  RecoverAfter,     \* kBackoffRecoverAfter
  ReachBits,        \* the width of the reach register
  FilterSize,       \* kFilterSize
  SpikeFloor,       \* kSpikeBiasFloorSec, as a round trip
  MinSamples,       \* what the offset estimator needs before it has an estimate
  MaxSamples,       \* what it keeps
  MinAge,           \* the Selector's own staleness limit
  Addresses,        \* what the name may resolve to
  Answers           \* what the server may answer, see Handle

ASSUME NtpPeerAssumption ==
  /\ BurstCount \in Nat /\ MaxQuickRetries \in Nat /\ ReresolveAfter \in Nat \ {0}
  /\ MaxBackoff \in Nat \ {0} /\ RecoverAfter \in Nat \ {0} /\ ReachBits \in Nat \ {0}
  /\ FilterSize \in Nat \ {0} /\ SpikeFloor \in Nat /\ MinAge \in Nat
  /\ MinSamples \in Nat \ {0} /\ MaxSamples \in Nat /\ MinSamples <= MaxSamples
  /\ Addresses \subseteq Nat \ {0}
  /\ \A a \in Answers : /\ a[1] \in {"usable", "rate", "deny", "refused"}
                        /\ a[1] \in {"usable", "rate"} => a[2] \in Nat

VARIABLES
  peer,      \* the poll thread's own state and what it publishes
  unhanded,  \* history: accepted replies since the last that reached the estimator
  earned     \* history: this server's replies handed to the estimator, up to
             \* MinSamples, since the thread last took an order (stand down, start over)

vars == <<running, active, reacquire, pc, peer, unhanded, earned>>

SpikeRunLimit == MaxQuickRetries + 1
MaxAgePolls == 4

Fresh ==
  [wasInactive |-> FALSE, fd |-> 0, timeouts |-> 0, burstLeft |-> BurstCount,
   retryable |-> FALSE, quickRetries |-> 0, backoff |-> 0, goodRun |-> 0, stopped |-> FALSE,
   reach |-> 0, filter |-> <<>>, spikeRun |-> 0, samples |-> 0, haveOffset |-> FALSE,
   pollSec |-> 1, maxAge |-> MinAge, wait |-> 0]

Init ==
  /\ running = TRUE /\ active \in BOOLEAN /\ reacquire = FALSE
  /\ pc = "top" /\ peer \in {Fresh, [Fresh EXCEPT !.burstLeft = 0]}  \* iburst or not
  /\ unhanded = 0 /\ earned = 0

\* What the Selector is told.
Ready == active /\ ~peer.stopped /\ peer.reach # 0 /\ peer.haveOffset

-----------------------------------------------------------------------------
(* The functions of the poll thread.                                       *)
CloseSocket(p) == [p EXCEPT !.fd = 0]

\* A slip: the register is emptied but the estimator is not.
EstimatorKept(p) == [p EXCEPT !.filter = <<>>, !.haveOffset = FALSE]

\* Forget the register and the estimator, on both sides of the lock.
DropTiming(p) == [p EXCEPT !.filter = <<>>, !.samples = 0, !.haveOffset = FALSE]

(* Look the name up, A the answer and a the first address a socket can be  *)
(* made for.  The address in use is kept if A still has it or if the       *)
(* lookup failed; a move empties the register.                             *)
ConnectPeer(p, A, a) ==
  IF A = {} \/ p.fd \in A THEN p
  ELSE [p EXCEPT !.fd = a, !.timeouts = 0,
                 !.filter = IF p.fd # 0 THEN <<>> ELSE @,
                 !.spikeRun = IF p.fd # 0 THEN 0 ELSE @]

\* Up again from cold standby: bursting, and with the backoff forgotten.
Resume(p) ==
  IF p.wasInactive
  THEN [p EXCEPT !.wasInactive = FALSE, !.burstLeft = BurstCount, !.backoff = 0] ELSE p

\* A slip: a new socket and a burst, on top of what was measured before.
BurstOnly(p) == IF reacquire THEN [CloseSocket(p) EXCEPT !.burstLeft = BurstCount] ELSE p

\* The consensus has asked for a fresh start.
StartOver(p) ==
  IF reacquire THEN [DropTiming(CloseSocket(p)) EXCEPT !.burstLeft = BurstCount] ELSE p

\* Look again when the TTL has run out or the peer has gone quiet.
Reresolve(p, A, a, due) ==
  IF p.fd # 0 /\ (p.timeouts >= ReresolveAfter \/ due)
  THEN [ConnectPeer(p, A, a) EXCEPT !.timeouts = 0] ELSE p

\* Everything between the top of the loop and the send.
Prepare(p, A, a, due) ==
  LET q == Reresolve(StartOver(Resume(p)), A, a, due)
  IN [(IF q.fd = 0 THEN ConnectPeer(q, A, a) ELSE q) EXCEPT !.retryable = FALSE]

\* A slip: the register's best is never outvoted.
GateForEver(p, d) ==
  LET filter == SubSeq(<<d>> \o p.filter, 1,
                       Min({FilterSize, Len(p.filter) + 1}))
      best == Min(ToSet(filter))
      q == [p EXCEPT !.filter = filter]
  IN IF d - best > Max({SpikeFloor, best}) THEN [q EXCEPT !.retryable = TRUE]
     ELSE [q EXCEPT !.spikeRun = 0, !.samples = Min({@ + 1, MaxSamples})]

(* The clock filter: the smallest round trip of the register is a gate,    *)
(* widened by the spread of its lower quartile.  A slow sample is dropped  *)
(* as a spike unless it is the SpikeRunLimit-th in a row.                  *)
FilterAdd(p, d) ==
  LET filter == SubSeq(<<d>> \o p.filter, 1,
                       Min({FilterSize, Len(p.filter) + 1}))
      sorted == SortSeq(filter, LAMBDA x, y : x < y)
      best == Min(ToSet(filter))
      cleanSpread == sorted[Len(filter) \div 4 + 1] - best
      spike == /\ \A allowed \in {SpikeFloor, best, 3 * cleanSpread} : d - best > allowed
               /\ p.spikeRun + 1 < SpikeRunLimit
  IN IF spike
     THEN [p EXCEPT !.filter = filter, !.spikeRun = @ + 1, !.retryable = TRUE]
     ELSE [p EXCEPT !.filter = filter, !.spikeRun = 0, !.samples = Min({@ + 1, MaxSamples})]

\* A slip: halving stops one short of the configured interval.
EaseNever(p) ==
  CASE p.backoff = 0 -> p
    [] p.backoff > 0 /\ p.goodRun + 1 < RecoverAfter -> [p EXCEPT !.goodRun = @ + 1]
    [] OTHER -> [p EXCEPT !.goodRun = 0, !.backoff = Max({2, p.backoff \div 2})]

\* The backoff walks back down after a run of accepted replies.
Ease(p) ==
  LET eased == IF p.backoff \div 2 <= 1 THEN 0 ELSE p.backoff \div 2
  IN IF p.backoff = 0 THEN p
     ELSE IF p.goodRun + 1 < RecoverAfter THEN [p EXCEPT !.goodRun = @ + 1]
     ELSE [p EXCEPT !.goodRun = 0, !.backoff = eased]

\* A slip: the burst goes on after the kiss.
RateInBurst(p, asked) ==
  LET current == IF p.backoff > 0 THEN p.backoff ELSE 1
  IN [p EXCEPT !.goodRun = 0, !.backoff = Min({MaxBackoff, Max({2 * current, asked})})]

\* Kiss-o'-death RATE: stop bursting, and twice the interval or what was asked.
Rate(p, asked) ==
  LET current == IF p.backoff > 0 THEN p.backoff ELSE 1
  IN [p EXCEPT !.burstLeft = 0, !.goodRun = 0,
               !.backoff = Min({MaxBackoff, Max({2 * current, asked})})]

(* What an answer does: a usable one comes with its round trip, RATE with  *)
(* the interval the server asks for, DENY stops the polling, and anything  *)
(* else (another kiss, unsynchronised, a loop, too far) is refused.        *)
Handle(p, answer) ==
  CASE answer[1] = "usable" -> FilterAdd(Ease([p EXCEPT !.timeouts = 0]), answer[2])
    [] answer[1] = "rate" -> Rate(p, answer[2])
    [] answer[1] = "deny" -> [p EXCEPT !.stopped = TRUE]
    [] answer[1] = "refused" -> p

\* The snapshot follows the estimator; the staleness limit is counted in polls.
Recompute(p) ==
  [p EXCEPT !.haveOffset = p.samples >= MinSamples,
            !.maxAge = Max({MinAge, MaxAgePolls * p.pollSec})]

\* The reach register takes the outcome of the poll.
Reach(p, ok) ==
  Recompute([p EXCEPT !.reach = (2 * @ + IF ok THEN 1 ELSE 0) % 2^ReachBits])

\* How long to wait before the next poll.
Pace(p) ==
  LET interval == IF p.backoff > 0 THEN p.backoff ELSE 1
      quick == p.retryable /\ p.backoff = 0 /\ p.reach # 0 /\ p.quickRetries < MaxQuickRetries
      q == IF p.burstLeft > 0 THEN [p EXCEPT !.burstLeft = @ - 1, !.wait = 0]
           ELSE IF quick THEN [p EXCEPT !.quickRetries = @ + 1, !.wait = 0]
           ELSE [p EXCEPT !.quickRetries = 0, !.wait = interval]
  IN [q EXCEPT !.pollSec = interval]

\* The end of a poll: the thread waits, for ever less a check if it was denied.
Finish(p, ok) ==
  \E q \in {Reach(p, ok)} :
  IF q.stopped THEN peer' = q /\ pc' = "refused"
  ELSE peer' = Pace(q) /\ pc' = "wait"

-----------------------------------------------------------------------------
\* The poll thread.
Leave == pc = "top" /\ ~running /\ pc' = "done" /\ peer' = CloseSocket(peer)
         /\ UNCHANGED <<running, active, reacquire, unhanded, earned>>

GoIdle ==
  /\ pc = "top" /\ running /\ ~active
  /\ pc' = "idle"
  /\ peer' = IF peer.wasInactive THEN peer
             ELSE [DropTiming(CloseSocket(peer)) EXCEPT !.wasInactive = TRUE, !.reach = 0]
  /\ earned' = IF peer.wasInactive THEN earned ELSE 0
  /\ UNCHANGED <<running, active, reacquire, unhanded>>

\* Resolve if need be and send; no address, or an error on the send, ends the poll.
Poll ==
  /\ pc = "top" /\ running /\ active
  /\ \E A \in SUBSET Addresses, a \in Addresses, due \in BOOLEAN :
       /\ A # {} => a \in A
       /\ \E p \in {Prepare(peer, A, a, due)} :
            \/ p.fd # 0 /\ peer' = p /\ pc' = "sent"
            \/ Finish(CloseSocket(p), FALSE)
  /\ reacquire' = FALSE
  /\ earned' = IF reacquire THEN 0 ELSE earned
  /\ UNCHANGED <<running, active, unhanded>>

\* A slip: any packet of the right shape is an answer.
AnyPacket(ours) == TRUE

\* The nonce is echoed: the packet answers this request.
Matches(ours) == ours

\* A packet arrives; one that answers another request is discarded.
Receive ==
  /\ pc = "sent"
  /\ \E answer \in Answers, ours \in BOOLEAN :
       IF ~Matches(ours) THEN UNCHANGED vars
       ELSE \E p \in {Handle(peer, answer)} :
            LET ok == answer[1] = "usable" IN
            /\ Finish(p, ok)
            /\ unhanded' = IF ~ok THEN unhanded ELSE IF p.retryable THEN unhanded + 1 ELSE 0
            /\ earned' = IF ok /\ ours /\ ~p.retryable THEN Min({earned + 1, MinSamples})
                         ELSE earned
            /\ UNCHANGED <<running, active, reacquire>>

\* No answer in time; a run of these makes the name be looked up again.
Timeout ==
  /\ pc = "sent"
  /\ Finish([peer EXCEPT !.timeouts = Min({@ + 1, ReresolveAfter}), !.retryable = TRUE], FALSE)
  /\ UNCHANGED <<running, active, reacquire, unhanded, earned>>

\* An error on the socket, such as an unreachable port, closes it.
RecvError ==
  /\ pc = "sent" /\ Finish(CloseSocket(peer), FALSE)
  /\ UNCHANGED <<running, active, reacquire, unhanded, earned>>

\* A slip: a refused peer waits for a notification nobody sends.
WakeIfWelcome ==
  /\ pc \in {"wait", "idle"} /\ pc' = "top"
  /\ UNCHANGED <<running, active, reacquire, peer, unhanded, earned>>

\* A wait ends, by its time or by a notification.
Wake ==
  /\ pc \in {"wait", "idle", "refused"} /\ pc' = "top"
  /\ UNCHANGED <<running, active, reacquire, peer, unhanded, earned>>

\* The steps the thread takes by itself, one of them wherever it is.
Turn == Leave \/ GoIdle \/ Poll \/ Timeout \/ Wake

Thread == Turn \/ Receive \/ RecvError

\* The main thread.
RequestReacquire ==
  running /\ reacquire' = TRUE /\ UNCHANGED <<running, active, pc, peer, unhanded, earned>>

SetActive ==
  /\ running /\ active' = ~active
  /\ UNCHANGED <<running, reacquire, pc, peer, unhanded, earned>>

Stop ==
  running /\ running' = FALSE /\ UNCHANGED <<active, reacquire, pc, peer, unhanded, earned>>

Next == Thread \/ RequestReacquire \/ SetActive \/ Stop

(* The thread keeps running and no wait lasts for ever: each has a timeout *)
(* in the code, and a discarded packet does not extend the reply's.        *)
Spec == Init /\ [][Next]_vars /\ WF_vars(Turn)
-----------------------------------------------------------------------------
TypeOK ==
  /\ running \in BOOLEAN /\ active \in BOOLEAN /\ reacquire \in BOOLEAN
  /\ pc \in {"top", "sent", "wait", "idle", "refused", "done"}
  /\ peer.fd \in Addresses \union {0} /\ Len(peer.filter) <= FilterSize
  /\ peer.backoff \in 0..MaxBackoff /\ peer.reach \in 0..2^ReachBits - 1
  /\ peer.goodRun \in 0..RecoverAfter - 1 /\ peer.quickRetries \in 0..MaxQuickRetries

(* A path whose round trip has gone up does not starve the estimator: of   *)
(* the replies accepted in a row one in kSpikeRunLimit reaches it, so the  *)
(* Selector does not lose a peer that answers (NtpClient.cpp, filterAdd).  *)
SpikesDoNotStarve == unhanded < SpikeRunLimit

(* The Selector is offered only what this server has said, and since it    *)
(* was last brought up or sent back: from when the thread stands down or   *)
(* starts over, the peer is ready only after the estimator's minimum of    *)
(* replies, each the answer to the request then in flight.  No late,       *)
(* repeated or forged packet makes up the number, nor anything measured    *)
(* before the order, whatever else the poll does between the two           *)
(* (NtpClient.cpp, the nonce of pollOnce; dropTiming in run).  A peer      *)
(* parked and woken before its thread looks was never stood down, and one  *)
(* sent back is offered on its old estimate until the thread takes the     *)
(* order, which NothingStuck bounds.                                       *)
OfferedIsMeasured == Ready => earned >= MinSamples

(* A server that has asked for a slower poll gets it: the poll that earned *)
(* the kiss ends the burst, and until the backoff is eased away a lost or  *)
(* slow reply outside a burst waits the full interval, never a quick       *)
(* retry.                                                                  *)
NoRetryWhileBackedOff ==
  [][pc = "sent" /\ pc' = "wait" /\ peer'.backoff > 0
       /\ (peer.burstLeft = 0 \/ peer'.backoff > peer.backoff)
     => peer'.wait = peer'.backoff]_vars

\* A server that from some time on answers every poll is polled at the
\* configured interval again, however far it was backed off.
BackoffClears ==
  <>[](running /\ active /\ peer.reach % 2 = 1) => []<>(peer.backoff = 0)

\* The thread ends, from any wait, poll or refusal, and stop() joins it.
StopEnds == ~running ~> pc = "done"

\* A request to start over is acted on, unless the peer is parked or stopped.
ReacquireServed == reacquire ~> (~reacquire \/ ~active \/ ~running)

(* "Every stuck state has to be able to clear itself" (NtpClient.cpp): the *)
(* backoff clears, a request to start over is acted on and shutdown ends,  *)
(* whatever the server does and whenever the main thread asks.             *)
NothingStuck == BackoffClears /\ StopEnds /\ ReacquireServed

(* "Not polling it again" and "there is nothing left for this thread to    *)
(* do" (NtpClient.cpp, DENY and RSTR): nothing is sent to a server that    *)
(* has refused us.                                                         *)
DenyHonoured == [][peer.stopped /\ pc # "sent" => pc' # "sent"]_vars
=============================================================================
