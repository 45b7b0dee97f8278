# Verification of ubersdr-ntp

TLA+ models of ubersdr-ntp, a daemon that decodes radio time signals received through UberSDR
receivers, measures them and upstream NTP servers against its own clock, combines what agrees,
and serves the result over NTP, NMEA, HTTP, MQTT and a PPS line.  Paths below are relative to
`src/src/` unless they begin with `src/`; the `map` of `PROJECT.json` gives the lines each
definition translates.

The models follow a second from the air to the wire: the framing of the five broadcasts and the
vote on their minutes, the dating of samples, the offset of one receiver and its connection, the
polling of an upstream server, the judgement and combination of all of them, and every output that
serves or reports the result.

## 1. Inventory

### Parts, state and operations

| Part | State | Operations | What makes it correct |
|---|---|---|---|
| `clock/*Decoder` | an anchor (where the minute begins), the seconds of the frame, counts of good and bad seconds, a lock | one second of signal; reset | every second it puts a time on is that second; a wrong anchor is found out; a lock comes back |
| `clock/TimeFrameVoter` | a window of frames | add a frame, vote, reset | a certified time is one that was sent |
| `SampleClock`, `CaptureClock`, `HostSlewGuard` | buckets of arrivals and a fit; marks; a window of host clock readings and a trust latch | observe, fit, date a sample, reset | a sample is not dated by a late packet or by a stamp from a slewed clock |
| `Source` (measurement) | UTC anchor, offset window, the sample count and the stream's stamps, timing mode, station tag, round trips | decoder callbacks, `handleAudio()`, `discardTiming()`, `resetStream()` | no second goes into the filter a whole second out; lost audio is put back; the delay charged is that of the path heard |
| `TimeContinuity` | the last accepted time, a pending one, a count | `judge()`, `noteFiltered()`, `reset()` | a misread never steps the clock; a wrong history ends |
| `OffsetEstimator` | windows, a fitted line, a hold through jitter | add, fit, hold, clear | a hold ends, and gently |
| `Source` (connection) | socket, backoff, link state, flags of the main thread | `supervise()`, WebSocket callbacks, `requestReacquire()`, `setActive()`, `stop()` | a receiver is never hammered and never given up; orders are carried out |
| `NtpPeer` (`NtpClient.cpp`) | socket, burst, retries, backoff, reach register, clock filter, snapshot | poll, receive, time out, park, resume, start over, stop | only its own answers count; a request to slow down is honoured; nothing is stuck |
| `Selector` | timers and latch of the class that serves; per source a smoothed disagreement, a refusal timer and a count; the last good offset; the published `Combined` | `combine()` each pass; `current()`, `activation()` from other threads | no switch without its hold-down; a wrong source cannot evict good ones; the served interval contains the truth; coasting decays honestly |
| `RateLimiter`, `ClientTally` | a token bucket, and a ring of counters, per client; times of the last sweep | `check()`; `record()`, `top()` | the limit holds over every window and sweep; the figures of the past hour are exact |
| `NtpServer` | counters, a ring of minutes, one thread per socket | `serve()`, `count()`, `stats()`, `stop()` | every request is accounted for once; a reply is what the Selector says now; stop() returns |
| `PpsLabeler`, `PpsOutput`, `NmeaServer` | the second last labelled, the leap being inserted, the port, the clients | label, pulse, accept, send, stop | each second is named once, in order, through a leap second; the line rests between pulses; readers are served |
| `EventLog`, `EventMonitor`, `MqttPublisher` | a bounded numbered queue, the states last seen, a cursor, a budget | add, observe, publish, probe | a reader of the log knows the state; every event is published, refused or counted as lost |
| `HttpApi`, `MetricHistory`, `Status` | connection and stream slots; bounded tiers and a timeline | accept, serve, stream, stop; add, prune | stop() leaves nothing running on what is gone; one tick a second; charts tell what was sampled |
| main loop | stored drift, signal flags | the pass every 250 ms, the drift file, shutdown | orders reach the sources; the drift file survives a kill |
| `Propagation`, `Uncertainty`, configuration, logging, calendar and prefix helpers | none of their own | compute, parse, format | pure |

### How they interact

The WebSocket thread of a `Source` takes each packet through `handleAudio()` into its decoder, whose
callbacks (`onClockState`, `onClockFrame`, `onClockTime`, `onClockSecond`) run on that thread and
end in an offset; a supervisor thread makes and unmakes the connection.  An `NtpPeer` has a poll
thread.  The main loop takes a snapshot of every source (each under that source's lock), runs
`Selector::combine()`, and hands the results back: a rate to every source, an order to start over
to those named in `reacquireNames`, and `setActive()` to the secondary class.  It then lets the
`EventMonitor` compare the pass with the one before.  Everything that serves (NTP listeners, PPS,
NMEA, HTTP, MQTT) reads `Selector::current()` under the Selector's lock from its own thread.  The
NTP listeners share the limiter, the tally and the counters, each under a lock of its own.

### What is hard

* Hysteresis over verdicts that flap: class failover, refusal, backoff, trust latches, station tags.
* Signals that fade, stray markers, seconds lost or counted twice, leap seconds announced or not.
* Flags set by one thread while another decides whether to wait.
* Lost, late, repeated and forged packets, pongs and frames; a server that says to slow down.
* A step of the served clock between a plan and the act it was for.
* Critical sections split by another thread; calls that reach a lock out of the order of their times.
* A process killed between two calls of the file system.
* Bounded maps, rings, queues and slots at their limits.

The hazards, each at its line and with the properties that watch it, are listed in `PROJECT.json`.

## 2. Modules and the code they model

From the air to a dated second:

| Module | Code | Correspondence |
|---|---|---|
| `Broadcast` | what `clock/*Decoder.cpp` have in common | the station and the fades; `core` is the record of what every decoder keeps of its vote, lock and certified time |
| `LfFrames` (MSF, WWVB and ALS162), `Dcf77Frame`, `WwvFrame` | the five decoders, from a classified second on | `...Second(d, s)` is what a decoder does with one second; its helpers are named for the code's |
| `FrameVoter` | `clock/TimeFrameVoter.cpp` | `AddFrame`, `ComputeResolution`, `Locked` over a calendar of three minutes to the hour |
| `SampleClock` | `SampleClock.cpp`, the classes `SampleClock`, `CaptureClock` and `HostSlewGuard` | `Observe`, `Refit`, with sums instead of floating-point means; `ObserveMark`, `CapturedAt`; `GuardSample`, `Steady` |
| `DecodingProofs` | | the theorem about the fit of `SampleClock` |

One radio source:

| Module | Code | Correspondence |
|---|---|---|
| `SourceTiming` | `Source.cpp`, the decoder's callbacks; `TimeContinuity.cpp` | one action per callback: `ClockState`, `ClockFrame`, `ClockTime`, `ClockSecond`, and `DiscardTiming`, `ResetStream`; `JudgeTime`, `NotePending`, `NoteFiltered` as functions of the history |
| `StreamTimeline` | `Source.cpp`, `handleAudio`, `trackTimeline`, `timeBlock` | one action per way a frame can be: stamped, unstamped, undecodable, unreadable |
| `DelayModel` | what the charged delay is made of: the station tag, `clock/WwvDecoder.cpp` (tick verdicts) and `Source.cpp` (`ensureDecoder`, `feedSamples`, `updateDelayModel`); the round trips, `Source.cpp` (the keepalive in `supervise()`, `onJsonPong`, `probeRtt`) | `HearSecond` is a judged second; `StartDecoder` and `LoseDecoder` carry the tag over; `SendPing`, `Pong`, `HttpProbe` |
| `SpikeHold` | `OffsetEstimator.cpp`, `holdThroughSpikes` | `Follow` and `Hold` are its two outcomes for one sample |
| `SourceThread` | what `Source` and `NtpPeer` have in common | `running`, `active` and `reacquire`, the main thread's flags, and where the source's own thread is |
| `SourceLink` | `Source.cpp`, `supervise()` and the WebSocket callbacks | `pc` is where the supervisor is; the callbacks and the main loop's calls are actions of their own |
| `SourceProofs` | | the theorems about the decoded times, the sample count, the delay model and the hold |

Upstream servers, judgement and service:

| Module | Code | Correspondence |
|---|---|---|
| `NtpPeer` | `NtpClient.cpp` | `peer` is the poll thread's state, each of its functions a function of that record; the main thread's calls are `RequestReacquire`, `SetActive`, `Stop` |
| `DaemonClock` | `daemonNow()`, the loop's sleep | `now` starts at 1 because the code keeps 0 in a timer at rest |
| `Failover`, `Agreement`, `Intersection` | `Selector.cpp`: latch and cold standby; residuals, refusal, re-acquire; sweep, tie-break, combination | `ClassStep` and `Judge` are those parts of a pass; the third is operators over one set of candidates |
| `Selector` | the whole of `combine()` | `Combine(snap)` composes the three with eligibility, class delta, stratum, root delay and dispersion, reference and coasting |
| `MonotonicClock` | `monotonicNow()` | a call may carry a time up to `MaxSkew` behind the clock: it is read before the lock is taken |
| `RateLimiter`, `ClientTally` | the files of those names | `Check(c, t, v)`; `Record(c, t)`, `Top(m)` |
| `NtpServer` | `NtpServer.cpp` | one action per stretch of `serve()` between two locks or clock readings; composes the limiter and the tally |
| `SelectorProofs`, `TimeSourcesProofs`, `ServerProofs` | | the theorems about `Failover`, `Agreement` and `Intersection`, that `Selector` implements the first, and about the time it serves; about `NtpPeer` and about the attempts of `SourceLink`; about `RateLimiter` and `ClientTally` and their use by `NtpServer` |

Outputs and reporting:

| Module | Code | Correspondence |
|---|---|---|
| `PpsLabeler` | `Pps.cpp`, class `PpsLabeler`, and the plan its two users share | `NextLabel`; the wait for a second and the reading of the clock after it are separate steps |
| `PpsOutput`, `NmeaServer` | `Pps.cpp` class `PpsOutput`; `NmeaServer.cpp` | one action per stretch of `run()` between two waits |
| `EventMonitor` | `Events.cpp`, `observe()` | `PassEvents` is what one pass adds to the log |
| `MqttPublisher` | `Mqtt.cpp` over the log of `Events.cpp` | one step per wake of the thread; the receiver's answer, a refusal included, is a choice |
| `EventQueue` | | what the reader of the log is promised (`QueueSpec`), and the weaker promise that `MqttPublisher` keeps (`RefusingSpec`) |
| `HttpApi` | `HttpApi.cpp` | the acceptor, the connections and `stop()`; the loop of `serveEvents`, with each way its poll may end |
| `MetricHistory`, `DriftFile` | `Metrics.cpp`; `main.cpp`, the stored rate | one action per sample or change; one per call of the file system, and `KillAndStart` |
| `OutputsProofs`, `ReportingProofs` | | the theorems about the outputs; about the event log, the publisher, the drift file, `HttpApi` and the charts of `MetricHistory` |

The `MC...` modules are the environments: which signals, readings, answers and orders there are.
Where components share no state, one of them holds several as *parts*: a behaviour is of one part,
chosen at the start, so their state spaces add up and do not multiply.

Variables marked *history* are not in the code; they record what a property compares with and no
action of a component reads them in a guard.  Definitions introduced by "Slip" are wrong variants of
the definition that follows them, kept beside it so that each property can be seen to fail when the
code is wrong; no specification uses them.

### What is abstracted

* Offsets, distances and times are small integers.  A combined figure, and a fit, is an exact
  fraction.  A combining weight is `WeightUnit` over the square of the quality, rounded down and at
  least 1.  Confidences are in hundredths.
* Rates are taken as already applied: the daemon clock of the models does not drift against the
  stream's, except where `Drift` (Selector) or the slew of the host clock (`HostSlewGuard`) says so.
* The exponential average of the residuals moves by a factor 1 - e^(-y).  `Blend` allows every whole
  result between y/(1+y) and min(1, y) of the gap, which bound that factor.
* A second of a broadcast is read whole: its content is its number in the minute, so a frame of
  anything but the seconds of one minute, in order, decodes to nothing.  Which values get past
  misread *bits* is the voter's part.
* In `NtpPeer` a reply is its round trip; a wait is counted in polls.  In `SourceLink` time is
  counted in wakes of the supervisor.
* A bucket's credit is its tokens times the interval.  A client is its masked address.  The second
  ring of `ClientTally` and the order of `top()` are left out.
* A reply of `NtpServer` is its leap indicator, stratum and reference; a sentence of the outputs is
  the second it names; an event is what it is about and what it says of that.
* The delay a source is charged is, in `DelayModel`, the station it is computed for and, apart
  from that, the round trip it is half of; a configured delay switches both off.

## 3. Runs

| Run | What is checked, and the result | Bounds, and why they are enough |
|---|---|---|
| `decoding` | `VotedIsTrue`: the voter certifies the sent time or none, through misread bits and over the end of an hour and a day.  `TimeTold`: no decoder puts a wrong time on a second, but ALS162 in the case `allouis_leap` shows.  `RelocksInTime`: no fault leaves one out for good.  `EnvelopeExact`: a sample is dated exactly while one packet in each bucket is prompt.  `CaptureTrusted`: and never by a stamp made in a slew, while most of the rates in the guard's history are not of one | a minute of 6 seconds (9 for WWV, which counts decades) has every kind of second the framing tells apart; 8 minutes (7 for DCF77, 10 for WWV, which scores two minutes for an anchor and takes three unsound ones to drop it) are a lock, two faults anywhere (one for WWV) of any length, and the slowest relock; a month ends in minute 3, with a leap second or not.  A window of 3 frames is one more than a lock needs.  A host clock is slewed for up to 11 seconds, of 21, in any number of spells: more than three of the guard's spans of 3, and enough for its rate to become the median; two troubles and three missing packets fall anywhere among them |
| `source` | `SamplesAreTrue`, `HistoryCorrectsItself`: misreads, resets, lost locks and a month end never put a second in the filter a whole second out, and a wrong history ends.  `InStep`: lost audio is put back within two blocks.  `HoldEndsGently`: a hold is left by slewing, within `HoldOver`.  `PathIsTheStations`, `RoundTripNotShort` | readings held 2 and 3 times against errors of 0, 1 second and 1 minute; 10 minutes around the month end are a lock, a loss and a second lock, and with a quarter second of drift every 3 minutes a history may grow old enough for a second to pass for drift.  13 frames are three blocks of two.  A station is confirmed in 2, switched in 3, released in 5 seconds, in the order of the code's constants |
| `time_sources` | Of an upstream server: `OfferedIsMeasured` (against a history, `earned`, of the replies since the thread last stood down or started over), `SpikesDoNotStarve`, `NoRetryWhileBackedOff`, `NothingStuck`, with packets lost, late, repeated and forged.  Of a receiver's connection: `AttemptsSpaced` (against a history, `owed`, that doubles with every failure in a row), `KeepsTrying`, `ConnectionReleased`, `StartsOver`, with every order of callbacks and of the main loop's calls | a server's backoff to 4 is two doublings; two quick retries are a first and a last; two addresses; `RecoverAfter` = `ReachBits` as in the code, where both are 8.  A register of four has a quartile of its own.  A receiver's backoff to 2 is its first value and the doubled one it is capped at; the connection has no other bound |
| `selecting` | `Hysteresis` of the latch; `HonestNeverRefused` and `ReacquirePaced` of the agreement test; `IntersectionHonest`: sweep and combination against their definition.  `ServedHonestly` of the whole pass: dispersion, stratum, reference and age are those of what is served | delays 1 and 3, sleeps to 4 and clock to 15: over, back and over again fits twice.  Clock to 7 reaches a second order to start over.  Three candidates at four offsets with two widths and two weights.  The whole pass has one source of each class and a clock to 7: failover, failback and the end of coasting; readings are at the ends of their intervals, the worst case |
| `ntp_server` | `LimitExact`, `CountsAreExact`, `SharedFairly`, `StopsWhenAsked`, for two listeners, for the limiter alone with room for one bucket and for two, and for the tally alone; every call may come with a time that is late | two requests, one in each thread at once, is the smallest case in which critical sections interleave; the limiter's clock to 7 is burst, exhaustion, refill and two sweeps, and with room for both clients a clock to 5 reaches a bucket forgotten and made again by a late call; the tally's ring of two minutes goes round three times |
| `outputs` | `SecondsNamed`, `PulsesApart`, `ReadersServed`.  `LineAtRest`: outside a pulse the line is up only without a port, after a device that would not lower it | five seconds around a month end; three clients of four, so that one is turned away and two can go in one turn.  Every call on the port may fail, the one that lowers the line as it is closed too |
| `reporting` | `LogTellsState`: replaying the log gives the state.  `PublishesButRefused`: `MqttPublisher` implements `EventQueue`'s `RefusingSpec` (refinement).  `OneTickASecond`: no second is ticked twice, and none is left out but one that came up while the stream's loop was away from its poll.  `EventsGoOut`, `CleanStop`, `DriftKept`, `ChartsTell` | a log of 2 and 3 events overflows once; two connections and one stream of four descriptors; two seconds of five milliseconds each, in quarters of one, with hold-ups of none, half a millisecond and more than a second, a client that speaks at any time, a poll that fails and a correction that moves a little or a lot; two kills; a tier of two buckets |
| `selector_split`, `ntp_deny`, `outputs_state`, `mqtt_refused`, `allouis_leap` | **violated**, see section 6 | as the runs they belong to |

`CHECK_DEADLOCK FALSE` is set where the modelled thing ends: a thread that has been stopped, a stream
or a month whose bound is reached.

### Fairness

* `NtpPeer`: weak fairness on each step of the poll thread but the arrival of a packet.  Every wait
  has a timeout, and a discarded packet does not extend the reply's deadline.
* `NtpServer`: weak fairness on each listener; `poll()` returns within 500 ms.
* `SourceLink`: weak fairness on the supervisor, whose waits are all timed.  Nothing is assumed of
  the WebSocket thread: a connection may hang for ever, and is noticed by the supervisor's clock.
* `MqttPublisher`: weak fairness on the publisher's step, which wakes every second.  `EventsGoOut`
  speaks of a receiver that stays well from some point on.

Nothing is assumed of the network, of the receivers or of the main thread.

### Refinements

* `Selector` implements `Failover` (theorem `SelectorImplementsFailover`, for every choice of the
  constants, so that no run repeats it): the whole pass, with its eligibility and agreement tests,
  moves the latch as the latch alone does, so what is proved of the latch holds of `combine()`.
* `MqttPublisher` implements what `EventQueue` calls `RefusingSpec` (`Queue == INSTANCE EventQueue
  WITH ...`, property `PublishesButRefused` of `reporting`): tokens, holds, probes, summaries and the
  overwriting of the log leave each event taken in order, counted as lost, or refused by the receiver.
  `QueueSpec`, which has no refusals, is what the code says of itself, and `mqtt_refused` shows that
  it is not kept (section 6).
* Each step of `NtpServer` is a step of `RateLimiter` or leaves it alone (`SharedFairly`).

All three are proved; the last two are checked as well.

## 4. Proofs

A theorem holds for every value of the constants that satisfies the named assumptions of the
modules; the runs check the same definitions on the instances of section 3, and TLC has checked each
inductive invariant below on those instances before it was proved.  The assumptions say that a bound,
a delay or a size is a natural number (positive where the code's is), and in these places more:

| Assumption | What it orders | In the code |
|---|---|---|
| `PulseAssumption`, `ErrorsAssumption` | a pulse is late by a quarter of a second at the most; the served clock is under half a second out | a plan more than 50 ms past is dropped; the second is a premise of naming seconds at all |
| `HttpAssumption` | a second is no shorter than two milliseconds; finitely many threads | `HttpApi.cpp:876`: a boundary nearer than that is left for the next |
| `RateLimiterAssumption` | `Second` is no more than `SweepEvery` | 1 s and 60 s |
| `StationAssumption` | the run that confirms a tag is longer than one second and no longer than those that switch or release it or the memory of it | 10, 30, 120 and 900 s |
| `RoundTripAssumption` | a pong that still counts is one of those the network may deliver | `MaxFlight` is the model's bound |
| `TimingAssumption` | a misread is a whole number of seconds; the window of a level has room for the samples a level needs | a time code has no fractions; 5 samples in 120 s |
| `ClientTallyAssumption` | a call is late by a minute at the most, and the ring has more than one minute | a thread waits for a lock between the two; 60 minutes |
| `NtpServerAssumption` | finitely many listeners | one for each bound address |
| `LinkAssumption` | the longest backoff is no more than the wait on a receiver that is too old | 30 s and 1800 s |
| `SourcesAssumption`, `NmeaAssumption` | finitely many sources, and clients | a configuration names the sources; a client is a descriptor |
| `ReadingsAssumption` | two honest receivers are never further apart than the limit, and what a source reads is a whole number | premise of `HonestNeverRefused`: a receiver that is within half the limit of the truth is honest |
| `CandidateAssumption` | a half-width and a weight are positive | a measured dispersion is positive, and the weight of a source is taken as 1 where none is set |
| `SlewAssumption` | the history of the slew guard is longer than five of its short spans | 16 s and 900 s |
| `AgreementAssumption` | the first wait is no more than the longest | `kReacquireAfterSec`, `kReacquireMaxSec` |
| `NtpPeerAssumption` | a usable answer is its round trip, a natural number | negative ones are refused before that |

### The Selector (`SelectorProofs`)

For every mode, every pair of delays and every pattern of passes and stalls: `Hysteresis`, the
conjunction of `HoldDown`, `SwitchSpacing`, `NotOneWay` and `StandbyHeld`, each a theorem of its own,
and type correctness.  None of these is inductive.  The latch is moved by two timers, and what a
timer says is only right because it was started by the first pass of the run of verdicts it belongs
to (`TimersFollowRun`).  The spacing of failovers needs, besides, where the latch stands to say how
long ago the last one was (`FailoverHistory`): on the secondary, a healthy run began no earlier than
the failover; back on the primary, the failback interval lies between it and any later outage.
`FailoverInv` is the conjunction with the types.  `TimersStep` says what a pass does to timers and
run together, and each action property follows from it and `FailoverInv`.

`Selector` implements `Failover`: whatever a pass makes of its candidates, it tells the latch of both
classes once and touches it nowhere else, and the initial states are the latch's.
`SelectorHysteresis` is the corollary that matters: `Hysteresis` holds of the whole of `combine()`,
for every set of sources, every reading they may show and every limit.

`SelectorPacesReacquire` is `ReacquirePaced` of the whole pass: an order to start over is given after
a fresh average has settled and the whole wait has passed, and then by the next pass that refuses
the source.  `AgreementInv` ties the timer of each source to the refusal the history remembers, and
that to an average begun since the last order; `VerdictFact` lists the five things a pass can do to a
source.  What the average comes to plays no part, so neither do the medians.

`HonestlyServed` is `ServedHonestly`, the promise the daemon makes to its clients, under the hypothesis
that no source lies (`Liars = {}`, as in `selecting`, which has two sources where the theorem has any
number).  It is a property of what was combined at some earlier pass, so `CoverInv` carries it
in the remembered result: the truth is within the remembered dispersion and what that has grown by
since (`Covered`), and stratum, reference and age are those of the sources it rests on (`Attributed`).
That a combination covers the truth is a fact about weighted means: if each survivor's offset is
within its half-width of the truth, so is their mean within the mean of the half-widths.

`HonestAreKept` is `HonestNeverRefused`: while the honest outnumber the others in every pass that
judges, no honest source is refused.  `MajorityInv` says that the *average* of an honest source's
residuals is within the limit (twice it, where residuals are doubled to keep the median of an even
number whole), since an average is judged long after the offsets that made it.
Each residual is taken against a median; ranking a class is a bijection, so the middle of a class
with an honest majority lies between two honest offsets, and an average never moves past what it is
moved towards.

`IntersectionIsHonest` is `IntersectionHonest`: the sweep against its definition.  The count the sweep
keeps at an edge is the number of intervals opened and not yet closed there; at the last opening of a
set with a point in common all of that set are open, so the best count is the size of a largest such
set, and the choice among the best exists because the candidates are finitely many.

The theorems about sums, medians and sweeps need induction over finite sets.  It is done by a smallest
counterexample: the order on the naturals is well-founded, so of the subsets that lack a property one
has the fewest members (`SmallestSubset`), and a recursion over finite sets has a solution, which is
what the folds of the library choose (`SumExists`, `SumRec`).

### Dating a sample (`DecodingProofs`)

`EnvelopeIsExact`, for every length of a bucket and of the window, every delay and every reconnection.
`EnvelopeInv` says of each kept point, and of the best of the bucket that is filling, that it is never
early, and on time whenever a packet of its bucket was.  If every kept point is on time their residuals
are equal, so the covariance in the fit is zero, no limit on the slope takes effect, and the line
passes through the common residual at every sample (`ExactFit`).

### Upstream servers and receivers (`TimeSourcesProofs`)

`OfferedIsMeasured`, `SpikesDoNotStarve` and `NoRetryWhileBackedOff`, whatever comes off the network
and whatever the main thread orders.  `PeerInv` says of the poll thread's record that an offset is
published only with the samples for it; that the estimator holds no more samples than were earned
since the thread last stood down or started over, unless that many are already enough (`Earned`);
that the run of spikes in
the record counts every reply accepted since one was handed on, or the register is empty and the
next reply is its own best; and that no retry is armed while a request is out.  There is one lemma for
each function of the thread; the functions are functions of the record, and each lemma says which
fields it keeps and what of the invariant it preserves.

`AttemptsKeptApart` is `AttemptsSpaced` of a receiver's connection.  `LinkInv`: the supervisor's backoff
is at least what one more failure would make it owe (`Escalated`), unless the connection has proved
itself or standby has wiped the slate, and what is left of a wait and what was slept of it make up what
is owed (`Paid`).

### The NTP service (`ServerProofs`)

`LimitExact` of the limiter alone (`LimitKept`) and of the service (`ServiceKeepsLimit`).  A bucket is
a summary of the answers it gave.  The invariant says what it summarises: it holds no more than was
earned since any answer (`Sound`), and all that was earned since some answer (`Tight`), so a refusal
is justified by a window; a client without a bucket has been away for as long as one takes to fill
(`Gone`), but for the lateness of the calls.  A call's time is read before the lock, so a sweep and
the bucket's next owner may disagree on the time by twice `MaxSkew`; `Lost` is what each forgotten
bucket can be worth, and the bound of `RateHeld` counts it.  `ServerUsesLimiter` is the refinement:
`ServerInv` adds that a thread between its clock reading and the limiter is at most `MaxSkew` late.
`SweepsKeepApart`: however many new addresses come, the map is walked at most once a second.

`PageIsExact` is `CountsAreExact` of the whole service.  A ring of counters says nothing of minutes by
itself: `TallyInv` says that an entry's slot holds, for each of the last `Minutes` minutes up to the
one it was last moved to, exactly what was asked in that minute, and that nothing was asked in later
ones (`RecordTells` for one call of `record()`, late ones included; `Cleared` for the slots a silence
skips; the lemmas on remainders are at the head of the module).  `StatsInv` says the same of the
server's own ring, which every counting step moves on first (`CountKeeps`).  The figures of the past
hour are then equal as *functions* of the minute, so their sums are equal whatever a sum comes to.
`HandInv` follows a request through its thread: what it was counted as, and that what the thread
holds of the Selector was published while the request was in the server.  `TopKept` and
`BusyClientsStay` are the tally's part by itself, `ServiceKeepsBusy` the second of them for the
service: with `ServerUsesLimiter` and `SweepsKeepApart` it makes up `SharedFairly`.

### One radio source (`SourceProofs`)

* `SamplesTrue`, the central promise of a radio source: no wrong second enters the filter.  A time is
  admitted by its history alone, so `TimingInv` says what the history, the pending time, the anchor
  and the samples are worth while nothing has fooled every check: the history is what was true when it
  was last renewed (`Historic`); a pending time was true when last read or has been wrong in every
  reading it has (`Contended`); anchor and samples have the history's one offset (`Uniform`), so that
  their median has it too (`MedianFact`), and the history may be renewed by it.  `ReadingFact` is the
  arithmetic of the month's end: a reading equal to what was true before it is right, is not judged,
  or passes for a leap second.
* `HistoryHeals`: a wrong history corrects itself, for every allowance for drift and however long the
  clock runs.  `HealInv` counts the readings a true time has had against the history it contradicts,
  through a month's end that dates the pending time again, and how many true samples the filter holds
  since.  After hours of silence the allowance for drift may let a true time through beside a history
  a second off; the history, the anchor and the filter are then of two times, and the minutes count
  from when they are of one again (`OneTime`, which a run of right minutes keeps).  Until then the
  history is a median of mixed samples, of which only that it is a number is needed (`MedianInt`: of
  the offsets that at least k samples do not exceed, a smallest one is the k-th).
* `CountsInStep`.  `StreamInv` says of the block being judged which frames its least lateness is from,
  so that a verdict on two blocks is a bound on the audio lost, neither more nor less.
* `TripsNotShort`.  `TripInv`: a ping that is being timed was sent with nothing else in flight; one
  sent over an unanswered ping is left untimed.
* `PathIsHeard`.  A switch is decided by counters that a release, a carried tag or a lost tick may set
  back, so the run a listener has heard and the counters need not agree.  `TagInv` says how far they
  may part: the tag and the path follow each other (`Follows`), the count of contrary seconds is the
  heard run's or the run has been released once (`Against`, `RunCounted`).
* `HoldsEndGently`.  `HoldInv`: what is held is a level published in a calm window no older than
  `MaxCalmAge` (`Published`, `Dated`), a noisy source is in a hold, slewing out of one or at its live
  level (`OddsExplained`), and what is left of a slew is bounded by the time left for it (`SlewLeft`).

### Outputs and reporting (`OutputsProofs`, `ReportingProofs`)

* `LineIsAtRest` (`LineInv`: raised in a pulse with the port open, or without a port once the device has
  refused to lower it) and `PulsesKeepApart`
  (`SpacingInv`: the last pulse lies in the half second of the last slot, or half a second back).
* `SecondsAreNamed`, for every length of the day, month end and error of the clock: `NameInv` carries
  the labeller's count against the true second, with the leap second named, still to be named or
  given up, through clocks that take it early, late or never (`ClockOK`, `NextLabelFacts`).
* `ReadersAreServed`, for any number of clients.  `ReaderInv` adds that clients come to the NMEA service
  only.  Clients are closed by their places in a list that moves up as it shrinks; closing from the
  back closes those places and no other (`Still`, a fold taken one place at a time).
* `PublisherIsQueue`: `PublishesButRefused`, for every capacity of the log, budget and interval: an event
  that is not taken and not counted as lost was refused, and none is settled out of order.  The mapping is of the cursor, the newest event and the count of lost ones; a step maps
  only where neither the cursor nor the newest event the pass has seen is past the end of the log
  (`CursorInv`), and `FreshFacts` says how far a pass that finds the log overwritten may jump.
* `LogTells`: `LogInv` says of each thing the log speaks of that what was last said of it is what the
  monitor last saw, and what the monitor last saw is what the pass showed, but for the states in which
  it says nothing on purpose.  The attempt showed that two cases of `AfterSource` overlapped, and that
  TLC took the first of them; the definition now tells them apart as the code's order of tests does.
* `DriftFileKept`, for any number of kills, every set of rates, threshold and interval.  The file holds
  a figure only because the temporary did when it was renamed; `DriftInv` adds that, and that a
  process started again begins with no save in progress.
* `StopIsClean`, for any number of threads, slots and descriptors.  `HttpInv`: a listed descriptor is
  that of the connection it was listed for (`FdsOwned`), the counters are the numbers of threads
  between counting in and out (`SlotCounts`), and stop() lists connections once nobody can add one
  (`StopOrder`).
* `TicksOnceASecond`: `OneTickASecond`, for every length of the second, however long the loop is held
  up, whenever the client speaks and however the correction moves.  `TickInv`: while poll works and the
  correction is steady, the poll ends at a boundary after the last tick's, up to a millisecond early
  (`Target`), and every second between the two came up while the loop was away or within two
  milliseconds of its return (`Came`, `Passing`).
* `ChartsAreTrue`, for every width and number of buckets, period kept and limit on the series and the
  changes, however the served time steps (the samples are 0 or 1, as in the run).  `ChartInv` says that
  each bucket of a tier holds exactly the samples that belong in it, that the buckets lie at rising
  places of the grid, and that a sample whose bucket is not there is older than a full tier
  (`Charted`); since the places rise, a full tier spans the window, so nothing that was dropped belongs
  in it (`ShownAre`).  `BarInv`: the changes kept are the last of all there were, and those that were
  dropped are behind what is kept or past `kMaxChanges`.

### Only model-checked

* Liveness under fairness: `NothingStuck`, `KeepsTrying`, `ConnectionReleased`, `StartsOver`,
  `StopsWhenAsked`, `EventsGoOut`.
* `VotedIsTrue`: what a vote over misread bits composes is a fact about the combinations of bits a
  small calendar allows, which TLC enumerates and no argument has been found to cover at once.
* `CaptureTrusted`: it is a statement about the median of the slopes a guard's history holds, of which a
  prefix has been slewed; the argument, over the medians of growing windows, has not been made.
* `SharedFairly` by that name: its conjuncts are theorems, over the variables each of them speaks of.
* `TimeTold` and `RelocksInTime`, whose invariants have a case for each place in a minute of each of
  five formats.

## 5. Plan

1. Theorems: `TimeTold` for the simplest of the decoders; `ServedHonestly` with a minority of liars.
2. The measurement of an edge: the alpha-beta trackers of the LF decoders and WWV's tick timer, with
   their outlier counts, as integers on the nominal grid.
3. The main loop as a composition: `Selector` with `NtpPeer` and `SourceLink`, so that orders to
   start over and cold standby close the loop.

## 6. Where the code and its own words part

Kept as runs:

* `selector_split`: whether the primary class is usable is decided on its candidates before the
  intersection (`Selector.cpp:444`), while serving needs as many survivors of it.  Two receivers
  that must agree and do not leave the primary "usable" and serving nothing, and the healthy standby
  is never swapped in, against `Selector.h:58-60`.
* `ntp_deny`: after DENY or RSTR the poll thread waits thirty seconds and polls the server again
  (`NtpClient.cpp:470`), against the comment at 462-465 and the log line at 795-796.
* `outputs_state`: when the sentences of a second that was pulsed cannot be written, the port is
  closed and the state set to error, then set to "pulsing" again (`Pps.cpp:466-467`), against
  `Pps.h:134` and `src/README.md:1543`.
* `mqtt_refused`: an event the receiver refuses moves the cursor and is neither taken nor counted
  (`Mqtt.cpp:501`), and after a 403 the pass goes on to spend the others in the same way, against
  `Mqtt.cpp:474-480` ("Every event, once, in order", and only overwritten ones lost, and counted).
* `allouis_leap`: the leap second is counted as second 0 of the next minute; a silent second of that
  minute, which is not counted (`clock/AllouisDecoder.cpp:734`), undoes it, so the names and the
  60 seconds to the next frame agree with a frame begun a second early.  It is certified, and the
  minutes counted from it are told a second early, against 1060-1061 ("the position codes find the
  count again after").

Met while modelling, and the reason that some properties are stated more narrowly than the comment:

* A cold standby comes up on every start, before the primary has had a chance to lock
  (`Selector.cpp:516`; 511-515 and `Config.h:283` speak of a primary that has failed).
* Intervals that only touch are not counted together by the sweep (`Selector.cpp:586-588`), but the
  survivors' test is closed (613), so a touching one survives.
* A source that returns after an absence is judged on an average and a settling time from before it
  (`Selector.cpp:285`, against 29-32 and 274-275).  `m_secondaryActive` and the activation reason
  are written outside the lock `activation()` reads them under (`Selector.cpp:467`).
* The run of accepted replies that eases a backoff is not reset by a poll that fails
  (`NtpClient.cpp:910`, against 105-107).  The staleness limit is published before the interval it
  is computed from (`NtpClient.cpp:1069` and 490).  A socket error between two lookups hides that the
  server has moved (`NtpClient.cpp:616`, against 629-632).
* With an interval below a second, the sweep at the cap may forget a bucket within a second of its
  kiss (`RateLimiter.cpp:72`, against 93-95).  With late calls, `ClientTally::record()` may sweep
  with the time of a minute that is over (`ClientTally.cpp:56`).
* A pong may be timed by a later ping than its own when two pings in a row were sent with the one
  before unanswered, because the mark alternates; and `m_jsonPingSentAt` is not reset by a
  reconnection (`Source.cpp:699`, against 690-694, "left untimed rather than matched to the wrong
  ping").  `RoundTripNotShort` excludes the first.
* After a month's end the size of a jump is compared with a second and not its sign
  (`TimeContinuity.cpp:63`, against `TimeContinuity.h:38`, "exactly one second"), so a reading two
  seconds out passes for the leap second that is due; and a source unheard of for some three hours
  takes a second for drift, whichever way it came about (`TimeContinuity.cpp:51`).  `SamplesAreTrue`
  excludes both (`PassesForLeap`, `PassesForDrift`).
* A release of the station tag inside a run of contrary seconds starts the count again, so a switch
  may take as long as a switch and a first tag together (`clock/WwvDecoder.cpp:1150`, against
  1113-1116); a carried tag's memory is renewed when the tick locks, before the tag is judged
  (`Source.cpp:1778`).
* `onOpen` sets its flag and its state in two steps, between which the supervisor may look
  (`Source.cpp:1005`).
* A count of seconds begun within the leap second itself names one wrong (`Pps.cpp:183`).
* A minute of unread bits reads as minute 0, so next to minute 59 or minute 1 it counts as an
  increment instead of breaking the chain (`clock/TimeFrameVoter.cpp:514`, against 539-540).
* An event whose answer is lost on the way back is offered again, so a receiver may have it twice
  (`Mqtt.cpp:474`, "once").
* A client that speaks on the event stream within two milliseconds before a boundary costs that
  second's tick (`HttpApi.cpp:876`, against 886-889, "back to waiting for the boundary"); a poll that
  fails sends one early; and a correction that moves by more than half a millisecond between two ticks
  may repeat or leave out a second, against 867-871.  `OneTickASecond` says which seconds may be left
  out, and of the last two cases it says nothing.
* `port.reset()` is commented "at rest, and closed", but lowering the line may fail in the destructor as
  it did in the call before it (`Pps.cpp:90-93`, 477), with HUPCL cleared (239).  `LineAtRest` says
  that this is the only way the line stays up.
* A peer that is parked and woken before its thread looks is not stood down, and is still offered on the
  samples it had (`NtpClient.cpp`, `run()`); `OfferedIsMeasured` counts from what the thread does.
* A slew within the first minutes of the guard's history is most of it, so the median takes its rate for
  the usual one and stamps made in the slew are trusted (`SampleClock.cpp:327-328`, against
  `SampleClock.h:218-221`).  `CaptureTrusted` excludes a history of which slewed rates are half.

## 7. Not modelled

* Signal processing: filters, correlators, the edge trackers of the LF decoders, WWV's tick timer,
  and the classification of a second.  Floating-point numerics on one thread; its outcome is the
  input of the framing.
* The line fit and the medians of `OffsetEstimator`, whose level is an input of `SpikeHold`;
  `Propagation` and `Uncertainty`: floating-point formulas and tables.
* The voter's gate against a reference clock a day away: the small calendar has no such times.
* Packet layout, rendering of the status pages, wording of events and sentences, Home Assistant
  discovery, configuration parsing, logging, calendar arithmetic: formatting and pure functions.
* Vendored libraries, test tools and packaging.
