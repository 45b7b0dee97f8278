----------------------------- MODULE DelayModel -----------------------------
(***************************************************************************)
(* What a source's delay is charged for (Source.cpp, updateDelayModel):    *)
(* the path from the station it hears, and the network between the         *)
(* receiver and here.                                                      *)
(***************************************************************************)
EXTENDS Naturals, Sequences, FiniteSetsExt, SequencesExt
-----------------------------------------------------------------------------
(* Which of WWV and WWVH a source on a shared carrier is hearing, and the  *)
(* path it is charged for.  The decoder judges the two tick bands once a   *)
(* second and keeps a tag (WwvDecoder::onSeriesSample); the tag chooses    *)
(* the tick a second is timed by; the source shows it, charges the path    *)
(* from that station (updateDelayModel), and carries it over to the next   *)
(* decoder (ensureDecoder).  A step is one second, or one packet.  On the  *)
(* carriers WWV has to itself the tag is pinned and none of this happens.  *)
CONSTANTS
  StationWarm,    \* kStationWarmSecs
  StationConfirm, \* kStationConfirmSecs
  StationSwitch,  \* kStationSwitchSecs
  StationRelease, \* kStationReleaseSecs
  StationMemory   \* kStationMemorySec

ASSUME StationAssumption ==
  /\ {StationWarm, StationConfirm, StationSwitch, StationRelease, StationMemory} \subseteq Nat \ {0}
  /\ 1 < StationConfirm
  /\ StationConfirm <= StationSwitch /\ StationConfirm <= StationRelease /\ StationConfirm <= StationMemory

VARIABLES
  tag,     \* station, pendingStation, pendingCount, stationContrary, stationUnsupported
  locked,  \* seconds since tickLockJ, up to StationWarm; NoTick when not tickLocked
  memory,  \* m_stationMemory, and the seconds since m_stationMemoryAt
  shown,   \* m_snap.station
  path,    \* the transmitter propagationSec is measured to
  edge     \* the last offset sample: the tick it was timed by, and the path it was charged

tagVars == <<tag, locked, memory, shown, path, edge>>

NoTick == StationWarm + 1
NoDecoder == StationWarm + 2
NoEdge == [timer |-> "none", path |-> "none"]
NewTag(s) == [station |-> s, pending |-> "unknown", count |-> 0, contrary |-> 0, unsupported |-> 0]

\* One band's tick decisively ahead of the other's, ahead enough to support a tag, or neither.
Evidence == {"Wwv", "wwv", "none", "wwvh", "Wwvh"}
TickVerdict(e) == CASE e = "Wwv" -> "wwv" [] e = "Wwvh" -> "wwvh" [] OTHER -> "unknown"
Supported(s, e) == e \in (CASE s = "wwv" -> {"Wwv", "wwv"} [] s = "wwvh" -> {"Wwvh", "wwvh"} [] OTHER -> {})

\* Slip: a second with no verdict does not end a run of contrary ones.
ContraryKept(t, v) == IF v # "unknown" THEN t.contrary + 1 ELSE t.contrary
Contrary(t, v) == IF v # "unknown" THEN t.contrary + 1 ELSE 0

\* The tag after one more second of evidence.
JudgeStation(t, e) ==
  LET v == TickVerdict(e)
      contrary == Contrary(t, v)
  IN CASE t.station = "unknown" /\ v # "unknown" /\ v = t.pending ->
            IF t.count + 1 >= StationConfirm THEN [NewTag(v) EXCEPT !.pending = v]
            ELSE [t EXCEPT !.count = @ + 1]
       [] t.station = "unknown" /\ (v = "unknown" \/ v # t.pending) ->
            [t EXCEPT !.pending = v, !.count = IF v = "unknown" THEN 0 ELSE 1]
       [] Supported(t.station, e) -> [t EXCEPT !.contrary = 0, !.unsupported = 0]
       [] OTHER ->
            IF contrary >= StationSwitch THEN [t EXCEPT !.station = v, !.contrary = 0, !.unsupported = 0]
            ELSE IF t.unsupported + 1 >= StationRelease THEN NewTag("unknown")
            ELSE [t EXCEPT !.contrary = contrary, !.unsupported = @ + 1]

\* The tick that times the second, and the path that is charged: WWV's until it is known to be WWVH's.
TimingTimer(s) == IF s = "wwvh" THEN "wwvh" ELSE "wwv"
ChargedPath(s) == IF s = "wwvh" THEN "wwvh" ELSE "wwv"

TagInit ==
  /\ tag = NewTag("unknown") /\ locked = NoDecoder
  /\ memory = [station |-> "unknown", age |-> 0]
  /\ shown = "unknown" /\ path = "wwv" /\ edge = NoEdge

\* A second older; past the limit, how far does not matter.
Aged(m) == [m EXCEPT !.age = IF @ < StationMemory THEN @ + 1 ELSE @]

\* What feedSamples does once the decoder has had the packet.
AfterPacket(t, tickLocked, m) ==
  /\ memory' = CASE t.station = "unknown" -> [m EXCEPT !.station = "unknown"]
                 [] t.station # "unknown" /\ tickLocked -> [station |-> t.station, age |-> 0]
                 [] OTHER -> m
  /\ shown' = t.station
  /\ path' = ChargedPath(t.station)

\* Slip: every decoder starts with no tag.
NotCarried == NewTag("unknown")
\* The tag the last decoder held, unless it is too long ago.
CarriedOver ==
  NewTag(IF memory.station # "unknown" /\ memory.age < StationMemory THEN memory.station ELSE "unknown")

\* The first packet of a connection makes its decoder.
StartDecoder ==
  /\ locked = NoDecoder
  /\ tag' = CarriedOver /\ locked' = NoTick /\ edge' = NoEdge
  /\ AfterPacket(CarriedOver, FALSE, memory)

\* resetStream: the decoder goes, and the offsets measured with it.
LoseDecoder ==
  /\ locked # NoDecoder
  /\ locked' = NoDecoder /\ edge' = NoEdge
  /\ UNCHANGED <<tag, memory, shown, path>>

\* A second without a decoder, or without a tick.
IdleSecond ==
  /\ locked \in {NoTick, NoDecoder}
  /\ memory' = Aged(memory)
  /\ UNCHANGED <<tag, locked, shown, path, edge>>

LockTick ==
  /\ locked = NoTick
  /\ locked' = 0
  /\ AfterPacket(tag, TRUE, memory)
  /\ UNCHANGED <<tag, edge>>

\* softReacquire: the tick is looked for again; the tag stays.
LoseTick ==
  /\ locked <= StationWarm
  /\ locked' = NoTick
  /\ UNCHANGED <<tag, memory, shown, path, edge>>

(* A second with the tick: judged once the fold is old enough, and timed   *)
(* or not.  The path is brought up to date at the end of a packet, so a    *)
(* second that ends in the very packet that judges it (together) is        *)
(* charged by the tag before.                                              *)
HearSecond(e, timed, together) ==
  LET t == IF locked = StationWarm THEN JudgeStation(tag, e) ELSE tag
  IN /\ locked <= StationWarm
     /\ tag' = t
     /\ locked' = IF locked < StationWarm THEN locked + 1 ELSE locked
     /\ edge' = IF timed THEN [timer |-> TimingTimer(t.station),
                               path |-> IF together THEN path ELSE ChargedPath(t.station)]
                ELSE NoEdge
     /\ AfterPacket(t, TRUE, Aged(memory))
-----------------------------------------------------------------------------
(* The network's share of a source's delay: the keepalive ping down the    *)
(* audio connection, timed to its pong, and the HTTP requests, with the    *)
(* least of the recent ones of each kept.  A pong does not say which ping  *)
(* it answers; the source keeps the time of one ping, and a mark that the  *)
(* next pong is not to be timed.                                           *)
CONSTANTS
  PingEvery,  \* between two keepalives (30 s)
  MaxPong,    \* kMaxPongSec
  RttKept,    \* probes kept (12)
  MaxFlight,  \* bound on a pong's delay
  HttpRtt     \* what an HTTP request takes, which may be to a proxy nearby

ASSUME RoundTripAssumption ==
  {PingEvery, MaxPong, RttKept, MaxFlight, HttpRtt} \subseteq Nat \ {0} /\ MaxPong <= MaxFlight

VARIABLES
  sentAge,  \* since m_jsonPingSentAt; NoPing when that is 0, Untimed for kPingUntimed
  lastPing, \* since the last ping of this connection
  flight,   \* pings on their way there or back, oldest first: how long each has been
  wsRtt,    \* m_wsRttProbes
  httpRtt,  \* m_rttProbes
  timing,   \* m_snap.timingMode
  net       \* networkSec, as the round trip it is half of

rttVars == <<sentAge, lastPing, flight, wsRtt, httpRtt, timing, net>>

Untimed == MaxFlight + 1
NoPing == MaxFlight + 2

Recorded(probes, rtt) ==
  IF Len(probes) < RttKept THEN Append(probes, rtt) ELSE Append(Tail(probes), rtt)
Least(probes) == IF probes = <<>> THEN 0 ELSE Min(ToSet(probes))

\* updateDelayModel: nothing for samples timed at the receiver, else the connection's own round trip.
Network(ws, http, mode) ==
  CASE mode = "capture" -> 0
    [] mode # "capture" /\ ws # <<>> -> Least(ws)
    [] OTHER -> Least(http)

RttInit ==
  /\ sentAge = NoPing /\ lastPing = 0 /\ flight = <<>>
  /\ wsRtt = <<>> /\ httpRtt = <<>> /\ timing = "pending" /\ net = 0

\* Slip: every ping is timed.
AlwaysTimed == 0
\* A ping sent with the last one unanswered is not timed.
PingMark == IF sentAge < Untimed THEN Untimed ELSE 0

SendPing ==
  /\ lastPing = PingEvery
  /\ sentAge' = PingMark /\ lastPing' = 0 /\ flight' = Append(flight, 0)
  /\ UNCHANGED <<wsRtt, httpRtt, timing, net>>

\* onJsonPong: the oldest ping's answer, taken for the one that was timed.
Pong ==
  /\ flight # <<>> /\ Head(flight) > 0
  /\ flight' = Tail(flight) /\ sentAge' = NoPing
  /\ wsRtt' = IF sentAge \in 1 .. MaxPong THEN Recorded(wsRtt, sentAge) ELSE wsRtt
  /\ UNCHANGED <<lastPing, httpRtt, timing, net>>

\* A ping the server does not answer.
Unanswered(i) ==
  /\ i \in DOMAIN flight
  /\ flight' = SubSeq(flight, 1, i - 1) \o SubSeq(flight, i + 1, Len(flight))
  /\ UNCHANGED <<sentAge, lastPing, wsRtt, httpRtt, timing, net>>

PassTime ==
  /\ lastPing < PingEvery /\ \A i \in DOMAIN flight : flight[i] < MaxFlight
  /\ lastPing' = lastPing + 1
  /\ flight' = [i \in DOMAIN flight |-> flight[i] + 1]
  /\ sentAge' = IF sentAge < MaxFlight THEN sentAge + 1 ELSE sentAge
  /\ UNCHANGED <<wsRtt, httpRtt, timing, net>>

\* Another connection: its pongs are its own, but the time of the last ping is kept.
Reconnect ==
  /\ lastPing' = 0 /\ flight' = <<>> /\ timing' = "pending"
  /\ UNCHANGED <<sentAge, wsRtt, httpRtt, net>>

\* sessionHandshake, fetchDescription, probeRtt.
HttpProbe ==
  /\ httpRtt' = Recorded(httpRtt, HttpRtt)
  /\ net' = Network(wsRtt, httpRtt', timing)
  /\ UNCHANGED <<sentAge, lastPing, flight, wsRtt, timing>>

SetTiming(mode) ==
  /\ timing' = mode
  /\ net' = Network(wsRtt, httpRtt, mode)
  /\ UNCHANGED <<sentAge, lastPing, flight, wsRtt, httpRtt>>

\* Every packet brings the delay model up to date.
Packet ==
  /\ net' = Network(wsRtt, httpRtt, timing)
  /\ UNCHANGED <<sentAge, lastPing, flight, wsRtt, httpRtt, timing>>
=============================================================================
