---------------------------- MODULE SourceProofs ----------------------------
(***************************************************************************)
(* What Source.cpp guarantees of its measurements for every value of the   *)
(* constants: the round trips it takes off a connection and the station    *)
(* whose path it charges (DelayModel), the level it publishes through a    *)
(* jitter spike (SpikeHold), the samples it counts (StreamTimeline), and   *)
(* the times it believes and how it stops believing a wrong one            *)
(* (SourceTiming).                                                         *)
(***************************************************************************)
EXTENDS MCSource, SequenceTheorems, FiniteSetTheorems, WellFoundedInduction, TLAPS

(* A source that counts on its last ping has sent it with nothing else on  *)
(* its way; one that was sent before the last was answered is not timed.   *)
TripInv ==
  /\ sentAge \in Nat /\ overdue \in 0..2 /\ flight \in Seq(Nat)
  /\ answered => flight = <<>> /\ sentAge = NoPing
  /\ ~answered /\ overdue = 0 => /\ sentAge <= MaxFlight
                                 /\ Len(flight) <= 1
                                 /\ Len(flight) = 1 => flight[1] <= sentAge
  /\ ~answered /\ overdue = 1 => sentAge \in {Untimed, NoPing}
  /\ ~short

LEMMA TripInvInit == Init => TripInv
  BY RoundTripAssumption DEF Init, RttInit, TripInv, NoPing

LEMMA UnansweredFact ==
  ASSUME flight \in Seq(Nat), NEW i \in DOMAIN flight, Unanswered(i)
  PROVE  flight' \in Seq(Nat) /\ Len(flight') < Len(flight)
<1>1. i \in 1..Len(flight) /\ Len(flight) \in Nat
  OBVIOUS
<1> DEFINE a == SubSeq(flight, 1, i - 1)
           b == SubSeq(flight, i + 1, Len(flight))
<1>2. a \in Seq(Nat) /\ Len(a) = i - 1
  BY <1>1
<1>3. b \in Seq(Nat) /\ Len(b) = Len(flight) - i
  BY <1>1
<1>4. flight' = a \o b
  BY DEF Unanswered
<1> HIDE DEF a, b
<1>5. a \o b \in Seq(Nat) /\ Len(a \o b) = Len(a) + Len(b)
  BY <1>2, <1>3, ConcatProperties
<1> QED BY <1>1, <1>2, <1>3, <1>4, <1>5

LEMMA TripInvStep == TripInv /\ [Next]_vars => TripInv'
<1> SUFFICES ASSUME TripInv, [Next]_vars PROVE TripInv'
  OBVIOUS
<1> USE RoundTripAssumption
<1>1. CASE UNCHANGED rttAll
  BY <1>1 DEF rttAll, rttVars, TripInv, Untimed, NoPing
<1>2. CASE Pinged
  <2>1. sentAge' = PingMark /\ flight' = Append(flight, 0) /\ answered' = FALSE
        /\ overdue' = (IF answered THEN 0 ELSE UpTo(2, overdue)) /\ short' = short
    BY <1>2 DEF Pinged, SendPing
  <2>2. CASE answered
    <3>1. flight' = <<0>> /\ sentAge' = 0 /\ overdue' = 0
      BY <2>1, <2>2 DEF TripInv, PingMark, NoPing, Untimed
    <3> QED BY <2>1, <3>1 DEF TripInv
  <2>3. CASE ~answered
    <3>1. flight' \in Seq(Nat) /\ sentAge' \in Nat
      BY <2>1 DEF TripInv, PingMark, Untimed
    <3>2. overdue' = IF overdue < 2 THEN overdue + 1 ELSE overdue
      BY <2>1, <2>3 DEF UpTo
    <3> QED BY <2>1, <2>3, <3>1, <3>2 DEF TripInv, PingMark, Untimed
  <2> QED BY <2>2, <2>3
<1>3. CASE Ponged
  <2>1. flight # <<>> /\ Head(flight) > 0 /\ flight' = Tail(flight) /\ sentAge' = NoPing
        /\ (answered' <=> Len(flight) = 1) /\ overdue' = overdue
        /\ (short' <=> short \/ (overdue < 2 /\ sentAge \in 1 .. MaxPong /\ sentAge < Head(flight)))
    BY <1>3 DEF Ponged, Pong
  <2>2. flight' \in Seq(Nat) /\ Len(flight') = Len(flight) - 1 /\ Head(flight) = flight[1]
        /\ Len(flight) \in Nat /\ Len(flight) > 0 /\ flight[1] \in Nat
    BY <2>1 DEF TripInv
  <2>3. ~answered
    BY <2>1 DEF TripInv
  <2>4. ~short'
    <3>1. CASE overdue = 0
      BY <2>1, <2>2, <2>3, <3>1 DEF TripInv
    <3>2. CASE overdue = 1
      BY <2>1, <2>3, <3>2 DEF TripInv, Untimed, NoPing
    <3>3. CASE overdue = 2
      BY <2>1, <3>3 DEF TripInv
    <3> QED BY <3>1, <3>2, <3>3 DEF TripInv
  <2>5. Len(flight) = 1 => flight' = <<>>
    BY <2>1, <2>2
  <2>6. ~answered' /\ overdue = 0 => FALSE
    BY <2>1, <2>2, <2>3 DEF TripInv
  <2>7. sentAge' \in Nat
    BY <2>1 DEF NoPing
  <2> QED BY <2>1, <2>2, <2>4, <2>5, <2>6, <2>7 DEF TripInv
<1>4. ASSUME NEW i \in DOMAIN flight, Unanswered(i), UNCHANGED <<answered, overdue, short>>
      PROVE  TripInv'
  <2>1. flight' \in Seq(Nat) /\ Len(flight') < Len(flight) /\ Len(flight') \in Nat
        /\ Len(flight) \in Nat
    BY <1>4, UnansweredFact DEF TripInv
  <2>2. sentAge' = sentAge
    BY <1>4 DEF Unanswered
  <2>3. ~answered
    BY <1>4 DEF TripInv
  <2> QED BY <1>4, <2>1, <2>2, <2>3 DEF TripInv, Untimed, NoPing
<1>5. CASE PassTime /\ UNCHANGED <<answered, overdue, short>>
  <2>1. flight' = [i \in DOMAIN flight |-> flight[i] + 1] /\ answered' = answered
        /\ overdue' = overdue /\ short' = short
        /\ sentAge' = (IF sentAge < MaxFlight THEN sentAge + 1 ELSE sentAge)
        /\ \A i \in DOMAIN flight : flight[i] < MaxFlight
    BY <1>5 DEF PassTime
  <2>2. flight' \in Seq(Nat) /\ Len(flight') = Len(flight)
    <3>1. /\ Len(flight) \in Nat /\ DOMAIN flight = 1 .. Len(flight)
          /\ flight \in [1 .. Len(flight) -> Nat]
      BY LenProperties DEF TripInv
    <3>2. flight' \in [1 .. Len(flight) -> Nat]
      BY <2>1, <3>1
    <3>3. flight' \in Seq(Nat)
      BY <3>1, <3>2, SeqDef, Zenon
    <3> QED BY <3>1, <3>2, <3>3, LenProperties
  <2>3. Len(flight) = 1 => flight'[1] = flight[1] + 1 /\ flight[1] < MaxFlight /\ flight[1] \in Nat
    <3>1. DOMAIN flight = 1 .. Len(flight) /\ flight \in [1 .. Len(flight) -> Nat]
      BY LenProperties DEF TripInv
    <3> QED BY <2>1, <3>1
  <2>4. flight = <<>> => flight' = <<>>
    BY <2>2 DEF TripInv
  <2> QED BY <2>1, <2>2, <2>3, <2>4 DEF TripInv, Untimed, NoPing
<1>6. CASE Reconnect /\ UNCHANGED <<answered, overdue, short>>
  <2>1. flight' = <<>> /\ UNCHANGED <<sentAge, answered, overdue, short>>
    BY <1>6 DEF Reconnect
  <2> QED BY <2>1 DEF TripInv, Untimed, NoPing
<1>7. CASE /\ HttpProbe \/ Packet \/ \E how \in {"capture", "arrival"} : SetTiming(how)
           /\ UNCHANGED <<answered, overdue, short>>
  <2>1. UNCHANGED <<flight, sentAge, answered, overdue, short>>
    BY <1>7 DEF HttpProbe, Packet, SetTiming
  <2> QED BY <2>1 DEF TripInv, Untimed, NoPing
<1>8. UNCHANGED vars => UNCHANGED rttAll
  BY DEF vars
<1>9. TimingStep \/ StreamStep \/ HoldStep \/ TagStep => UNCHANGED rttAll
  BY DEF TimingStep, StreamStep, HoldStep, TagStep
<1>10. CASE TripStep
  BY <1>2, <1>3, <1>4, <1>5, <1>6, <1>7, <1>10, Zenon DEF TripStep
<1> QED BY <1>1, <1>8, <1>9, <1>10, Zenon DEF Next

(* No round trip is taken for shorter than it was, unless two pings in a   *)
(* row were sent with the one before unanswered: for every interval of the *)
(* pings, every limit on a pong and every delay, loss and reconnection.    *)
THEOREM TripsNotShort == Spec => []RoundTripNotShort
<1>1. TripInv => RoundTripNotShort
  BY DEF TripInv, RoundTripNotShort
<1> QED BY <1>1, TripInvInit, TripInvStep, PTL DEF Spec
-----------------------------------------------------------------------------
(* The station a shared carrier's delay is charged for.                    *)
Stations == {"unknown", "wwv", "wwvh"}
Tags ==
  [station : Stations, pending : Stations, count : Nat, contrary : Nat, unsupported : Nat]

(* What a judged second makes of a tag: confirmed, one more for it, a new  *)
(* one considered, supported, switched, released, or one more against it.  *)
LEMMA JudgeFact ==
  ASSUME NEW t \in Tags, NEW e \in Evidence,
         NEW v, v = TickVerdict(e), NEW j, j = JudgeStation(t, e)
  PROVE  /\ v \in Stations /\ j \in Tags
         /\ \/ /\ t.station = "unknown" /\ v # "unknown" /\ v = t.pending
               /\ t.count + 1 >= StationConfirm /\ j.station = v
               /\ j.contrary = 0 /\ j.unsupported = 0
            \/ /\ t.station = "unknown" /\ v # "unknown" /\ v = t.pending
               /\ t.count + 1 < StationConfirm /\ j.station = "unknown" /\ j.pending = v
               /\ j.count = t.count + 1
               /\ j.contrary = t.contrary /\ j.unsupported = t.unsupported
            \/ /\ t.station = "unknown" /\ (v = "unknown" \/ v # t.pending)
               /\ j.station = "unknown" /\ j.pending = v
               /\ j.count = (IF v = "unknown" THEN 0 ELSE 1)
               /\ j.contrary = t.contrary /\ j.unsupported = t.unsupported
            \/ /\ t.station # "unknown" /\ Supported(t.station, e) /\ v \in {"unknown", t.station}
               /\ j.station = t.station /\ j.contrary = 0 /\ j.unsupported = 0
            \/ /\ t.station # "unknown" /\ ~Supported(t.station, e) /\ v # t.station
               /\ \/ /\ v # "unknown" /\ t.contrary + 1 >= StationSwitch
                     /\ j.station = v /\ j.contrary = 0 /\ j.unsupported = 0
                  \/ /\ v # "unknown" => t.contrary + 1 < StationSwitch
                     /\ t.unsupported + 1 >= StationRelease
                     /\ j = NewTag("unknown")
                  \/ /\ j.station = t.station /\ j.unsupported = t.unsupported + 1
                     /\ j.contrary = IF v # "unknown" THEN t.contrary + 1 ELSE 0
                     /\ v # "unknown" => t.contrary + 1 < StationSwitch
<1> USE StationAssumption
<1>1. v = IF e = "Wwv" THEN "wwv" ELSE IF e = "Wwvh" THEN "wwvh" ELSE "unknown"
  BY Zenon DEF TickVerdict
<1>2. v \in Stations
  BY <1>1 DEF Stations
<1>3. /\ Supported("wwv", e) <=> e \in {"Wwv", "wwv"}
      /\ Supported("wwvh", e) <=> e \in {"Wwvh", "wwvh"}
      /\ ~Supported("unknown", e)
  BY DEF Supported
<1>4. CASE t.station = "unknown" /\ v # "unknown" /\ v = t.pending
  <2>1. j = IF t.count + 1 >= StationConfirm THEN [NewTag(v) EXCEPT !.pending = v]
            ELSE [t EXCEPT !.count = @ + 1]
    <3> DEFINE w == TickVerdict(e)
    <3>1. t.station = "unknown" /\ w # "unknown" /\ w = t.pending /\ ~Supported(t.station, e)
      BY <1>3, <1>4
    <3>2. j = IF t.count + 1 >= StationConfirm THEN [NewTag(w) EXCEPT !.pending = w]
              ELSE [t EXCEPT !.count = t.count + 1]
      BY <3>1, Zenon DEF JudgeStation
    <3> QED BY <3>2
  <2>2. CASE t.count + 1 >= StationConfirm
    <3>1. j = [station |-> v, pending |-> v, count |-> 0, contrary |-> 0, unsupported |-> 0]
      BY <2>1, <2>2 DEF NewTag
    <3> QED BY <1>2, <1>4, <2>2, <3>1 DEF Tags, Stations
  <2>3. CASE ~(t.count + 1 >= StationConfirm)
    <3>1. j = [t EXCEPT !.count = t.count + 1]
      BY <2>1, <2>3
    <3> QED BY <1>2, <1>4, <2>3, <3>1 DEF Tags, Stations
  <2> QED BY <2>2, <2>3
<1>5. CASE t.station = "unknown" /\ (v = "unknown" \/ v # t.pending)
  <2>1. j = [t EXCEPT !.pending = v, !.count = IF v = "unknown" THEN 0 ELSE 1]
    <3> DEFINE w == TickVerdict(e)
    <3>1. t.station = "unknown" /\ (w = "unknown" \/ w # t.pending) /\ ~Supported(t.station, e)
      BY <1>3, <1>5
    <3>2. j = [t EXCEPT !.pending = w, !.count = IF w = "unknown" THEN 0 ELSE 1]
      BY <3>1, Zenon DEF JudgeStation
    <3> QED BY <3>2
  <2> DEFINE n == IF v = "unknown" THEN 0 ELSE 1
             k == [t EXCEPT !.pending = v]
  <2>2. n \in Nat /\ j = [k EXCEPT !.count = n]
    BY <2>1
  <2>3. k \in Tags /\ k.pending = v /\ k.station = t.station /\ k.contrary = t.contrary
        /\ k.unsupported = t.unsupported
    BY <1>2 DEF Tags
  <2> HIDE DEF n, k
  <2>4. j \in Tags /\ j.pending = v /\ j.station = t.station /\ j.contrary = t.contrary
        /\ j.unsupported = t.unsupported /\ j.count = n
    BY <2>2, <2>3 DEF Tags
  <2> QED BY <1>2, <1>5, <2>4 DEF n
<1>6. CASE t.station # "unknown" /\ Supported(t.station, e)
  <2>1. j = [t EXCEPT !.contrary = 0, !.unsupported = 0]
    BY <1>6, Zenon DEF JudgeStation
  <2>2. v \in {"unknown", t.station}
    BY <1>1, <1>3, <1>6 DEF Tags, Stations
  <2> DEFINE k == [t EXCEPT !.contrary = 0]
  <2>3. j = [k EXCEPT !.unsupported = 0]
    BY <2>1
  <2>4. k \in Tags /\ k.station = t.station /\ k.contrary = 0
    BY DEF Tags
  <2> HIDE DEF k
  <2>5. j \in Tags /\ j.station = t.station /\ j.contrary = 0 /\ j.unsupported = 0
    BY <2>3, <2>4 DEF Tags
  <2> QED BY <1>2, <1>6, <2>2, <2>5
<1>7. CASE t.station # "unknown" /\ ~Supported(t.station, e)
  <2> DEFINE c == IF v # "unknown" THEN t.contrary + 1 ELSE 0
  <2>1. j = IF c >= StationSwitch THEN [t EXCEPT !.station = v, !.contrary = 0, !.unsupported = 0]
            ELSE IF t.unsupported + 1 >= StationRelease THEN NewTag("unknown")
            ELSE [t EXCEPT !.contrary = c, !.unsupported = t.unsupported + 1]
    BY <1>7, Zenon DEF JudgeStation, Contrary
  <2>2. v # t.station
    BY <1>1, <1>3, <1>7 DEF Tags, Stations
  <2>3. c \in Nat
    BY DEF Tags
  <2>4. CASE c >= StationSwitch
    <3>1. j = [t EXCEPT !.station = v, !.contrary = 0, !.unsupported = 0]
      BY <2>1, <2>4
    <3>2. v # "unknown" /\ t.contrary + 1 >= StationSwitch
      BY <2>4
    <3> DEFINE k == [t EXCEPT !.station = v]
               l == [k EXCEPT !.contrary = 0]
    <3>3. j = [l EXCEPT !.unsupported = 0]
      BY <3>1
    <3>4. k \in Tags /\ k.station = v
      BY <1>2 DEF Tags
    <3> HIDE DEF k
    <3>5. l \in Tags /\ l.station = v /\ l.contrary = 0
      BY <3>4 DEF Tags
    <3> HIDE DEF l
    <3>6. j \in Tags /\ j.station = v /\ j.contrary = 0 /\ j.unsupported = 0
      BY <3>3, <3>5 DEF Tags
    <3> QED BY <1>2, <1>7, <2>2, <3>2, <3>6
  <2>5. CASE ~(c >= StationSwitch) /\ t.unsupported + 1 >= StationRelease
    <3>1. j = NewTag("unknown")
      BY <2>1, <2>5
    <3>2. j \in Tags
      BY <3>1 DEF NewTag, Tags, Stations
    <3>3. v # "unknown" => t.contrary + 1 < StationSwitch
      BY <2>3, <2>5 DEF Tags
    <3> QED BY <1>2, <1>7, <2>2, <2>5, <3>1, <3>2, <3>3
  <2>6. CASE ~(c >= StationSwitch) /\ ~(t.unsupported + 1 >= StationRelease)
    <3>1. j = [t EXCEPT !.contrary = c, !.unsupported = t.unsupported + 1]
      BY <2>1, <2>6
    <3>2. j \in Tags /\ j.station = t.station /\ j.unsupported = t.unsupported + 1 /\ j.contrary = c
      <4> DEFINE k == [t EXCEPT !.contrary = c]
      <4>1. j = [k EXCEPT !.unsupported = t.unsupported + 1]
        BY <3>1
      <4> HIDE DEF c
      <4>2. k \in Tags /\ k.station = t.station /\ k.contrary = c
        BY <2>3 DEF Tags
      <4> HIDE DEF k
      <4> QED BY <4>1, <4>2 DEF Tags
    <3>3. v # "unknown" => t.contrary + 1 < StationSwitch
      BY <2>3, <2>6 DEF Tags
    <3> QED BY <1>2, <1>7, <2>2, <3>2, <3>3
  <2> QED BY <2>4, <2>5, <2>6
<1> QED BY <1>4, <1>5, <1>6, <1>7 DEF Tags

(* What every count of the tag stands for.  The memory and the path are    *)
(* the tag's; a run of seconds heard for another station is what speaks    *)
(* against the tag, and none of what speaks against it is heard for the    *)
(* path that is charged.                                                   *)
TagTypes ==
  /\ tag \in Tags /\ locked \in Nat /\ memory \in [station : Stations, age : Nat]
  /\ heard \in [station : Stations, for : Nat] /\ quiet \in Nat
  /\ quiet <= StationConfirm /\ heard.for <= LongHeard

Follows ==
  /\ memory.station = tag.station /\ path = ChargedPath(tag.station)
  /\ heard.station = "unknown" <=> heard.for = 0
  /\ locked = NoDecoder => heard.for = 0

Against ==
  /\ tag.contrary < StationSwitch /\ tag.contrary <= tag.unsupported
  /\ tag.station = "unknown" => /\ tag.count < StationConfirm
                                /\ tag.pending = "wwvh" => quiet >= tag.count
  /\ tag.station # "unknown" => /\ quiet >= tag.unsupported \/ quiet = StationConfirm
                                /\ quiet >= memory.age \/ quiet = StationConfirm

RunCounted ==
  locked # NoDecoder =>
    /\ tag.station # "unknown" =>
         /\ heard.for > 0 /\ heard.station # tag.station => tag.contrary = heard.for
         /\ tag.contrary > 0 => heard.for = tag.contrary /\ heard.station # tag.station
    /\ tag.station = "unknown" /\ heard.for > 0 =>
         heard.for < StationSwitch + (IF tag.pending = heard.station THEN tag.count ELSE 0)

TagInv == TagTypes /\ Follows /\ Against /\ RunCounted
(* A step of the tag, of the path and of the edges it times.               *)
TagMoves ==
  /\ {tag.station, tag'.station} = {"wwv", "wwvh"} => heard'.for >= StationSwitch
  /\ path' # path => quiet' >= StationConfirm
  /\ edge'.timer # edge'.path => edge' = edge \/ tag'.station # tag.station

LEMMA TagInvInit == Init => TagInv
<1> SUFFICES ASSUME Init PROVE TagInv
  OBVIOUS
<1>1. tag = NewTag("unknown") /\ locked = NoDecoder /\ memory = [station |-> "unknown", age |-> 0]
      /\ path = "wwv" /\ heard = NotHeard /\ quiet = 0
  BY DEF Init, TagInit
<1>2. tag \in Tags /\ tag.station = "unknown" /\ tag.pending = "unknown" /\ tag.count = 0
      /\ tag.contrary = 0 /\ tag.unsupported = 0
  BY <1>1 DEF NewTag, Tags, Stations
<1>3. memory \in [station : Stations, age : Nat] /\ memory.station = "unknown"
      /\ heard \in [station : Stations, for : Nat] /\ heard.station = "unknown" /\ heard.for = 0
  BY <1>1 DEF Stations, NotHeard
<1> QED BY <1>1, <1>2, <1>3, StationAssumption
           DEF TagInv, TagTypes, Follows, Against, RunCounted, ChargedPath, NoDecoder, LongHeard

(* The memory and the path follow the tag with every packet.               *)
LEMMA PacketFact ==
  ASSUME NEW t \in Tags, NEW tick \in BOOLEAN, NEW m \in [station : Stations, age : Nat],
         tick \/ t.station \in {"unknown", m.station}, AfterPacket(t, tick, m)
  PROVE  /\ memory' \in [station : Stations, age : Nat]
         /\ memory'.station = t.station /\ path' = ChargedPath(t.station)
         /\ t.station # "unknown" => memory'.age = IF tick THEN 0 ELSE m.age
<1>1. path' = ChargedPath(t.station)
  BY DEF AfterPacket
<1>2. CASE t.station = "unknown"
  <2>1. memory' = [m EXCEPT !.station = "unknown"]
    BY <1>2, Zenon DEF AfterPacket
  <2> QED BY <1>1, <1>2, <2>1 DEF Stations
<1>3. CASE t.station # "unknown" /\ tick
  <2>1. memory' = [station |-> t.station, age |-> 0]
    BY <1>3, Zenon DEF AfterPacket
  <2> QED BY <1>1, <1>3, <2>1 DEF Tags
<1>4. CASE t.station # "unknown" /\ ~tick
  <2>1. memory' = m
    BY <1>4, Zenon DEF AfterPacket
  <2> QED BY <1>1, <1>4, <2>1
<1> QED BY <1>2, <1>3, <1>4

LEMMA AgedFact ==
  ASSUME NEW m \in [station : Stations, age : Nat]
  PROVE  /\ Aged(m) \in [station : Stations, age : Nat] /\ Aged(m).station = m.station
         /\ Aged(m).age = m.age \/ Aged(m).age = m.age + 1
<1> DEFINE n == IF m.age < StationMemory THEN m.age + 1 ELSE m.age
<1>1. n \in Nat /\ (n = m.age \/ n = m.age + 1)
  OBVIOUS
<1>2. Aged(m) = [m EXCEPT !.age = n]
  BY DEF Aged
<1> HIDE DEF n
<1> QED BY <1>1, <1>2

(* A judged second.                                                        *)
LEMMA JudgedStep ==
  ASSUME TagInv, locked = StationWarm, NEW e \in Evidence,
         NEW timed \in BOOLEAN, NEW together \in BOOLEAN, HeardSecond(e, timed, together)
  PROVE  TagInv' /\ TagMoves
<1> USE StationAssumption
<1> DEFINE v == TickVerdict(e)
           j == JudgeStation(tag, e)
<1>1. tag' = j /\ locked' = locked /\ AfterPacket(j, TRUE, Aged(memory))
      /\ quiet' = (IF Supported(path, e) THEN 0 ELSE UpTo(StationConfirm, quiet))
  <2>1. HearSecond(e, timed, together)
    BY Zenon DEF HeardSecond
  <2>2. quiet' = IF Supported(path, e) THEN 0 ELSE UpTo(StationConfirm, quiet)
    BY Zenon DEF HeardSecond
  <2>3. tag' = j /\ locked' = (IF locked < StationWarm THEN locked + 1 ELSE locked)
        /\ AfterPacket(j, TRUE, Aged(memory))
    BY <2>1, Zenon DEF HearSecond
  <2>4. locked' = locked
    BY <2>3
  <2> QED BY <2>2, <2>3, <2>4, Zenon
<1>2. /\ heard'.station = v
      /\ heard'.for = IF v = "unknown" THEN 0
                      ELSE IF v = heard.station THEN UpTo(LongHeard, heard.for) ELSE 1
      /\ heard' = [station |-> heard'.station, for |-> heard'.for]
  <2> DEFINE f == CASE v = "unknown" -> 0
                    [] v # "unknown" /\ v = heard.station -> UpTo(LongHeard, heard.for)
                    [] OTHER -> 1
  <2>1. heard' = [station |-> v, for |-> f]
    BY Zenon DEF HeardSecond
  <2>2. f = IF v = "unknown" THEN 0 ELSE IF v = heard.station THEN UpTo(LongHeard, heard.for) ELSE 1
    BY Zenon
  <2> HIDE DEF f, v
  <2> QED BY <2>1, <2>2
<1>3. edge' = IF timed THEN [timer |-> TimingTimer(j.station),
                             path |-> IF together THEN path ELSE ChargedPath(j.station)]
              ELSE NoEdge
  BY DEF HeardSecond, HearSecond
<1> HIDE DEF v, j
<1>4. /\ tag \in Tags /\ quiet \in Nat /\ quiet <= StationConfirm
      /\ heard.for \in Nat /\ heard.for <= LongHeard /\ LongHeard \in Nat
      /\ heard.station \in Stations /\ memory \in [station : Stations, age : Nat]
      /\ locked # NoDecoder /\ LongHeard >= StationSwitch
  BY DEF TagInv, TagTypes, LongHeard, NoDecoder
<1>5. /\ v \in Stations /\ j \in Tags
      /\ \/ /\ tag.station = "unknown" /\ v # "unknown" /\ v = tag.pending
            /\ tag.count + 1 >= StationConfirm /\ j.station = v
            /\ j.contrary = 0 /\ j.unsupported = 0
         \/ /\ tag.station = "unknown" /\ v # "unknown" /\ v = tag.pending
            /\ tag.count + 1 < StationConfirm /\ j.station = "unknown" /\ j.pending = v
            /\ j.count = tag.count + 1
            /\ j.contrary = tag.contrary /\ j.unsupported = tag.unsupported
         \/ /\ tag.station = "unknown" /\ (v = "unknown" \/ v # tag.pending)
            /\ j.station = "unknown" /\ j.pending = v
            /\ j.count = (IF v = "unknown" THEN 0 ELSE 1)
            /\ j.contrary = tag.contrary /\ j.unsupported = tag.unsupported
         \/ /\ tag.station # "unknown" /\ Supported(tag.station, e) /\ v \in {"unknown", tag.station}
            /\ j.station = tag.station /\ j.contrary = 0 /\ j.unsupported = 0
         \/ /\ tag.station # "unknown" /\ ~Supported(tag.station, e) /\ v # tag.station
            /\ \/ /\ v # "unknown" /\ tag.contrary + 1 >= StationSwitch
                  /\ j.station = v /\ j.contrary = 0 /\ j.unsupported = 0
               \/ /\ v # "unknown" => tag.contrary + 1 < StationSwitch
                  /\ tag.unsupported + 1 >= StationRelease
                  /\ j = NewTag("unknown")
               \/ /\ j.station = tag.station /\ j.unsupported = tag.unsupported + 1
                  /\ j.contrary = IF v # "unknown" THEN tag.contrary + 1 ELSE 0
                  /\ v # "unknown" => tag.contrary + 1 < StationSwitch
  <2>1. v = TickVerdict(e) /\ j = JudgeStation(tag, e)
    BY DEF v, j
  <2> QED BY <1>4, <2>1, JudgeFact
<1>6. /\ memory' \in [station : Stations, age : Nat] /\ memory'.station = j.station
      /\ path' = ChargedPath(j.station) /\ (j.station # "unknown" => memory'.age = 0)
  <2>1. Aged(memory) \in [station : Stations, age : Nat]
    BY <1>4, AgedFact
  <2> QED BY <1>1, <1>5, <2>1, PacketFact
<1>7. /\ heard'.for \in Nat /\ heard'.for <= LongHeard /\ heard'.station \in Stations
      /\ heard'.station = "unknown" <=> heard'.for = 0
  BY <1>2, <1>4, <1>5 DEF UpTo, TagInv, Follows
<1>8. heard' \in [station : Stations, for : Nat]
  BY <1>2, <1>7
<1>9. quiet' \in Nat /\ quiet' <= StationConfirm
  BY <1>1, <1>4 DEF UpTo
<1>10. TagTypes'
  BY <1>1, <1>4, <1>5, <1>6, <1>7, <1>8, <1>9 DEF TagTypes, LongHeard
<1>11. Follows'
  BY <1>1, <1>4, <1>6, <1>7 DEF Follows, NoDecoder
<1>12. edge'.timer # edge'.path => tag'.station # tag.station
  <2>1. path = ChargedPath(tag.station)
    BY DEF TagInv, Follows
  <2>2. CASE ~timed
    BY <1>3, <2>2 DEF NoEdge
  <2>3. CASE timed
    BY <1>1, <1>3, <2>1, <2>3 DEF TimingTimer, ChargedPath
  <2> QED BY <2>2, <2>3
<1>13. /\ tag.station = "unknown" => path = "wwv"
       /\ tag.station # "unknown" => path = tag.station
  BY <1>4 DEF TagInv, Follows, ChargedPath, Tags, Stations
<1>14. /\ tag.count \in Nat /\ tag.contrary \in Nat /\ tag.unsupported \in Nat
       /\ j.count \in Nat /\ j.contrary \in Nat /\ j.unsupported \in Nat
       /\ tag.station \in Stations /\ tag.pending \in Stations /\ j.station \in Stations
  BY <1>4, <1>5 DEF Tags
<1>15. v = "wwvh" => ~Supported("wwv", e)
  BY DEF v, TickVerdict, Supported
<1>16. CASE tag.station = "unknown"
  <2>1. path' # path => quiet' >= StationConfirm
    BY <1>1, <1>4, <1>5, <1>6, <1>13, <1>14, <1>16, <1>15
       DEF TagInv, Against, UpTo, ChargedPath, Stations
  <2>2. Against'
    BY <1>1, <1>4, <1>5, <1>6, <1>9, <1>13, <1>14, <1>16, <1>15
       DEF TagInv, Against, UpTo
  <2>3. RunCounted'
    BY <1>1, <1>2, <1>4, <1>5, <1>7, <1>14, <1>16
       DEF TagInv, RunCounted, Follows, UpTo
  <2>4. ~({tag.station, tag'.station} = {"wwv", "wwvh"})
    BY <1>16
  <2> QED BY <1>10, <1>11, <1>12, <2>1, <2>2, <2>3, <2>4 DEF TagInv, TagMoves
<1>17. CASE tag.station # "unknown"
  <2>1. j = NewTag("unknown") => /\ j.station = "unknown" /\ j.pending = "unknown"
                                 /\ j.count = 0 /\ j.contrary = 0 /\ j.unsupported = 0
    BY DEF NewTag
  <2>2. path' # path => quiet' >= StationConfirm
    BY <1>1, <1>4, <1>5, <1>6, <1>13, <1>14, <1>17, <2>1
       DEF TagInv, Against, UpTo, ChargedPath, Stations
  <2>3. Against'
    BY <1>1, <1>4, <1>5, <1>6, <1>9, <1>13, <1>14, <1>17, <2>1
       DEF TagInv, Against, UpTo
  <2>4. RunCounted'
    BY <1>1, <1>2, <1>4, <1>5, <1>7, <1>14, <1>17, <2>1
       DEF TagInv, RunCounted, Follows, UpTo, Stations
  <2>5. j.station # tag.station /\ j.station # "unknown" => heard'.for >= StationSwitch
    BY <1>1, <1>2, <1>4, <1>5, <1>7, <1>14, <1>17, <2>1
       DEF TagInv, RunCounted, Follows, UpTo, Stations
  <2>6. {tag.station, tag'.station} = {"wwv", "wwvh"} => j.station # tag.station /\ j.station # "unknown"
    BY <1>1
  <2> QED BY <1>10, <1>11, <1>12, <2>2, <2>3, <2>4, <2>5, <2>6 DEF TagInv, TagMoves
<1> QED BY <1>16, <1>17

(* A second with the tick that is not judged yet.                          *)
LEMMA UnjudgedStep ==
  ASSUME TagInv, locked # StationWarm, NEW e \in Evidence,
         NEW timed \in BOOLEAN, NEW together \in BOOLEAN, HeardSecond(e, timed, together)
  PROVE  TagInv' /\ TagMoves
<1> USE StationAssumption
<1>1. HearSecond(e, timed, together) /\ heard' = heard /\ quiet' = UpTo(StationConfirm, quiet)
  BY Zenon DEF HeardSecond
<1>2. tag' = tag /\ locked' = (IF locked < StationWarm THEN locked + 1 ELSE locked)
      /\ AfterPacket(tag, TRUE, Aged(memory)) /\ locked <= StationWarm
      /\ edge' = IF timed THEN [timer |-> TimingTimer(tag.station),
                                path |-> IF together THEN path ELSE ChargedPath(tag.station)]
                 ELSE NoEdge
  BY <1>1, Zenon DEF HearSecond
<1>3. tag \in Tags /\ memory \in [station : Stations, age : Nat] /\ path = ChargedPath(tag.station)
  BY DEF TagInv, TagTypes, Follows
<1>4. /\ memory' \in [station : Stations, age : Nat] /\ memory'.station = tag.station
      /\ path' = path /\ (tag.station # "unknown" => memory'.age = 0)
  <2>1. Aged(memory) \in [station : Stations, age : Nat]
    BY <1>3, AgedFact
  <2> QED BY <1>2, <1>3, <2>1, PacketFact
<1>5. edge'.timer = edge'.path
  BY <1>2, <1>3 DEF TimingTimer, ChargedPath, NoEdge
<1>6. quiet' \in Nat /\ quiet' <= StationConfirm /\ quiet <= quiet'
  BY <1>1 DEF UpTo, TagInv, TagTypes
<1>7. locked' \in Nat /\ locked' # NoDecoder /\ locked # NoDecoder
  BY <1>2 DEF TagInv, TagTypes, NoDecoder
<1>8. TagTypes' /\ Follows'
  BY <1>1, <1>2, <1>3, <1>4, <1>6, <1>7 DEF TagInv, TagTypes, Follows, LongHeard, NoDecoder
<1>9. Against'
  BY <1>2, <1>3, <1>4, <1>6 DEF TagInv, TagTypes, Against, Tags
<1>10. RunCounted'
  BY <1>1, <1>2, <1>7 DEF TagInv, RunCounted, NoDecoder
<1>11. ~({tag.station, tag'.station} = {"wwv", "wwvh"})
  BY <1>2
<1> QED BY <1>4, <1>5, <1>8, <1>9, <1>10, <1>11 DEF TagInv, TagMoves

(* A second without one.                                                   *)
LEMMA IdleStep == ASSUME TagInv, UnheardSecond PROVE TagInv' /\ TagMoves
<1> USE StationAssumption
<1>1. /\ memory' = Aged(memory) /\ UNCHANGED <<tag, locked, path, edge, heard>>
      /\ quiet' = UpTo(StationConfirm, quiet)
  BY DEF UnheardSecond, IdleSecond
<1>2. /\ memory' \in [station : Stations, age : Nat] /\ memory'.station = memory.station
      /\ memory'.age = memory.age \/ memory'.age = memory.age + 1
      /\ memory.age \in Nat
  BY <1>1, AgedFact DEF TagInv, TagTypes
<1>3. quiet' \in Nat /\ quiet \in Nat /\ quiet <= StationConfirm
      /\ quiet' = IF quiet < StationConfirm THEN quiet + 1 ELSE quiet
  BY <1>1 DEF UpTo, TagInv, TagTypes
<1>4. TagTypes' /\ Follows'
  BY <1>1, <1>2, <1>3 DEF TagInv, TagTypes, Follows, LongHeard, NoDecoder
<1>5. Against'
  BY <1>1, <1>2, <1>3 DEF TagInv, TagTypes, Against, Tags
<1>6. RunCounted'
  BY <1>1 DEF TagInv, RunCounted, NoDecoder
<1>7. ~({tag.station, tag'.station} = {"wwv", "wwvh"})
  BY <1>1
<1> QED BY <1>1, <1>4, <1>5, <1>6, <1>7 DEF TagInv, TagMoves

(* The decoder goes, or the tick; what was heard goes with the decoder.    *)
LEMMA LoseStep ==
  ASSUME TagInv, (LoseDecoder /\ heard' = NotHeard /\ UNCHANGED quiet)
                 \/ (LoseTick /\ UNCHANGED <<heard, quiet>>)
  PROVE  TagInv' /\ TagMoves
<1> USE StationAssumption
<1>1. UNCHANGED <<tag, memory, path, quiet>> /\ locked' \in Nat
      /\ (edge' = edge \/ edge' = NoEdge)
      /\ ((locked' = NoDecoder /\ heard' = NotHeard)
          \/ (locked # NoDecoder /\ locked' # NoDecoder /\ heard' = heard))
  BY DEF LoseDecoder, LoseTick, NoDecoder, NoTick, TagInv, TagTypes
<1>2. NotHeard \in [station : Stations, for : Nat] /\ NotHeard.for = 0 /\ NotHeard.station = "unknown"
  BY DEF NotHeard, Stations
<1>3. LongHeard \in Nat
  BY DEF LongHeard
<1>4. TagTypes' /\ Follows'
  BY <1>1, <1>2, <1>3 DEF TagInv, TagTypes, Follows, LongHeard, NoDecoder
<1>5. Against'
  BY <1>1 DEF TagInv, Against
<1>6. RunCounted'
  BY <1>1 DEF TagInv, RunCounted, NoDecoder
<1>7. ~({tag.station, tag'.station} = {"wwv", "wwvh"})
  BY <1>1
<1>8. NoEdge.timer = NoEdge.path
  BY DEF NoEdge
<1> QED BY <1>1, <1>4, <1>5, <1>6, <1>7, <1>8 DEF TagInv, TagMoves

(* A tick is found: the packet that brings it changes nothing else.        *)
LEMMA LockStep ==
  ASSUME TagInv, LockTick, UNCHANGED <<heard, quiet>>
  PROVE  TagInv' /\ TagMoves
<1> USE StationAssumption
<1>1. locked' = 0 /\ locked = NoTick /\ AfterPacket(tag, TRUE, memory)
      /\ UNCHANGED <<tag, edge, heard, quiet>>
  BY DEF LockTick
<1>2. tag \in Tags /\ memory \in [station : Stations, age : Nat] /\ path = ChargedPath(tag.station)
  BY DEF TagInv, TagTypes, Follows
<1>3. /\ memory' \in [station : Stations, age : Nat] /\ memory'.station = tag.station
      /\ path' = path /\ (tag.station # "unknown" => memory'.age = 0)
  BY <1>1, <1>2, PacketFact
<1>4. locked # NoDecoder /\ locked' # NoDecoder
  BY <1>1 DEF NoDecoder, NoTick
<1>5. TagTypes' /\ Follows'
  BY <1>1, <1>2, <1>3, <1>4 DEF TagInv, TagTypes, Follows, LongHeard, NoDecoder
<1>6. Against'
  BY <1>1, <1>3 DEF TagInv, TagTypes, Against, Tags
<1>7. RunCounted'
  BY <1>1, <1>4 DEF TagInv, RunCounted, NoDecoder
<1>8. ~({tag.station, tag'.station} = {"wwv", "wwvh"})
  BY <1>1
<1> QED BY <1>1, <1>3, <1>5, <1>6, <1>7, <1>8 DEF TagInv, TagMoves

(* A new decoder starts with the tag the last one held, or with none.      *)
LEMMA StartStep ==
  ASSUME TagInv, StartDecoder, UNCHANGED <<heard, quiet>>
  PROVE  TagInv' /\ TagMoves
<1> USE StationAssumption
<1> DEFINE s == IF memory.station # "unknown" /\ memory.age < StationMemory THEN memory.station
                ELSE "unknown"
           t == CarriedOver
<1>1. locked = NoDecoder /\ tag' = t /\ locked' = NoTick /\ edge' = NoEdge
      /\ AfterPacket(t, FALSE, memory) /\ UNCHANGED <<heard, quiet>>
  BY DEF StartDecoder
<1>2. tag \in Tags /\ memory \in [station : Stations, age : Nat] /\ memory.age \in Nat
      /\ path = ChargedPath(tag.station) /\ memory.station = tag.station
  BY DEF TagInv, TagTypes, Follows
<1>3. s \in Stations /\ s \in {"unknown", memory.station}
  BY <1>2 DEF Stations
<1>4. t = NewTag(s)
  BY DEF CarriedOver
<1> HIDE DEF t
<1>5. s = "unknown" => memory.station = "unknown" \/ memory.age >= StationMemory
  BY <1>2
<1> HIDE DEF s
<1>6. t \in Tags /\ t.station = s /\ t.pending = "unknown" /\ t.count = 0 /\ t.contrary = 0
      /\ t.unsupported = 0
  BY <1>3, <1>4 DEF NewTag, Tags, Stations
<1>7. /\ memory' \in [station : Stations, age : Nat] /\ memory'.station = s
      /\ path' = ChargedPath(s) /\ (s # "unknown" => memory'.age = memory.age)
  BY <1>1, <1>2, <1>3, <1>6, PacketFact
<1>8. heard.for = 0 /\ locked' \in Nat /\ locked' # NoDecoder
  BY <1>1 DEF TagInv, Follows, NoTick, NoDecoder
<1>9. TagTypes' /\ Follows'
  BY <1>1, <1>6, <1>7, <1>8 DEF TagInv, TagTypes, Follows, LongHeard, NoDecoder
<1>10. Against'
  BY <1>1, <1>2, <1>3, <1>6, <1>7 DEF TagInv, TagTypes, Against
<1>11. RunCounted'
  BY <1>1, <1>6, <1>8 DEF RunCounted
<1>12. ~({tag.station, tag'.station} = {"wwv", "wwvh"})
  BY <1>1, <1>2, <1>3, <1>6
<1>13. path' # path => quiet' >= StationConfirm
  BY <1>1, <1>2, <1>3, <1>5, <1>7 DEF TagInv, TagTypes, Against, ChargedPath
<1>14. NoEdge.timer = NoEdge.path
  BY DEF NoEdge
<1> QED BY <1>1, <1>9, <1>10, <1>11, <1>12, <1>13, <1>14 DEF TagInv, TagMoves

LEMMA TagInvStep ==
  ASSUME TagInv, [Next]_vars
  PROVE  TagInv' /\ (UNCHANGED tagAll \/ TagMoves)
<1>1. CASE UNCHANGED tagAll
  BY <1>1 DEF tagAll, tagVars, TagInv, TagTypes, Follows, Against, RunCounted
<1>2. ASSUME NEW e \in Evidence, NEW timed \in BOOLEAN, NEW together \in BOOLEAN,
             HeardSecond(e, timed, together)
      PROVE  TagInv' /\ TagMoves
  BY <1>2, JudgedStep, UnjudgedStep
<1>3. CASE TagStep
  BY <1>2, <1>3, IdleStep, LoseStep, LockStep, StartStep, Zenon DEF TagStep
<1>4. UNCHANGED vars => UNCHANGED tagAll
  BY DEF vars
<1>5. TimingStep \/ StreamStep \/ HoldStep \/ TripStep => UNCHANGED tagAll
  BY DEF TimingStep, StreamStep, HoldStep, TripStep
<1> QED BY <1>1, <1>3, <1>4, <1>5, Zenon DEF Next

(* The path charged is the heard station's, for every warm-up, every       *)
(* length of the runs that confirm, switch or release a tag and that the   *)
(* memory of it lasts, and whatever is heard, lost and reconnected.        *)
THEOREM PathIsHeard == Spec => PathIsTheStations
<1> DEFINE P == heard.for >= LongHeard => tag.station = heard.station /\ path = heard.station
<1>1. TagInv => P
  <2> SUFFICES ASSUME TagInv, heard.for >= LongHeard
               PROVE  tag.station = heard.station /\ path = heard.station
    OBVIOUS
  <2>1. /\ heard.for > 0 /\ heard.station # "unknown" /\ locked # NoDecoder
        /\ heard.for >= StationSwitch + (StationConfirm - 1) /\ heard.station \in Stations
        /\ tag \in Tags /\ heard.for \in Nat
    BY StationAssumption DEF TagInv, TagTypes, Follows, LongHeard
  <2>2. tag.station # "unknown"
    BY <2>1, StationAssumption DEF TagInv, Against, RunCounted, Tags
  <2>3. tag.station = heard.station
    BY <2>1, <2>2, StationAssumption DEF TagInv, Against, RunCounted, Tags
  <2> QED BY <2>1, <2>3 DEF TagInv, Follows, ChargedPath, Stations
<1>2. TagInv /\ [Next]_vars => TagInv'
  BY TagInvStep
<1>3. TagInv /\ [Next]_vars =>
        /\ [{tag.station, tag'.station} = {"wwv", "wwvh"} => heard'.for >= StationSwitch]_vars
        /\ [path' # path => quiet' >= StationConfirm]_vars
        /\ [edge'.timer # edge'.path => edge' = edge \/ tag'.station # tag.station]_vars
  <2>1. UNCHANGED tagAll => /\ ~({tag.station, tag'.station} = {"wwv", "wwvh"})
                            /\ path' = path /\ edge' = edge
    BY DEF tagAll, tagVars
  <2> QED BY <2>1, TagInvStep DEF TagMoves
<1> HIDE DEF P
<1>4. Spec => []P
  BY <1>1, <1>2, TagInvInit, PTL DEF Spec
<1>5. Spec => /\ [][{tag.station, tag'.station} = {"wwv", "wwvh"} => heard'.for >= StationSwitch]_vars
              /\ [][path' # path => quiet' >= StationConfirm]_vars
              /\ [][edge'.timer # edge'.path => edge' = edge \/ tag'.station # tag.station]_vars
  BY <1>2, <1>3, TagInvInit, PTL DEF Spec
<1> QED BY <1>4, <1>5 DEF PathIsTheStations, P
-----------------------------------------------------------------------------
(* The published level through a jitter spike.  Window is how long the     *)
(* source has been noisy with a live level that does not move; a level     *)
(* held, or still being slewed out of, is at odds with the live one for no *)
(* longer than its age, its hold and its slew explain.                     *)
Window == IF noisy < still THEN noisy ELSE still

HoldTypes ==
  /\ ref \in Nat /\ live \in Int /\ published \in Int /\ records \in Nat
  /\ calm \in [have : BOOLEAN, at : Int, level : Int]
  /\ hold \in [on : BOOLEAN, from : Int, calmSince : Int]
  /\ gap \in Int /\ slew \in Nat /\ noisy \in Nat /\ still \in Nat

Published ==
  /\ hold.on => published = calm.level /\ records >= BaselineMin
  /\ ~hold.on => published = live + gap
  /\ records < BaselineMin => gap = 0

Dated ==
  /\ calm.have => calm.at <= ref
  /\ hold.on => ref - hold.from \in 0..MaxHold

SlewLeft(t) ==
  /\ Mag(gap) <= slew * (Rejoin - t)
  /\ Window <= MaxCalmAge + MaxHold + MaxGapTime + t

OddsExplained ==
  /\ ~hold.on /\ calm.have /\ calm.level # live => Window <= ref - calm.at
  /\ hold.on /\ calm.level # live => Window <= ref - hold.from + MaxCalmAge
  /\ ~hold.on /\ gap # 0 => \E t \in 0..Rejoin : SlewLeft(t)

HoldInv == HoldTypes /\ Published /\ Dated /\ OddsExplained
LEMMA HoldConstants ==
  /\ BaselineMin \in Nat /\ MaxCalmAge \in Nat /\ CalmToRelease \in Nat /\ MaxHold \in Nat
  /\ MinSlew \in Nat /\ MaxRef \in Nat /\ Rejoin \in Nat \ {0} /\ MaxGapTime \in Nat \ {0}
  BY HoldAssumption

LEMMA HoldInvInit == Init => HoldInv
<1> SUFFICES ASSUME Init PROVE HoldInv
  OBVIOUS
<1>1. ref = 0 /\ live \in Levels /\ published = live /\ records = 0 /\ calm = NoCalm
      /\ hold = NoHold /\ gap = 0 /\ slew = 0 /\ noisy = 0 /\ still = 0
  BY DEF Init, HoldInit
<1>2. calm \in [have : BOOLEAN, at : Int, level : Int] /\ ~calm.have
      /\ hold \in [on : BOOLEAN, from : Int, calmSince : Int] /\ ~hold.on
  BY <1>1 DEF NoCalm, NoHold
<1> QED BY <1>1, <1>2, HoldAssumption DEF HoldInv, HoldTypes, Published, Dated, OddsExplained

(* The gap is slewed towards nothing and never past it.                    *)
LEMMA SlewedFact ==
  ASSUME gap \in Int, slew \in Nat, NEW dt \in Nat, NEW p, p = slew * dt
  PROVE  /\ p \in Nat /\ Slewed(dt) \in Int
         /\ Mag(Slewed(dt) - gap) <= p
         /\ Slewed(dt) # 0 => gap # 0 /\ Mag(Slewed(dt)) = Mag(gap) - p
<1>1. p \in Nat
  OBVIOUS
<1> DEFINE s == Slewed(dt)
<1>2. Mag(gap) <= p => s = 0
  <2>1. Mag(gap) <= p => ~(gap > p)
    BY <1>1 DEF Mag
  <2> QED BY <2>1, Zenon DEF Slewed
<1>3. gap > p => s = gap - p
  <2>1. gap > p => ~(Mag(gap) <= p)
    BY <1>1 DEF Mag
  <2> QED BY <2>1, Zenon DEF Slewed
<1>4. ~(Mag(gap) <= p) /\ ~(gap > p) => s = gap + p
  BY Zenon DEF Slewed
<1> HIDE DEF s
<1>5. s \in Int /\ Mag(s - gap) <= p /\ (s # 0 => gap # 0 /\ Mag(s) = Mag(gap) - p)
  BY <1>1, <1>2, <1>3, <1>4 DEF Mag
<1> QED BY <1>1, <1>5 DEF s

LEMMA SlewForFact ==
  ASSUME NEW g \in Int
  PROVE  SlewFor(g) \in Nat /\ Mag(g) <= SlewFor(g) * Rejoin
<1>1. Mag(g) \in Nat
  BY DEF Mag
<1> DEFINE x == Mag(g) + Rejoin - 1
           q == x \div Rejoin
<1>2. \A y \in Nat, r \in Nat \ {0} : y < (y \div r) * r + r /\ y \div r \in Nat
  OBVIOUS
<1>3. \A a, b, c \in Nat : a <= b => a * c <= b * c
  OBVIOUS
<1>4. x \in Nat
  BY <1>1, HoldConstants
<1>5. x < q * Rejoin + Rejoin /\ q \in Nat
  BY <1>2, <1>4, HoldConstants
<1>6. SlewFor(g) = IF q > MinSlew THEN q ELSE MinSlew
  BY DEF SlewFor
<1>7. Mag(g) <= q * Rejoin
  <2> DEFINE m == q * Rejoin
  <2>1. m \in Nat
    BY <1>5, HoldConstants
  <2>2. x < m + Rejoin
    BY <1>5
  <2> HIDE DEF m
  <2>3. Mag(g) <= m
    BY <1>1, <2>1, <2>2, HoldConstants
  <2> QED BY <2>3 DEF m
<1> HIDE DEF q, x
<1>8. q <= SlewFor(g) /\ SlewFor(g) \in Nat
  BY <1>5, <1>6, HoldConstants
<1>9. q * Rejoin <= SlewFor(g) * Rejoin
  BY <1>3, <1>5, <1>8, HoldConstants
<1>10. q * Rejoin \in Int /\ SlewFor(g) * Rejoin \in Int
  BY <1>5, <1>8, HoldConstants
<1> QED BY <1>1, <1>7, <1>8, <1>9, <1>10

(* Time passes for the window no faster than for the clock.                *)
LEMMA WindowFact ==
  ASSUME HoldTypes, NEW l, NEW j, NEW dt \in Nat, Sample(l, j, dt)
  PROVE  /\ noisy' \in Nat /\ still' \in Nat /\ Window \in Nat
         /\ Window' <= Window + dt /\ Window' \in Nat
         /\ l # live => Window' = 0
         /\ j = "calm" => Window' = 0
  BY DEF Sample, Window, HoldTypes

HoldMoves ==
  records' # 0 /\ (hold.on \/ ~hold'.on) =>
    Mag(published' - published) <= IF hold.on THEN 0 ELSE Mag(live' - live) + slew * (ref' - ref)

LEMMA FollowStep ==
  ASSUME HoldInv, NEW l \in Int, NEW j, NEW dt \in Nat \ {0}, Sample(l, j, dt), Follow(l, j, dt)
  PROVE  HoldInv' /\ HoldMoves
<1> USE HoldConstants
<1> DEFINE s == Slewed(dt)
           p == slew * dt
<1>1. /\ ~hold.on /\ ref' = ref + dt /\ live' = l /\ gap' = s /\ slew' = slew
      /\ records' = IF records < BaselineMin THEN records + 1 ELSE records
  BY DEF Follow
<1>2. /\ ref \in Nat /\ live \in Int /\ published \in Int /\ records \in Nat /\ gap \in Int
      /\ slew \in Nat /\ calm \in [have : BOOLEAN, at : Int, level : Int]
      /\ hold \in [on : BOOLEAN, from : Int, calmSince : Int] /\ HoldTypes
  BY DEF HoldInv, HoldTypes
<1>3. /\ p \in Nat /\ s \in Int /\ Mag(s - gap) <= p
      /\ s # 0 => gap # 0 /\ Mag(s) = Mag(gap) - p
  BY <1>2, SlewedFact
<1> HIDE DEF s, p
<1>4. /\ noisy' \in Nat /\ still' \in Nat /\ Window \in Nat /\ Window' \in Nat
      /\ Window' <= Window + dt /\ (l # live => Window' = 0) /\ (j = "calm" => Window' = 0)
  BY <1>2, WindowFact
<1>5. calm.have /\ calm.level # l => Window' <= ref' - calm.at
  BY <1>1, <1>2, <1>4 DEF HoldInv, OddsExplained, Dated
<1>6. /\ calm.at \in Int /\ calm.level \in Int
  BY <1>2
<1>7. CASE Starts(j, ref + dt)
  <2>1. /\ hold' = [on |-> TRUE, from |-> ref + dt, calmSince |-> -1]
        /\ published' = calm.level /\ calm' = calm
    BY <1>7 DEF Follow
  <2>2. hold'.on /\ hold'.from = ref' /\ hold' \in [on : BOOLEAN, from : Int, calmSince : Int]
    BY <1>1, <1>2, <2>1
  <2>3. records >= BaselineMin /\ calm.have /\ ref' - calm.at <= MaxCalmAge
    BY <1>1, <1>7 DEF Starts
  <2>4. HoldTypes'
    BY <1>1, <1>2, <1>3, <1>4, <1>6, <2>1, <2>2 DEF HoldTypes
  <2>5. Published'
    BY <1>1, <1>2, <2>1, <2>2, <2>3 DEF Published
  <2>6. Dated'
    BY <1>1, <1>2, <1>6, <2>1, <2>2 DEF Dated, HoldInv
  <2>7. OddsExplained'
    BY <1>1, <1>2, <1>4, <1>5, <1>6, <2>1, <2>2, <2>3 DEF OddsExplained
  <2>8. HoldMoves
    BY <1>1, <2>2 DEF HoldMoves
  <2> QED BY <2>4, <2>5, <2>6, <2>7, <2>8 DEF HoldInv
<1>8. CASE ~Starts(j, ref + dt)
  <2>1. published' = l + s /\ NewCalm(j, ref + dt, l + s) /\ hold' = hold
    BY <1>8 DEF Follow, s
  <2>2. \/ calm' = [have |-> TRUE, at |-> ref + dt, level |-> l + s]
           /\ (records < BaselineMin \/ j = "calm")
        \/ calm' = calm
    BY <2>1 DEF NewCalm
  <2>3. calm' \in [have : BOOLEAN, at : Int, level : Int]
    <3>1. \A a, b \in Int : [have |-> TRUE, at |-> a, level |-> b] \in [have : BOOLEAN, at : Int, level : Int]
      BY Zenon
    <3>2. ref + dt \in Int /\ l + s \in Int
      BY <1>2, <1>3
    <3>3. [have |-> TRUE, at |-> ref + dt, level |-> l + s] \in [have : BOOLEAN, at : Int, level : Int]
      BY <3>1, <3>2, Zenon
    <3>4. CASE calm' = calm
      BY <1>2, <3>4, Zenon
    <3>5. CASE calm' = [have |-> TRUE, at |-> ref + dt, level |-> l + s]
      BY <3>3, <3>5, Zenon
    <3> QED BY <2>2, <3>4, <3>5, Zenon
  <2>4. HoldTypes'
    BY <1>1, <1>2, <1>3, <1>4, <2>1, <2>3 DEF HoldTypes
  <2>5. records < BaselineMin => s = 0
    BY <1>3 DEF HoldInv, Published
  <2>6. Published'
    BY <1>1, <1>2, <1>3, <2>1, <2>5 DEF Published
  <2>7. Dated'
    BY <1>1, <1>2, <1>6, <2>1, <2>2 DEF Dated, HoldInv
  <2>8. calm'.have /\ calm'.level # live' => Window' <= ref' - calm'.at
    <3>1. CASE calm' = calm
      BY <1>1, <1>5, <3>1
    <3>2. CASE calm' = [have |-> TRUE, at |-> ref + dt, level |-> l + s]
               /\ (records < BaselineMin \/ j = "calm")
      BY <1>1, <1>2, <1>3, <1>4, <2>5, <3>2
    <3> QED BY <2>2, <3>1, <3>2
  <2>9. gap' # 0 => (\E t \in 0..Rejoin : SlewLeft(t))'
    <3> SUFFICES ASSUME gap' # 0 PROVE (\E t \in 0..Rejoin : SlewLeft(t))'
      OBVIOUS
    <3>1. s # 0 /\ gap # 0 /\ Mag(s) = Mag(gap) - p
      BY <1>1, <1>3
    <3>2. PICK t \in 0..Rejoin : SlewLeft(t)
      BY <1>1, <3>1 DEF HoldInv, OddsExplained
    <3> DEFINE u == slew * (Rejoin - t)
               w == slew * (Rejoin - (t + dt))
    <3>3. w = u - p /\ u \in Int /\ w \in Int
      BY <1>2 DEF p
    <3>4. w > 0 => Rejoin - (t + dt) > 0
      BY <1>2
    <3>5. Mag(gap) <= u /\ Window <= MaxCalmAge + MaxHold + MaxGapTime + t
      BY <3>2 DEF SlewLeft
    <3> HIDE DEF u, w
    <3>6. Mag(s) <= w /\ Mag(s) > 0
      BY <1>2, <1>3, <3>1, <3>3, <3>5 DEF Mag
    <3>7. w > 0
      BY <1>3, <3>3, <3>6 DEF Mag
    <3>8. t + dt \in 0..Rejoin
      BY <3>4, <3>7
    <3>9. Window' <= MaxCalmAge + MaxHold + MaxGapTime + (t + dt)
      BY <1>4, <3>5
    <3>10. Mag(gap') <= slew' * (Rejoin - (t + dt))
      BY <1>1, <3>6 DEF w
    <3> QED BY <3>8, <3>9, <3>10 DEF SlewLeft
  <2>10. OddsExplained'
    BY <1>1, <2>1, <2>8, <2>9 DEF OddsExplained
  <2>11. HoldMoves
    <3>1. published = live + gap
      BY <1>1 DEF HoldInv, Published
    <3>2. Mag(published' - published) <= Mag(live' - live) + p
      BY <1>1, <1>2, <1>3, <2>1, <3>1 DEF Mag
    <3>3. ref' - ref = dt
      BY <1>1, <1>2
    <3> QED BY <1>1, <3>2, <3>3 DEF HoldMoves, p
  <2> QED BY <2>4, <2>6, <2>7, <2>10, <2>11 DEF HoldInv
<1> QED BY <1>7, <1>8

LEMMA HoldingStep ==
  ASSUME HoldInv, NEW l \in Int, NEW j, NEW dt \in Nat \ {0}, dt <= MaxGapTime,
         Sample(l, j, dt), Hold(l, j, dt)
  PROVE  HoldInv' /\ HoldMoves
<1> USE HoldConstants
<1> DEFINE since == CalmSince(j, ref + dt)
           over  == Settled(since, ref + dt) \/ Expired(ref + dt)
<1>1. /\ hold.on /\ ref' = ref + dt /\ live' = l /\ published' = calm.level /\ records' = records
  BY DEF Hold
<1>2. /\ ref \in Nat /\ live \in Int /\ published \in Int /\ records \in Nat /\ gap \in Int
      /\ slew \in Nat /\ calm \in [have : BOOLEAN, at : Int, level : Int]
      /\ hold \in [on : BOOLEAN, from : Int, calmSince : Int] /\ HoldTypes
  BY DEF HoldInv, HoldTypes
<1>3. calm.at \in Int /\ calm.level \in Int /\ hold.from \in Int
  BY <1>2
<1>4. /\ noisy' \in Nat /\ still' \in Nat /\ Window \in Nat /\ Window' \in Nat
      /\ Window' <= Window + dt /\ (l # live => Window' = 0) /\ (j = "calm" => Window' = 0)
  BY <1>2, WindowFact
<1>5. /\ published = calm.level /\ records >= BaselineMin
      /\ ref - hold.from >= 0 /\ ref - hold.from <= MaxHold
      /\ calm.have => calm.at <= ref
  BY <1>1 DEF HoldInv, Published, Dated
<1>6. calm.level # l => Window' <= (ref - hold.from) + MaxCalmAge + dt
  BY <1>1, <1>2, <1>3, <1>4, <1>5 DEF HoldInv, OddsExplained
<1>7. HoldMoves
  BY <1>1, <1>2, <1>3, <1>5 DEF HoldMoves, Mag
<1>8. CASE over
  <2>1. hold' = NoHold /\ gap' = calm.level - l /\ slew' = SlewFor(calm.level - l) /\ calm' = NoCalm
    BY <1>8 DEF Hold
  <2>2. hold' \in [on : BOOLEAN, from : Int, calmSince : Int] /\ ~hold'.on
        /\ calm' \in [have : BOOLEAN, at : Int, level : Int] /\ ~calm'.have
    BY <2>1 DEF NoHold, NoCalm
  <2>3. gap' \in Int /\ slew' \in Nat /\ Mag(gap') <= slew' * Rejoin
    BY <1>3, <2>1, SlewForFact
  <2>4. HoldTypes'
    BY <1>1, <1>2, <1>3, <1>4, <2>2, <2>3 DEF HoldTypes
  <2>5. Published'
    BY <1>1, <1>2, <1>3, <1>5, <2>1, <2>2 DEF Published
  <2>6. Dated'
    BY <2>2 DEF Dated
  <2>7. gap' # 0 => (\E t \in 0..Rejoin : SlewLeft(t))'
    <3>1. gap' # 0 => Window' <= MaxCalmAge + MaxHold + MaxGapTime + 0
      BY <1>2, <1>3, <1>4, <1>5, <1>6, <2>1
    <3>2. Rejoin - 0 = Rejoin
      OBVIOUS
    <3>3. gap' # 0 => SlewLeft(0)'
      BY <2>3, <3>1, <3>2 DEF SlewLeft
    <3> QED BY <3>3
  <2>8. OddsExplained'
    BY <2>2, <2>7 DEF OddsExplained
  <2> QED BY <1>7, <2>4, <2>5, <2>6, <2>8 DEF HoldInv
<1>9. CASE ~over
  <2>1. hold' = [hold EXCEPT !.calmSince = since] /\ gap' = Slewed(dt) /\ slew' = slew /\ calm' = calm
    BY <1>9 DEF Hold
  <2>2. since \in Int
    BY <1>2 DEF CalmSince
  <2> HIDE DEF since
  <2>3. hold' \in [on : BOOLEAN, from : Int, calmSince : Int] /\ hold'.on /\ hold'.from = hold.from
    BY <1>1, <1>2, <2>1, <2>2
  <2>4. Slewed(dt) \in Int
    BY <1>2, SlewedFact
  <2>5. (ref + dt) - hold.from < MaxHold
    BY <1>2, <1>3, <1>9 DEF Expired
  <2>6. HoldTypes'
    BY <1>1, <1>2, <1>3, <1>4, <2>1, <2>3, <2>4 DEF HoldTypes
  <2>7. Published'
    BY <1>1, <1>2, <1>5, <2>1, <2>3 DEF Published
  <2>8. Dated'
    BY <1>1, <1>2, <1>3, <1>5, <2>1, <2>3, <2>5 DEF Dated
  <2>9. OddsExplained'
    BY <1>1, <1>2, <1>3, <1>4, <1>6, <2>1, <2>3 DEF OddsExplained
  <2> QED BY <1>7, <2>6, <2>7, <2>8, <2>9 DEF HoldInv
<1> QED BY <1>8, <1>9

LEMMA ClearStep ==
  ASSUME HoldInv, ClearHold, UNCHANGED <<noisy, still>>
  PROVE  HoldInv' /\ HoldMoves
<1> USE HoldConstants
<1>1. published' = live /\ records' = 0 /\ calm' = NoCalm /\ hold' = NoHold /\ gap' = 0 /\ slew' = 0
      /\ ref' = ref /\ live' = live /\ noisy' = noisy /\ still' = still
  BY DEF ClearHold
<1>2. hold' \in [on : BOOLEAN, from : Int, calmSince : Int] /\ ~hold'.on
      /\ calm' \in [have : BOOLEAN, at : Int, level : Int] /\ ~calm'.have
  BY <1>1 DEF NoHold, NoCalm
<1>3. HoldTypes' /\ Published' /\ Dated' /\ OddsExplained'
  BY <1>1, <1>2 DEF HoldInv, HoldTypes, Published, Dated, OddsExplained
<1> QED BY <1>1, <1>3 DEF HoldInv, HoldMoves

LEMMA HoldInvStep ==
  ASSUME HoldInv, [Next]_vars
  PROVE  HoldInv' /\ (UNCHANGED vars \/ part # "hold" \/ HoldMoves)
<1>1. ASSUME UNCHANGED holdAll PROVE HoldInv'
  <2>1. UNCHANGED <<ref, live, published, records, calm, hold, gap, slew, noisy, still>>
    BY <1>1 DEF holdAll, holdVars
  <2>2. HoldTypes' /\ Published' /\ Dated'
    BY <2>1, Zenon DEF HoldInv, HoldTypes, Published, Dated
  <2>3. Window' = Window /\ \A t : SlewLeft(t)' <=> SlewLeft(t)
    BY <2>1, Zenon DEF SlewLeft, Window
  <2>4. OddsExplained'
    BY <2>1, <2>3, Zenon DEF HoldInv, OddsExplained
  <2> QED BY <2>2, <2>4 DEF HoldInv
<1>2. ASSUME NEW l \in Levels, NEW j \in Jitters, NEW dt \in 1..MaxGapTime, Sample(l, j, dt)
      PROVE  HoldInv' /\ HoldMoves
  <2>1. l \in Int /\ dt \in Nat \ {0} /\ dt <= MaxGapTime
    BY HoldAssumption, HoldConstants
  <2>2. Follow(l, j, dt) \/ Hold(l, j, dt)
    BY <1>2 DEF Sample
  <2> QED BY <1>2, <2>1, <2>2, FollowStep, HoldingStep
<1>3. CASE HoldStep
  BY <1>2, <1>3, ClearStep, Zenon DEF HoldStep
<1>4. UNCHANGED vars => UNCHANGED holdAll
  BY DEF vars
<1>5. TimingStep \/ StreamStep \/ TagStep \/ TripStep => UNCHANGED holdAll /\ part # "hold"
  BY DEF TimingStep, StreamStep, TagStep, TripStep
<1> QED BY <1>1, <1>3, <1>4, <1>5, Zenon DEF Next

(* A hold through a jitter spike ends, and ends gently, for every set of   *)
(* levels, every baseline, age, length of hold and slew, and every pattern *)
(* of samples.                                                             *)
THEOREM HoldsEndGently == Spec => HoldEndsGently
<1> DEFINE P == noisy >= HoldOver /\ still >= HoldOver => published = live
           A == part = "hold" /\ records' # 0 /\ (hold.on \/ ~hold'.on) =>
                  Mag(published' - published) <=
                    IF hold.on THEN 0 ELSE Mag(live' - live) + slew * (ref' - ref)
<1>1. HoldInv => P
  <2> SUFFICES ASSUME HoldInv, noisy >= HoldOver, still >= HoldOver PROVE published = live
    OBVIOUS
  <2> USE HoldConstants
  <2>1. Window >= HoldOver /\ Window \in Nat /\ HoldTypes
    BY DEF Window, HoldInv, HoldTypes
  <2>2. HoldOver = MaxCalmAge + MaxHold + Rejoin + MaxGapTime
    BY DEF HoldOver
  <2>3. CASE hold.on
    <3>1. ref - hold.from <= MaxHold /\ hold.from \in Int /\ ref \in Nat
      BY <2>1, <2>3 DEF HoldInv, Dated, HoldTypes
    <3>2. calm.level = live
      BY <2>1, <2>2, <2>3, <3>1 DEF HoldInv, OddsExplained
    <3> QED BY <2>3, <3>2 DEF HoldInv, Published
  <2>4. CASE ~hold.on
    <3>1. gap = 0
      <4> SUFFICES ASSUME gap # 0 PROVE FALSE
        OBVIOUS
      <4>1. PICK t \in 0..Rejoin : SlewLeft(t)
        BY <2>4 DEF HoldInv, OddsExplained
      <4>2. gap \in Int /\ slew \in Nat
        BY <2>1 DEF HoldTypes
      <4>3. Mag(gap) > 0 /\ Mag(gap) \in Int
        BY <4>2 DEF Mag
      <4>4. slew * (Rejoin - t) > 0 => Rejoin - t > 0
        BY <4>2
      <4>5. slew * (Rejoin - t) \in Int
        BY <4>2
      <4>6. slew * (Rejoin - t) > 0
        BY <4>1, <4>3, <4>5 DEF SlewLeft
      <4>7. t < Rejoin
        BY <4>4, <4>6
      <4>8. Window <= MaxCalmAge + MaxHold + MaxGapTime + t
        BY <4>1 DEF SlewLeft
      <4> QED BY <2>1, <2>2, <4>7, <4>8
    <3> QED BY <2>1, <2>4, <3>1 DEF HoldInv, Published, HoldTypes
  <2> QED BY <2>3, <2>4
<1>2. HoldInv /\ [Next]_vars => HoldInv'
  BY HoldInvStep
<1>3. HoldInv /\ [Next]_vars => [A]_vars
  BY HoldInvStep, Zenon DEF HoldMoves
<1> HIDE DEF P, A
<1>4. Spec => []P /\ [][A]_vars
  BY <1>1, <1>2, <1>3, HoldInvInit, PTL DEF Spec
<1> QED BY <1>4 DEF HoldEndsGently, P, A
-----------------------------------------------------------------------------
(* The sample count against the stream.  Missing is what has been lost and *)
(* not filled in, Even what a stamp that is not late reads when nothing is *)
(* missing, Over how far the open block's minimum is above that.           *)
Missing == Frame * sent - written
Even    == shift - origin.at
Over    == blk.min - Even

(* The frames a block has room for; Run is what the stream has run since   *)
(* the open block started, at least.                                       *)
BlockFrames == BlockLen \div Frame + 1 + MaxJitter
Run == Frame * sent + shift + Frame * MaxJitter - blk.start

StreamTypes ==
  /\ sent \in Nat /\ written \in Nat /\ shift \in {0, Frame - 1} /\ settled \in Nat
  /\ mode \in {"pending", "capture", "arrival"} /\ base \in Int
  /\ origin \in [have : BOOLEAN, at : Int]
  /\ blk \in [have : BOOLEAN, start : Int, min : Int]
  /\ floor \in BOOLEAN /\ based \in BOOLEAN
  /\ shift > 0 => mode = "capture"

(* Nothing is filled in that was not lost, and nothing is missing before a *)
(* first block has ended.                                                  *)
Whole ==
  /\ Missing >= 0 /\ Missing % Frame = 0
  /\ based => origin.have
  /\ ~based => Missing = 0

(* An open block with a stamp that is not late reads no more than what is  *)
(* missing; one without reads a frame too much.  Only a block that was     *)
(* open when the capture times moved reads less than nothing.              *)
BlockRead ==
  origin.have =>
    /\ blk.have
    /\ floor => \/ Over \in 0..Missing /\ Over % Frame = 0
                \/ Over = -shift /\ Missing = 0
    /\ ~floor => /\ Over >= Frame - shift
                 /\ shift > 0 => Missing = 0 /\ settled = 0
                 /\ shift = 0 => Over % Frame = 0

(* The baseline is what a whole stream reads, or what it read before the   *)
(* capture times moved.                                                    *)
Based ==
  origin.have =>
    /\ ~based => base = 0 /\ blk.min <= 0
    /\ based => \/ base = Even /\ Over >= 0
                \/ base = Even - shift /\ Missing = 0

(* Something is missing, or the tracker has not seen the capture times     *)
(* move: for no longer than the block it happened in and the next last.    *)
Behind == Missing > 0 \/ (based /\ base # Even) \/ Over < 0

Resolving ==
  origin.have =>
    /\ Run >= Frame
    /\ Behind /\ Over >= Missing => /\ Frame * (settled - BlockFrames + 1) <= Run
                                    /\ settled < 2 * BlockFrames
    /\ Behind /\ Over < Missing  => /\ Frame * (settled + 1) <= Run
                                    /\ settled < BlockFrames

StreamInv == blind \/ (StreamTypes /\ Whole /\ BlockRead /\ Based /\ Resolving)

LEMMA StreamInvInit == Init => StreamInv
<1> SUFFICES ASSUME Init PROVE StreamInv
  OBVIOUS
<1>1. /\ sent = 0 /\ shift = 0 /\ mode = "pending" /\ written = 0 /\ origin = NoOrigin /\ base = 0
      /\ blk = NoBlock /\ floor = FALSE /\ based = FALSE /\ settled = 0 /\ blind = FALSE
  BY DEF Init, TimelineInit
<1>2. origin \in [have : BOOLEAN, at : Int] /\ ~origin.have
  BY <1>1 DEF NoOrigin
<1>3. blk \in [have : BOOLEAN, start : Int, min : Int]
  BY <1>1 DEF NoBlock
<1>4. StreamTypes
  <2>1. floor \in BOOLEAN /\ based \in BOOLEAN
    BY <1>1, Zenon
  <2> QED BY <1>1, <1>2, <1>3, <2>1 DEF StreamTypes, Frame
<1>5. Missing = 0
  BY <1>1 DEF Missing, Frame
<1> QED BY <1>1, <1>2, <1>4, <1>5 DEF StreamInv, Whole, BlockRead, Based, Resolving, Frame

(* A finished block is filled in by what its minimum is above the          *)
(* baseline where that is whole frames, or the mapping is dropped.         *)
LEMMA VerdictFact ==
  ASSUME NEW step \in Int, step % Frame = 0 \/ (mode = "capture" /\ step = Frame - 1) \/ step <= 0
  PROVE  /\ BlockVerdict(step).fill \in Int
         /\ \/ BlockVerdict(step).drop
            \/ /\ step % Frame = 0 /\ step >= 0 => BlockVerdict(step).fill = step
               /\ step <= 0 \/ step = Frame - 1 => BlockVerdict(step).fill = 0
<1> DEFINE frames   == WholeFrames(step)
           far      == step > MaxFill \/ step < -MaxBack
           reanchor == mode = "capture" /\ 2 * step > Frame /\ step # frames * Frame
           fills    == step <= MaxFill /\ 2 * step > Frame /\ ~reanchor
<1>1. MaxFill \in Nat /\ MaxBack \in Nat
  BY TimelineAssumption
<1>2. frames \in Int /\ (step % Frame = 0 => frames * Frame = step)
  BY DEF WholeFrames, Frame
<1>3. BlockVerdict(step) = CASE far -> [fill |-> 0, drop |-> TRUE]
                             [] fills -> [fill |-> frames * Frame, drop |-> FALSE]
                             [] OTHER -> [fill |-> 0, drop |-> FALSE]
  BY DEF BlockVerdict
<1>4. far => ~fills
  BY <1>1, <1>2 DEF Frame
<1> HIDE DEF frames
<1>5. CASE far
  BY <1>3, <1>4, <1>5
<1>6. CASE fills
  <2>1. BlockVerdict(step) = [fill |-> frames * Frame, drop |-> FALSE]
    BY <1>3, <1>4, <1>6, Zenon
  <2>2. (step > 0 /\ step # Frame - 1) \/ step % Frame = 0
    BY <1>2, <1>6 DEF Frame
  <2>3. step > 0 /\ step % Frame = 0
    BY <1>2, <1>6, <2>2 DEF Frame
  <2> QED BY <1>2, <2>1, <2>3 DEF Frame
<1>7. CASE ~far /\ ~fills
  <2>1. BlockVerdict(step) = [fill |-> 0, drop |-> FALSE]
    BY <1>3, <1>7, Zenon
  <2>2. step % Frame = 0 /\ step >= 0 => step = 0
    BY <1>1, <1>2, <1>7 DEF Frame
  <2> QED BY <2>1, <2>2 DEF Frame
<1> QED BY <1>5, <1>6, <1>7

(* A stamp is late by whole frames, and never where capture times are      *)
(* stamped.                                                                *)
LEMMA StampFact ==
  ASSUME StreamTypes, NEW s \in Stamps
  PROVE  \E j \in 0..MaxJitter : s = Frame * (sent + j) + shift /\ (mode = "capture" => j = 0)
  BY TimelineAssumption DEF Stamps

(* What a stamped frame does: the first of a timeline, one more of a       *)
(* block, or the one that ends it.                                         *)
LEMMA StampedMoves ==
  ASSUME StreamTypes, NEW s \in Int, Stamped(s)
  PROVE  LET closes == origin.have /\ blk.have /\ s - blk.start >= BlockLen
             v == BlockVerdict(blk.min - base)
             d == s - origin.at - written
         IN /\ sent' = sent + 1 /\ shift' = shift
            /\ mode' \in {mode, "arrival"} /\ (mode = "capture" => mode' = mode)
            /\ ~origin.have => /\ origin' = [have |-> TRUE, at |-> s - written] /\ base' = 0
                               /\ blk' = [have |-> TRUE, start |-> s, min |-> 0]
                               /\ written' = written + Frame
            /\ origin.have /\ blk.have /\ ~closes =>
                 /\ origin' = origin /\ base' = base /\ written' = written + Frame
                 /\ blk' = [blk EXCEPT !.min = IF d < @ THEN d ELSE @]
            /\ closes => /\ origin' = origin /\ base' = blk.min - v.fill /\ rebuilt' = v.drop
                         /\ blk' = [have |-> TRUE, start |-> s, min |-> s - origin.at - (written + v.fill)]
                         /\ written' = written + v.fill + Frame
<1> DEFINE closes == origin.have /\ blk.have /\ s - blk.start >= BlockLen
           v == BlockVerdict(blk.min - base)
           d == s - origin.at - written
<1>1. /\ sent' = sent + 1 /\ shift' = shift /\ Track(Tracked(s))
      /\ TimeBlock \/ UNCHANGED mode
  BY DEF Stamped, Audio, AudioUndecodable, Cut
<1>2. mode' \in {mode, "arrival"} /\ (mode = "capture" => mode' = mode)
  BY <1>1 DEF TimeBlock
<1>3. /\ origin' = Tracked(s).origin /\ base' = Tracked(s).base /\ blk' = Tracked(s).blk
      /\ rebuilt' = Tracked(s).drop /\ written' = Tracked(s).count + Frame
  BY <1>1 DEF Track
<1>4. ASSUME ~origin.have
      PROVE  /\ origin' = [have |-> TRUE, at |-> s - written] /\ base' = 0
             /\ blk' = [have |-> TRUE, start |-> s, min |-> 0] /\ written' = written + Frame
  <2>1. Tracked(s) = [origin |-> [have |-> TRUE, at |-> s - written], count |-> written + 0,
                      drop |-> FALSE, base |-> 0,
                      blk |-> [have |-> TRUE, start |-> s, min |-> s - (s - written) - (written + 0)]]
    BY <1>4 DEF Tracked, NoBlock
  <2> QED BY <1>3, <2>1 DEF StreamTypes, Frame
<1>5. ASSUME origin.have, blk.have, ~closes
      PROVE  /\ origin' = origin /\ base' = base /\ written' = written + Frame
             /\ blk' = [blk EXCEPT !.min = IF d < @ THEN d ELSE @]
  <2>1. Tracked(s) = [origin |-> origin, count |-> written + 0, drop |-> FALSE, base |-> base,
                      blk |-> [blk EXCEPT !.min = IF s - origin.at - (written + 0) < @
                                                  THEN s - origin.at - (written + 0) ELSE @]]
    BY <1>5 DEF Tracked
  <2>2. written + 0 = written
    BY DEF StreamTypes
  <2> QED BY <1>3, <2>1, <2>2
<1>6. ASSUME closes
      PROVE  /\ origin' = origin /\ base' = blk.min - v.fill /\ rebuilt' = v.drop
             /\ blk' = [have |-> TRUE, start |-> s, min |-> s - origin.at - (written + v.fill)]
             /\ written' = written + v.fill + Frame
  <2>1. Tracked(s) = [origin |-> origin, count |-> written + v.fill, drop |-> v.drop,
                      base |-> blk.min - v.fill,
                      blk |-> [have |-> TRUE, start |-> s, min |-> s - origin.at - (written + v.fill)]]
    BY <1>6 DEF Tracked
  <2> QED BY <1>3, <2>1
<1> QED BY <1>1, <1>2, <1>4, <1>5, <1>6

(* The first stamped frame of a timeline starts it with nothing missing.   *)
LEMMA StartsWhole ==
  ASSUME StreamTypes, ~blind, Whole, ~origin.have, NEW s \in Stamps, Stamped(s)
  PROVE  StreamInv'
<1>1. PICK j \in 0..MaxJitter : s = Frame * (sent + j) + shift /\ (mode = "capture" => j = 0)
  BY StampFact
<1>2. MaxJitter \in Nat /\ BlockLen \in Nat
  BY TimelineAssumption
<1>3. s \in Int
  BY <1>1, <1>2 DEF StreamTypes, Frame
<1>4. /\ sent' = sent + 1 /\ shift' = shift /\ origin' = [have |-> TRUE, at |-> s - written]
      /\ base' = 0 /\ blk' = [have |-> TRUE, start |-> s, min |-> 0] /\ written' = written + Frame
      /\ mode' \in {mode, "arrival"} /\ (mode = "capture" => mode' = mode)
  BY <1>3, StampedMoves
<1>5. /\ based' = based /\ settled' \in {settled, settled + 1} /\ (floor' <=> j = 0)
      /\ {floor', based'} \subseteq BOOLEAN
  <2>1. s = Frame * sent + shift <=> j = 0
    BY <1>1, <1>2 DEF StreamTypes, Frame
  <2> QED BY <2>1 DEF Stamped, StreamTypes
<1>6. StreamTypes'
  BY <1>3, <1>4, <1>5 DEF StreamTypes, Frame
<1>7. ~based /\ Missing = 0 /\ Missing' = 0 /\ Whole'
  BY <1>4, <1>5 DEF Whole, Missing, StreamTypes, Frame
<1>8. Over' = Frame * j /\ Run' >= Frame /\ origin'.have /\ blk'.have /\ blk'.min = 0
  BY <1>1, <1>2, <1>4, <1>7 DEF Over, Even, Run, Missing, StreamTypes, Frame
<1>9. shift > 0 => j = 0
  BY <1>1 DEF StreamTypes
<1>10. BlockRead'
  BY <1>2, <1>4, <1>5, <1>7, <1>8, <1>9 DEF BlockRead, StreamTypes, Frame
<1>11. Based' /\ Resolving'
  BY <1>2, <1>4, <1>5, <1>7, <1>8 DEF Based, Resolving, Behind, Frame
<1> QED BY <1>6, <1>7, <1>10, <1>11 DEF StreamInv

(* One more frame of a block: what it reads is what is missing, and how    *)
(* late it is.                                                             *)
LEMMA ReadsOn ==
  ASSUME StreamTypes, ~blind, Whole, BlockRead, Based, Resolving, origin.have,
         NEW s \in Stamps, Stamped(s), s - blk.start < BlockLen
  PROVE  StreamInv'
<1>1. PICK j \in 0..MaxJitter : s = Frame * (sent + j) + shift /\ (mode = "capture" => j = 0)
  BY StampFact
<1>2. MaxJitter \in Nat /\ BlockLen \in Nat
  BY TimelineAssumption
<1>3. s \in Int /\ blk.have
  BY <1>1, <1>2 DEF StreamTypes, Frame, BlockRead
<1> DEFINE d == s - origin.at - written
<1>4. /\ sent' = sent + 1 /\ shift' = shift /\ origin' = origin /\ base' = base
      /\ blk' = [blk EXCEPT !.min = IF d < @ THEN d ELSE @] /\ written' = written + Frame
      /\ mode' \in {mode, "arrival"} /\ (mode = "capture" => mode' = mode)
  <2>1. ~(s - blk.start >= BlockLen)
    BY <1>2, <1>3 DEF StreamTypes
  <2> QED BY <1>3, <2>1, StampedMoves
<1>5. /\ based' = based /\ settled' \in {settled, settled + 1} /\ (floor' <=> j = 0 \/ floor)
      /\ {floor', based'} \subseteq BOOLEAN
  <2>1. ~(s - blk.start >= BlockLen)
    BY <1>2, <1>3 DEF StreamTypes
  <2>2. s = Frame * sent + shift <=> j = 0
    BY <1>1, <1>2 DEF StreamTypes, Frame
  <2> QED BY <2>1, <2>2 DEF Stamped, StreamTypes
<1>6. d \in Int /\ d = Even + Missing + Frame * j
  BY <1>1, <1>2 DEF Even, Missing, StreamTypes, Frame
<1>7. /\ blk'.have /\ blk'.start = blk.start /\ blk'.min = IF d < blk.min THEN d ELSE blk.min
      /\ blk' \in [have : BOOLEAN, start : Int, min : Int]
  BY <1>3, <1>4, <1>6 DEF StreamTypes
<1>8. StreamTypes'
  BY <1>4, <1>5, <1>7 DEF StreamTypes, Frame
<1>9. /\ Missing' = Missing /\ Even' = Even /\ Missing \in Int /\ Even \in Int /\ Over \in Int
      /\ Run' = Run + Frame /\ Run \in Int
      /\ Over' = IF Missing + Frame * j < Over THEN Missing + Frame * j ELSE Over
  <2>1. Missing' = Missing /\ Even' = Even /\ Missing \in Int /\ Even \in Int /\ blk.min \in Int
    BY <1>4 DEF Missing, Even, StreamTypes, Frame
  <2>2. Run' = Run + Frame /\ Run \in Int
    BY <1>2, <1>4, <1>7 DEF Run, StreamTypes, Frame
  <2>3. Over = blk.min - Even /\ Over' = blk'.min - Even'
    BY DEF Over
  <2> QED BY <1>2, <1>6, <1>7, <2>1, <2>2, <2>3 DEF Frame
<1>10. Whole'
  BY <1>4, <1>5, <1>9 DEF Whole
<1>11. shift > 0 => j = 0
  BY <1>1 DEF StreamTypes
<1>12. BlockRead'
  <2> HIDE DEF d
  <2>1. shift' = shift /\ shift \in {0, Frame - 1} /\ origin'.have /\ blk'.have
    BY <1>4, <1>7 DEF StreamTypes
  <2>2. Missing >= 0 /\ Missing % Frame = 0
    BY DEF Whole
  <2>3. CASE floor'
    <3>1. \/ Over' \in 0..Missing' /\ Over' % Frame = 0
          \/ Over' = -shift' /\ Missing' = 0
      <4>1. CASE floor
        BY <1>2, <1>9, <2>1, <2>2, <4>1 DEF BlockRead, Frame
      <4>2. CASE ~floor
        <5>1. j = 0 /\ Over' = IF Missing < Over THEN Missing ELSE Over
          BY <1>5, <1>9, <2>3, <4>2 DEF Frame
        <5> QED BY <1>9, <2>1, <2>2, <4>2, <5>1 DEF BlockRead, Frame
      <4> QED BY <4>1, <4>2
    <3> QED BY <2>1, <2>3, <3>1 DEF BlockRead
  <2>4. CASE ~floor'
    <3>1. ~floor /\ j >= 1 /\ shift = 0
      BY <1>5, <1>11, <2>1, <2>4 DEF Frame
    <3>2. Over >= Frame /\ Over % Frame = 0
      BY <3>1 DEF BlockRead, Frame
    <3>3. Over' >= Frame /\ Over' % Frame = 0
      BY <1>2, <1>9, <2>2, <3>1, <3>2 DEF Frame
    <3> QED BY <2>1, <2>4, <3>1, <3>3 DEF BlockRead, Frame
  <2> QED BY <2>3, <2>4
<1>13. Based'
  BY <1>2, <1>4, <1>5, <1>6, <1>7, <1>9 DEF Based, Whole, StreamTypes, Frame
<1>14. Run < Frame * BlockFrames
  BY <1>1, <1>2 DEF Run, BlockFrames, StreamTypes, Frame
<1>15. Resolving'
  <2>1. Behind' <=> Behind
    BY <1>2, <1>4, <1>5, <1>9 DEF Behind, Whole, Frame
  <2>2. Over' >= Missing' <=> Over >= Missing
    BY <1>2, <1>9 DEF Frame
  <2>3. BlockFrames \in Nat /\ BlockFrames >= 1 /\ BlockFrames' = BlockFrames
    BY <1>2 DEF BlockFrames, Frame
  <2> HIDE DEF d
  <2> QED BY <1>4, <1>5, <1>9, <1>14, <2>1, <2>2, <2>3 DEF Resolving, StreamTypes, Frame
<1> QED BY <1>8, <1>10, <1>12, <1>13, <1>15 DEF StreamInv

(* The frame that ends a block with a stamp that is not late: it fills in  *)
(* what the block read, which is all of it if nothing was lost since the   *)
(* block started, and the baseline is even again.                          *)
LEMMA BlockEnds ==
  ASSUME StreamTypes, ~blind, Whole, BlockRead, Based, Resolving, origin.have,
         NEW s \in Stamps, Stamped(s), s - blk.start >= BlockLen, ~blind'
  PROVE  StreamInv'
<1>1. PICK j \in 0..MaxJitter : s = Frame * (sent + j) + shift /\ (mode = "capture" => j = 0)
  BY StampFact
<1>2. MaxJitter \in Nat /\ BlockLen \in Nat
  BY TimelineAssumption
<1>3. s \in Int /\ blk.have
  BY <1>1, <1>2 DEF StreamTypes, Frame, BlockRead
<1> DEFINE v == BlockVerdict(blk.min - base)
           f == v.fill
           d == s - origin.at - (written + f)
<1>4. /\ sent' = sent + 1 /\ shift' = shift /\ origin' = origin /\ base' = blk.min - f
      /\ blk' = [have |-> TRUE, start |-> s, min |-> d] /\ written' = written + f + Frame
      /\ mode' \in {mode, "arrival"} /\ (mode = "capture" => mode' = mode)
      /\ rebuilt' = v.drop
  BY <1>3, StampedMoves
<1>5. /\ floor /\ based' /\ settled' \in {settled, settled + 1} /\ (floor' <=> j = 0)
      /\ ~rebuilt' /\ {floor', based'} \subseteq BOOLEAN
  <2>1. s = Frame * sent + shift <=> j = 0
    BY <1>1, <1>2 DEF StreamTypes, Frame
  <2> QED BY <1>3, <2>1 DEF Stamped, StreamTypes
<1>6. /\ Missing \in Int /\ Missing >= 0 /\ Missing % Frame = 0 /\ Even \in Int /\ Over \in Int
      /\ blk.min \in Int /\ base \in Int /\ blk.min = Even + Over
  BY DEF Whole, Missing, Even, Over, StreamTypes, Frame
<1>7. shift > 0 => mode = "capture" /\ j = 0
  BY <1>1 DEF StreamTypes
<1>8. /\ f \in Int /\ f \in 0..Missing /\ f % Frame = 0
      /\ \/ base' = Even /\ (Over >= Missing => f = Missing)
         \/ base' = Even - shift /\ Missing = 0 /\ Over < Missing /\ shift > 0
  <2>1. \/ Over \in 0..Missing /\ Over % Frame = 0
        \/ Over = -shift /\ Missing = 0
    BY <1>5 DEF BlockRead
  <2>2. shift \in {0, Frame - 1}
    BY DEF StreamTypes
  <2>3. CASE based /\ base = Even /\ Over >= 0
    <3>1. /\ blk.min - base = Over /\ Over >= 0 /\ Over % Frame = 0 /\ Over <= Missing
      BY <1>6, <2>1, <2>2, <2>3 DEF Frame
    <3>2. f = Over
      BY <1>4, <1>5, <1>6, <3>1, VerdictFact
    <3> QED BY <1>4, <1>6, <3>1, <3>2 DEF Frame
  <2>4. CASE based /\ base = Even - shift /\ shift > 0 /\ Missing = 0
    <3>1. Over \in {0, -shift} /\ shift = Frame - 1 /\ mode = "capture"
      BY <1>6, <1>7, <2>1, <2>2, <2>4 DEF Frame
    <3>2. blk.min - base \in Int /\ blk.min - base \in {0, Frame - 1}
      BY <1>6, <2>4, <3>1 DEF Frame
    <3>3. f = 0
      BY <1>4, <1>5, <3>1, <3>2, VerdictFact DEF Frame
    <3> QED BY <1>4, <1>6, <2>4, <3>1, <3>3 DEF Frame
  <2>5. CASE ~based
    <3>1. base = 0 /\ blk.min <= 0 /\ Missing = 0 /\ Over \in {0, -shift}
      BY <1>6, <2>1, <2>5 DEF Based, Whole, Frame
    <3>2. blk.min - base \in Int /\ blk.min - base <= 0
      BY <1>6, <3>1
    <3>3. f = 0
      BY <1>4, <1>5, <3>2, VerdictFact
    <3> QED BY <1>4, <1>6, <2>2, <3>1, <3>3 DEF Frame
  <2>6. based => \/ base = Even /\ Over >= 0
                 \/ base = Even - shift /\ Missing = 0
    BY DEF Based
  <2>7. base = Even - shift /\ Missing = 0 /\ shift = 0 => base = Even /\ Over >= 0
    BY <1>6, <2>1
  <2> QED BY <2>2, <2>3, <2>4, <2>5, <2>6, <2>7 DEF Frame
<1> HIDE DEF v, f
<1>9. d \in Int /\ d = Even + (Missing - f) + Frame * j
  BY <1>1, <1>2, <1>8 DEF Even, Missing, StreamTypes, Frame
<1>10. /\ blk'.have /\ blk'.start = s /\ blk'.min = d
       /\ blk' \in [have : BOOLEAN, start : Int, min : Int]
  BY <1>3, <1>4, <1>9
<1>11. StreamTypes'
  BY <1>4, <1>5, <1>6, <1>8, <1>10 DEF StreamTypes, Frame
<1>12. /\ Missing' = Missing - f /\ Even' = Even /\ Over' = Missing - f + Frame * j
  <2>1. Missing' = Missing - f /\ Even' = Even
    BY <1>4, <1>8 DEF Missing, Even, StreamTypes, Frame
  <2>2. Over' = blk'.min - Even'
    BY DEF Over
  <2> QED BY <1>2, <1>6, <1>8, <1>9, <1>10, <2>1, <2>2 DEF Frame
<1>13. Run' >= Frame /\ Run' \in Int
  BY <1>1, <1>2, <1>4, <1>10 DEF Run, StreamTypes, Frame
<1>14. Whole'
  BY <1>4, <1>5, <1>6, <1>8, <1>12 DEF Whole, Frame
<1>15. BlockRead'
  <2>1. CASE j = 0
    <3>1. Over' \in 0..Missing' /\ Over' % Frame = 0
      BY <1>6, <1>8, <1>12, <2>1 DEF Frame
    <3> QED BY <1>5, <1>10, <2>1, <3>1 DEF BlockRead
  <2>2. CASE j # 0
    <3>1. shift' = 0
      BY <1>4, <1>7, <2>2 DEF StreamTypes, Frame
    <3>2. Over' >= Frame /\ Over' % Frame = 0
      BY <1>2, <1>6, <1>8, <1>12, <2>2 DEF Frame
    <3> QED BY <1>5, <1>10, <2>2, <3>1, <3>2 DEF BlockRead, Frame
  <2> QED BY <2>1, <2>2
<1>16. Based'
  BY <1>2, <1>4, <1>5, <1>6, <1>8, <1>12 DEF Based, Frame
<1>17. Resolving'
  <2>1. BlockFrames \in Nat /\ BlockFrames >= 1 /\ BlockFrames' = BlockFrames
    BY <1>2 DEF BlockFrames, Frame
  <2>2. Over' >= Missing' /\ Over' >= 0 /\ Missing' \in Int
    BY <1>2, <1>6, <1>8, <1>12 DEF Frame
  <2>3. CASE Over >= Missing
    <3>1. ~Behind'
      BY <1>6, <1>8, <1>12, <2>2, <2>3 DEF Behind, Frame
    <3> QED BY <1>13, <3>1 DEF Resolving
  <2>4. CASE Over < Missing
    <3>1. Behind
      BY <1>6, <2>4 DEF Behind
    <3>2. settled < BlockFrames
      BY <2>4, <3>1 DEF Resolving
    <3>3. settled' \in Nat /\ settled' <= BlockFrames
      BY <1>5, <2>1, <3>2 DEF StreamTypes
    <3>4. Frame * (settled' - BlockFrames + 1) <= Run' /\ settled' < 2 * BlockFrames
      <4> DEFINE n == BlockFrames
                 k == settled'
      <4>0. n \in Nat /\ n >= 1 /\ k \in Nat /\ k <= n
        BY <2>1, <3>3
      <4> HIDE DEF d, n, k
      <4>1. Frame * (k - n + 1) <= Run' /\ k < 2 * n
        BY <1>13, <4>0 DEF Frame
      <4> QED BY <4>1 DEF n, k
    <3>5. ~(Over' < Missing')
      BY <1>2, <1>6, <1>8, <1>12, <2>2 DEF Frame
    <3> QED BY <1>13, <2>1, <3>4, <3>5 DEF Resolving
  <2> QED BY <1>6, <2>3, <2>4
<1> QED BY <1>11, <1>14, <1>15, <1>16, <1>17 DEF StreamInv

(* A frame lost where the tracker can see it: the count is a frame behind, *)
(* and what the open block reads is not.                                   *)
LEMMA LosesFrame ==
  ASSUME StreamTypes, ~blind, Whole, BlockRead, Based, Resolving, Unseen, ~blind'
  PROVE  StreamInv'
<1>1. /\ sent' = sent + 1 /\ settled' = 0 /\ based /\ ~(shift > 0 /\ settled < Resolved)
      /\ UNCHANGED <<shift, mode, written, origin, base, blk, floor, based>>
  BY DEF Unseen, Lost, Cut
<1>2. StreamTypes' /\ origin.have
  BY <1>1 DEF StreamTypes, Whole
<1>3. /\ Missing' = Missing + Frame /\ Even' = Even /\ Over' = Over /\ Run' = Run + Frame
      /\ Missing \in Int /\ Even \in Int /\ Over \in Int /\ Run \in Int
  BY <1>1, TimelineAssumption DEF Missing, Even, Over, Run, StreamTypes, Frame
<1>4. BlockFrames \in Nat /\ BlockFrames >= 1 /\ BlockFrames' = BlockFrames /\ Resolved = 2 * BlockFrames
  BY TimelineAssumption DEF BlockFrames, Resolved, Frame
<1>5. shift > 0 => ~Behind /\ floor
  BY <1>1, <1>2, <1>3, <1>4 DEF Resolving, BlockRead, StreamTypes
<1>6. Whole'
  BY <1>1, <1>2, <1>3 DEF Whole, Frame
<1>7. BlockRead'
  BY <1>1, <1>2, <1>3, <1>5 DEF BlockRead, Behind, Whole, StreamTypes, Frame
<1>8. Based'
  BY <1>1, <1>2, <1>3, <1>5, <1>7 DEF Based, Behind, BlockRead, Whole, StreamTypes, Frame
<1>9. Resolving'
  BY <1>1, <1>2, <1>3, <1>4 DEF Resolving, Frame
<1> QED BY <1>2, <1>6, <1>7, <1>8, <1>9 DEF StreamInv

(* The capture times move while nothing is missing.                        *)
LEMMA TimesMove ==
  ASSUME StreamTypes, ~blind, Whole, BlockRead, Based, Resolving, Moved, ~blind'
  PROVE  StreamInv'
<1>1. /\ shift = 0 /\ shift' = Frame - 1 /\ settled' = 0 /\ ~(settled < Resolved) /\ mode = "capture"
      /\ UNCHANGED <<sent, mode, written, origin, base, blk, floor, based>>
  BY DEF Moved, ReAnchor
<1>2. StreamTypes'
  BY <1>1 DEF StreamTypes
<1>3. /\ Missing' = Missing /\ Even' = Even + shift' /\ Over' = Over - shift' /\ Run' = Run + shift'
      /\ Missing \in Int /\ Even \in Int /\ Over \in Int /\ Run \in Int
  BY <1>1, TimelineAssumption DEF Missing, Even, Over, Run, StreamTypes, Frame
<1>4. BlockFrames \in Nat /\ BlockFrames >= 1 /\ BlockFrames' = BlockFrames /\ Resolved = 2 * BlockFrames
  BY TimelineAssumption DEF BlockFrames, Resolved, Frame
<1>5. origin.have => ~Behind
  BY <1>1, <1>3, <1>4 DEF Resolving, StreamTypes
<1>6. Missing = 0
  BY <1>3, <1>5 DEF Whole, Behind
<1>7. Whole'
  BY <1>1, <1>3 DEF Whole, Frame
<1>8. BlockRead'
  BY <1>1, <1>3, <1>5, <1>6 DEF BlockRead, Behind, Frame
<1>9. Based'
  BY <1>1, <1>3, <1>5, <1>6 DEF Based, Behind, Frame
<1>10. Resolving'
  BY <1>1, <1>3, <1>4 DEF Resolving, Frame
<1> QED BY <1>2, <1>7, <1>8, <1>9, <1>10 DEF StreamInv

(* A header is lost: the timeline starts anew, with nothing missing.       *)
LEMMA TrackLost ==
  ASSUME StreamTypes, ~blind, Whole, BlockRead, Based, Resolving, Untracked, ~blind'
  PROVE  StreamInv'
<1>1. /\ sent' = sent + 1 /\ written' = written + Frame /\ origin' = NoOrigin /\ based' = FALSE
      /\ ~(settled < Resolved /\ written # Frame * sent)
      /\ UNCHANGED <<shift, mode, base, blk, floor, settled>>
  BY DEF Untracked, AudioUnreadable, Cut
<1>2. origin' \in [have : BOOLEAN, at : Int] /\ ~origin'.have
  BY <1>1 DEF NoOrigin
<1>3. StreamTypes'
  <2>1. based' \in BOOLEAN
    BY <1>1, Zenon
  <2> QED BY <1>1, <1>2, <2>1 DEF StreamTypes, Frame
<1>4. Missing' = Missing /\ Missing \in Int
  BY <1>1 DEF Missing, StreamTypes, Frame
<1>5. BlockFrames \in Nat /\ BlockFrames >= 1 /\ Resolved = 2 * BlockFrames
  BY TimelineAssumption DEF BlockFrames, Resolved, Frame
<1>6. Missing = 0
  <2>1. CASE settled < Resolved
    BY <1>1, <2>1 DEF Missing, StreamTypes, Frame
  <2>2. CASE ~(settled < Resolved) /\ origin.have
    <3>1. ~Behind
      <4>1. Over \in Int
        BY DEF Over, Even, StreamTypes, Frame
      <4> QED BY <1>4, <1>5, <2>2, <4>1 DEF Resolving, StreamTypes
    <3> QED BY <1>4, <3>1 DEF Behind, Whole
  <2>3. CASE ~origin.have
    BY <2>3 DEF Whole
  <2> QED BY <2>1, <2>2, <2>3
<1>7. Whole' /\ BlockRead' /\ Based' /\ Resolving'
  BY <1>1, <1>2, <1>4, <1>6 DEF Whole, BlockRead, Based, Resolving, Frame
<1> QED BY <1>3, <1>7 DEF StreamInv

(* A frame without a stamp, or the receiver says which clock it stamps on. *)
LEMMA TrackKept ==
  ASSUME StreamTypes, ~blind, Whole, BlockRead, Based, Resolving, Untouched
  PROVE  StreamInv'
<1>1. /\ UNCHANGED <<shift, origin, base, blk, floor, based, settled, blind>>
      /\ mode' \in {"pending", "capture", "arrival"} /\ (mode = "capture" => mode' = mode)
      /\ \/ sent' = sent + 1 /\ written' = written + Frame
         \/ sent' = sent /\ written' = written
  <2>1. CASE AudioUnstamped
    BY <2>1 DEF Untouched, AudioUnstamped, Cut, TimeBlock, StreamTypes
  <2>2. CASE \E m \in {"capture", "arrival"} : ServerClockId(m)
    BY <2>2 DEF Untouched, ServerClockId
  <2> QED BY <2>1, <2>2 DEF Untouched
<1>2. StreamTypes'
  BY <1>1 DEF StreamTypes, Frame
<1>3. /\ Missing' = Missing /\ Even' = Even /\ Over' = Over /\ Run' >= Run
      /\ Run \in Int /\ Run' \in Int
  BY <1>1, TimelineAssumption DEF Missing, Even, Over, Run, StreamTypes, Frame
<1>4. Whole' /\ BlockRead' /\ Based'
  BY <1>1, <1>3 DEF Whole, BlockRead, Based
<1>5. Resolving'
  <2>1. BlockFrames \in Nat /\ BlockFrames' = BlockFrames
    BY TimelineAssumption DEF BlockFrames, Frame
  <2> QED BY <1>1, <1>3, <2>1 DEF Resolving, Behind, StreamTypes, Frame
<1> QED BY <1>2, <1>4, <1>5 DEF StreamInv

LEMMA StreamInvStep == StreamInv /\ [Next]_vars => StreamInv'
<1> SUFFICES ASSUME StreamInv, [Next]_vars PROVE StreamInv'
  OBVIOUS
<1>1. CASE UNCHANGED streamAll
  BY <1>1 DEF streamAll, timelineVars, StreamInv, StreamTypes, Whole, BlockRead, Based, Resolving,
              Behind, Missing, Even, Over, Run
<1>2. CASE StreamStep
  <2>1. blind => blind'
    BY <1>2 DEF StreamStep, Stamped, Unseen, Moved, Untracked, Untouched
  <2>2. CASE blind \/ blind'
    BY <2>1, <2>2 DEF StreamInv
  <2>3. CASE ~blind /\ ~blind'
    <3>1. StreamTypes /\ Whole /\ BlockRead /\ Based /\ Resolving
      BY <2>3 DEF StreamInv
    <3>2. ASSUME NEW s \in Stamps, Stamped(s) PROVE StreamInv'
      <4>1. s - blk.start < BlockLen \/ s - blk.start >= BlockLen
        BY <3>1, TimelineAssumption DEF Stamps, StreamTypes, Frame
      <4> QED BY <2>3, <3>1, <3>2, <4>1, StartsWhole, ReadsOn, BlockEnds
    <3> QED BY <1>2, <2>3, <3>1, <3>2, LosesFrame, TimesMove, TrackLost, TrackKept DEF StreamStep
  <2> QED BY <2>2, <2>3
<1> QED BY <1>1, <1>2 DEF Next, TimingStep, HoldStep, TagStep, TripStep, vars

(* Lost audio is put back, for every length of a block, every limit on     *)
(* what is filled in or stepped back, every lateness of the stamps and     *)
(* every pattern of losses, damaged frames and changes of timing.          *)
THEOREM CountsInStep == Spec => []InStep
<1>1. StreamInv => InStep
  <2> SUFFICES ASSUME StreamInv, ~blind PROVE InStep
    BY DEF InStep
  <2>1. StreamTypes /\ Whole /\ Resolving
    BY DEF StreamInv
  <2>2. Missing \in Int /\ Missing = Frame * sent - written /\ Over \in Int
    BY <2>1 DEF Missing, Over, Even, StreamTypes, Frame
  <2>3. BlockFrames \in Nat /\ Resolved = 2 * BlockFrames
    BY TimelineAssumption DEF BlockFrames, Resolved, Frame
  <2>4. settled >= Resolved => Missing = 0
    <3>1. CASE origin.have
      BY <2>1, <2>2, <2>3, <3>1 DEF Resolving, Behind, Whole, StreamTypes
    <3>2. CASE ~origin.have
      BY <2>1, <3>2 DEF Whole
    <3> QED BY <3>1, <3>2
  <2> QED BY <2>1, <2>2, <2>4 DEF InStep, Whole, StreamTypes, Frame
<1> QED BY <1>1, StreamInvInit, StreamInvStep, PTL DEF Spec
-----------------------------------------------------------------------------
(* Decoded times against the truth.  While no misread has got past every   *)
(* check, the history is what was true when it was last renewed; a time    *)
(* that is pending was true when last read, or was wrong in every reading  *)
(* it has; and the anchor and the samples are all of the history's offset, *)
(* so that their median is too.                                            *)
Histories == [have : BOOLEAN, offset : Int, at : Int, readings : Nat, pending : Int,
              firstAt : Int, lastAt : Int]
Measures == [at : Int, offset : Int]

TimingTypes ==
  /\ minute \in Nat /\ leap \in BOOLEAN /\ wrongRun \in Nat
  /\ stage = "time" => frameAt \in {0, minute - 1}
  /\ continuity \in Histories /\ anchor \in [have : BOOLEAN, at : Int, offset : Int]
  /\ IsFiniteSet(samples) /\ samples \subseteq Measures

Historic ==
  /\ confirmed <=> continuity.have
  /\ continuity.have => continuity.at <= minute /\ continuity.offset = Truth(continuity.at)

Contended ==
  continuity.readings > 0 =>
    /\ continuity.lastAt <= minute /\ lastRead = continuity.pending /\ continuity.pending % 4 = 0
    /\ continuity.pending = Truth(continuity.lastAt) \/ continuity.readings <= wrongRun

Believed(m) ==
  /\ continuity.have /\ m.offset = continuity.offset
  /\ m.at <= minute /\ m.offset = Truth(m.at)

Uniform ==
  /\ anchor.have => Believed(anchor)
  /\ \A s \in samples : Believed(s)

TimingInv == fooled \/ (TimingTypes /\ Historic /\ Contended /\ Uniform)

(* The fields of the history that judge() changes.                         *)
LEMMA PendingFact ==
  ASSUME NEW h \in Histories, NEW x \in Int, NEW t \in Int
  PROVE  LET p == NotePending(h, x, t)
             agrees == h.readings > 0 /\ Size(x - h.pending) <= Agree + Drift(t - h.lastAt)
         IN /\ p \in Histories /\ (p.have <=> h.have) /\ p.offset = h.offset /\ p.at = h.at
            /\ p.pending = x /\ p.lastAt = t
            /\ agrees => p.readings = h.readings + 1 /\ p.firstAt = h.firstAt
            /\ ~agrees => p.readings = 1 /\ p.firstAt = t
<1> DEFINE agrees == h.readings > 0 /\ Size(x - h.pending) <= Agree + Drift(t - h.lastAt)
           f == IF agrees THEN h.firstAt ELSE t
           n == IF agrees THEN h.readings + 1 ELSE 1
           a == [h EXCEPT !.firstAt = f]
           b == [a EXCEPT !.readings = n]
           d == [b EXCEPT !.pending = x]
           p == [d EXCEPT !.lastAt = t]
<1>1. /\ f \in Int /\ n \in Nat
      /\ agrees => n = h.readings + 1 /\ f = h.firstAt
      /\ ~agrees => n = 1 /\ f = t
  BY DEF Histories
<1>2. NotePending(h, x, t) = p
  BY Zenon DEF NotePending
<1> HIDE DEF agrees, f, n
<1>3. a \in Histories /\ (a.have <=> h.have) /\ a.offset = h.offset /\ a.at = h.at /\ a.firstAt = f
  BY <1>1 DEF Histories
<1> HIDE DEF a
<1>4. b \in Histories /\ (b.have <=> a.have) /\ b.offset = a.offset /\ b.at = a.at /\ b.readings = n
      /\ b.firstAt = f
  BY <1>1, <1>3 DEF Histories
<1> HIDE DEF b
<1>5. d \in Histories /\ (d.have <=> b.have) /\ d.offset = b.offset /\ d.at = b.at
      /\ d.readings = b.readings /\ d.pending = x /\ d.firstAt = f
  BY <1>4 DEF Histories
<1> HIDE DEF d
<1>6. p \in Histories /\ (p.have <=> d.have) /\ p.offset = d.offset /\ p.at = d.at
      /\ p.readings = d.readings /\ p.pending = d.pending /\ p.lastAt = t /\ p.firstAt = f
  BY <1>5 DEF Histories
<1> HIDE DEF p
<1> QED BY <1>1, <1>2, <1>3, <1>4, <1>5, <1>6 DEF agrees

LEMMA StartFact ==
  ASSUME NEW h \in Histories, NEW x \in Int, NEW t \in Int
  PROVE  LET p == StartHistory(h, x, t)
         IN p \in Histories /\ p.have /\ p.offset = x /\ p.at = t /\ p.readings = 0
<1> DEFINE a == [h EXCEPT !.have = TRUE]
           b == [a EXCEPT !.offset = x]
           d == [b EXCEPT !.at = t]
           p == [d EXCEPT !.readings = 0]
<1>1. StartHistory(h, x, t) = p
  BY Zenon DEF StartHistory
<1>2. a \in Histories /\ a.have
  BY DEF Histories
<1> HIDE DEF a
<1>3. b \in Histories /\ b.have /\ b.offset = x
  BY <1>2 DEF Histories
<1> HIDE DEF b
<1>4. d \in Histories /\ d.have /\ d.offset = x /\ d.at = t
  BY <1>3 DEF Histories
<1> HIDE DEF d
<1>5. p \in Histories /\ p.have /\ p.offset = x /\ p.at = t /\ p.readings = 0
  BY <1>4 DEF Histories
<1> QED BY <1>1, <1>5

LEMMA FilteredFact ==
  ASSUME NEW h \in Histories, NEW x \in Int, NEW t \in Int
  PROVE  LET p == NoteFiltered(h, x, t)
         IN /\ p \in Histories /\ p.have /\ p.offset = x /\ p.at = t /\ p.readings = h.readings
            /\ p.pending = h.pending /\ p.lastAt = h.lastAt /\ p.firstAt = h.firstAt
<1> DEFINE a == [h EXCEPT !.have = TRUE]
           b == [a EXCEPT !.offset = x]
           p == [b EXCEPT !.at = t]
<1>1. NoteFiltered(h, x, t) = p
  BY Zenon DEF NoteFiltered
<1>2. a \in Histories /\ a.have /\ a.readings = h.readings /\ a.pending = h.pending /\ a.lastAt = h.lastAt
      /\ a.firstAt = h.firstAt
  BY DEF Histories
<1> HIDE DEF a
<1>3. b \in Histories /\ b.have /\ b.offset = x /\ b.readings = h.readings /\ b.pending = h.pending
      /\ b.lastAt = h.lastAt /\ b.firstAt = h.firstAt
  BY <1>2 DEF Histories
<1> HIDE DEF b
<1>4. p \in Histories /\ p.have /\ p.offset = x /\ p.at = t /\ p.readings = h.readings
      /\ p.pending = h.pending /\ p.lastAt = h.lastAt /\ p.firstAt = h.firstAt
  BY <1>3 DEF Histories
<1> QED BY <1>1, <1>4

(* The five verdicts of judge().                                           *)
LEMMA TimeVerdict ==
  ASSUME NEW h \in Histories, NEW x \in Int, NEW t \in Int, NEW w \in BOOLEAN
  PROVE  LET v == JudgeTime(h, x, t, w)
             p == NotePending(h, x, t)
             near == Size(x - h.offset) <= JumpLimit + Drift(t - h.at)
         IN \/ /\ ~h.have /\ p.readings >= FirstReadings
               /\ v = [outcome |-> "FirstConfirmed", after |-> StartHistory(p, x, t)]
            \/ /\ ~h.have /\ ~Held(p, FirstReadings, FirstSpan)
               /\ v = [outcome |-> "Confirming", after |-> p]
            \/ /\ h.have /\ near
               /\ v = [outcome |-> "Accepted", after |-> [h EXCEPT !.readings = 0]]
            \/ /\ h.have /\ ~near /\ w /\ Size(Size(x - h.offset) - Second) <= Agree
               /\ v = [outcome |-> "LeapSecond", after |-> StartHistory(h, x, t)]
            \/ /\ h.have /\ ~near /\ p.readings >= AdoptReadings
               /\ v = [outcome |-> "Adopted", after |-> StartHistory(p, x, t)]
            \/ /\ h.have /\ ~near /\ ~Held(p, AdoptReadings, AdoptSpan)
               /\ v = [outcome |-> "Refused", after |-> p]
<1> DEFINE p == NotePending(h, x, t)
           near == Size(x - h.offset) <= JumpLimit + Drift(t - h.at)
           first == Held(p, FirstReadings, FirstSpan)
           adopt == Held(p, AdoptReadings, AdoptSpan)
           lp == w /\ Size(Size(x - h.offset) - Second) <= Agree
           v == JudgeTime(h, x, t, w)
<1>0. (first => p.readings >= FirstReadings) /\ (adopt => p.readings >= AdoptReadings)
  BY Zenon DEF Held
<1>1. CASE ~h.have /\ first
  BY <1>1, Zenon, <1>0 DEF JudgeTime
<1>2. CASE ~h.have /\ ~first
  BY <1>2, Zenon DEF JudgeTime
<1>3. CASE h.have /\ near
  BY <1>3, Zenon DEF JudgeTime
<1>4. CASE h.have /\ ~near /\ lp
  <2>1. v = IF w /\ Size(Size(x - h.offset) - Second) <= Agree
            THEN [outcome |-> "LeapSecond", after |-> StartHistory(h, x, t)]
            ELSE IF adopt THEN [outcome |-> "Adopted", after |-> StartHistory(p, x, t)]
                 ELSE [outcome |-> "Refused", after |-> p]
    BY <1>4, Zenon DEF JudgeTime
  <2> QED BY <1>4, <2>1, Zenon
<1>5. CASE h.have /\ ~near /\ ~lp
  <2>1. v = IF w /\ Size(Size(x - h.offset) - Second) <= Agree
            THEN [outcome |-> "LeapSecond", after |-> StartHistory(h, x, t)]
            ELSE IF adopt THEN [outcome |-> "Adopted", after |-> StartHistory(p, x, t)]
                 ELSE [outcome |-> "Refused", after |-> p]
    BY <1>5, Zenon DEF JudgeTime
  <2> QED BY <1>0, <1>5, <2>1, Zenon
<1> QED BY <1>1, <1>2, <1>3, <1>4, <1>5, Zenon

(* Samples of one offset have it for their median.                         *)
LEMMA MedianFact ==
  ASSUME NEW S, IsFiniteSet(S), S # {}, NEW o \in Int, \A s \in S : s.offset = o
  PROVE  MedianOffset(S) = o
<1> DEFINE n == Cardinality(S)
<1>1. n \in Nat /\ n > 0
  BY FS_CardinalityType, FS_EmptySet
<1>2. {s.offset : s \in S} = {o}
  OBVIOUS
<1>3. Cardinality({s \in S : s.offset < o}) = 0
  <2>1. {s \in S : s.offset < o} = {}
    OBVIOUS
  <2> QED BY <2>1, FS_EmptySet
<1>4. Cardinality({s \in S : s.offset <= o}) = n
  <2>1. {s \in S : s.offset <= o} = S
    OBVIOUS
  <2> QED BY <2>1
<1> HIDE DEF n
<1>5. ASSUME NEW k \in 1..n PROVE Ranked(S, k) = o
  <2> DEFINE Q(x) == /\ Cardinality({s \in S : s.offset < x}) < k
                     /\ Cardinality({s \in S : s.offset <= x}) >= k
  <2>1. Q(o)
    BY <1>1, <1>3, <1>4
  <2> HIDE DEF Q
  <2>2. (CHOOSE x \in {o} : Q(x)) = o
    BY <2>1
  <2> QED BY <1>2, <2>2, Zenon DEF Ranked, Q
<1>6. (n + 1) \div 2 \in 1..n /\ n \div 2 + 1 \in 1..n
  BY <1>1
<1>7. (o + o) \div 2 = o
  OBVIOUS
<1> QED BY <1>5, <1>6, <1>7 DEF MedianOffset, n

LEMMA NatMin == ASSUME NEW T \in SUBSET Nat, T # {} PROVE \E x \in T : \A y \in T : x <= y
<1> DEFINE R == OpToRel(<, Nat)
<1>1. IsWellFoundedOn(R, Nat)
  BY NatLessThanWellFounded
<1>2. \A x, y \in Nat : <<y, x>> \in R <=> y < x
  BY DEF OpToRel
<1> HIDE DEF R
<1>3. PICK x \in T : \A y \in T : ~(<<y, x>> \in R)
  BY <1>1, WFMin
<1>4. \A y \in T : x <= y
  <2> TAKE y \in T
  <2>1. x \in Nat /\ y \in Nat /\ ~(y < x)
    BY <1>2, <1>3
  <2> QED BY <2>1
<1> QED BY <1>4

(* A finite set of samples has a largest: the one fewest are above.        *)
LEMMA LargestSample ==
  ASSUME NEW T, IsFiniteSet(T), T # {}, T \subseteq Measures
  PROVE  \E t \in T : \A u \in T : u.offset <= t.offset
<1> DEFINE Above(t) == {u \in T : u.offset > t.offset}
           N == {Cardinality(Above(t)) : t \in T}
<1>1. \A t \in T : t.offset \in Int
  BY DEF Measures
<1>2. \A t \in T : IsFiniteSet(Above(t)) /\ Cardinality(Above(t)) \in Nat
  <2> TAKE t \in T
  <2>1. Above(t) \in SUBSET T
    OBVIOUS
  <2> QED BY <2>1, FS_Subset, FS_CardinalityType
<1>3. ASSUME NEW t \in T, NEW u \in T, u.offset > t.offset
      PROVE  Cardinality(Above(u)) < Cardinality(Above(t))
  <2>1. Above(u) \in SUBSET Above(t) /\ u \in Above(t) /\ u \notin Above(u)
    BY <1>1, <1>3
  <2>2. IsFiniteSet(Above(t)) /\ Cardinality(Above(t)) \in Nat /\ Cardinality(Above(u)) \in Nat
    BY <1>2
  <2> HIDE DEF Above
  <2>3. Cardinality(Above(u)) <= Cardinality(Above(t)) /\ Cardinality(Above(u)) # Cardinality(Above(t))
    BY <2>1, <2>2, FS_Subset
  <2> QED BY <2>2, <2>3
<1> HIDE DEF Above
<1>4. N \in SUBSET Nat /\ N # {}
  BY <1>2
<1>5. PICK n \in N : \A y \in N : n <= y
  BY <1>4, NatMin
<1>6. PICK t \in T : n = Cardinality(Above(t))
  BY <1>5
<1>7. ASSUME NEW u \in T PROVE u.offset <= t.offset
  <2>1. Cardinality(Above(t)) <= Cardinality(Above(u))
    BY <1>5, <1>6
  <2>2. ~(u.offset > t.offset)
    BY <1>2, <1>3, <2>1
  <2> QED BY <1>1, <2>2
<1> QED BY <1>7

(* The k-th of a finite set of samples is one of their offsets.            *)
LEMMA RankedInt ==
  ASSUME NEW S, IsFiniteSet(S), S \subseteq Measures, NEW k \in 1..Cardinality(S)
  PROVE  Ranked(S, k) \in Int
<1> DEFINE Below(x) == {s \in S : s.offset < x}
           UpTil(x) == {s \in S : s.offset <= x}
           O == {s.offset : s \in S}
           G == {x \in O : Cardinality(UpTil(x)) >= k}
           N == {Cardinality(UpTil(x)) : x \in G}
<1>1. /\ Cardinality(S) \in Nat /\ k \in Nat /\ k >= 1 /\ k <= Cardinality(S) /\ S # {}
      /\ O \in SUBSET Int /\ \A s \in S : s.offset \in Int
  <2>1. Cardinality(S) \in Nat
    BY FS_CardinalityType
  <2>2. k \in Nat /\ k >= 1 /\ k <= Cardinality(S)
    BY <2>1
  <2> QED BY <2>1, <2>2, FS_EmptySet DEF Measures
<1>2. \A x \in Int : /\ Below(x) \in SUBSET S /\ IsFiniteSet(Below(x)) /\ Cardinality(Below(x)) \in Nat
                     /\ UpTil(x) \in SUBSET S /\ IsFiniteSet(UpTil(x)) /\ Cardinality(UpTil(x)) \in Nat
  <2> TAKE x \in Int
  <2>1. Below(x) \in SUBSET S /\ UpTil(x) \in SUBSET S
    OBVIOUS
  <2> HIDE DEF Below, UpTil
  <2> QED BY <2>1, FS_Subset, FS_CardinalityType
<1>3. G # {}
  <2>1. PICK t \in S : \A u \in S : u.offset <= t.offset
    BY <1>1, LargestSample
  <2>2. UpTil(t.offset) = S
    BY <1>1, <2>1
  <2>3. t.offset \in O
    BY <2>1
  <2> HIDE DEF UpTil, O
  <2>4. Cardinality(UpTil(t.offset)) >= k
    BY <1>1, <2>2
  <2> QED BY <2>3, <2>4
<1>4. N \in SUBSET Nat /\ N # {}
  <2> HIDE DEF UpTil
  <2> QED BY <1>1, <1>2, <1>3
<1>5. PICK n \in N : \A y \in N : n <= y
  BY <1>4, NatMin
<1>6. PICK x \in G : n = Cardinality(UpTil(x))
  BY <1>5
<1>7. PICK sx \in S : sx.offset = x
  BY <1>6
<1>8. x \in Int /\ x \in O /\ Cardinality(UpTil(x)) >= k
  BY <1>1, <1>6
<1>9. Cardinality(Below(x)) < k
  <2>a. /\ Below(x) \in SUBSET S /\ IsFiniteSet(Below(x)) /\ Cardinality(Below(x)) \in Nat
        /\ IsFiniteSet(UpTil(x)) /\ Cardinality(UpTil(x)) \in Nat
    <3> HIDE DEF Below, UpTil, G, O
    <3> QED BY <1>2, <1>8
  <2> SUFFICES ASSUME Cardinality(Below(x)) >= k PROVE FALSE
    <3> HIDE DEF Below, G, O
    <3> QED BY <1>1, <2>a
  <2>1. Below(x) # {} /\ Below(x) \subseteq Measures /\ IsFiniteSet(Below(x))
    <3> HIDE DEF Below, G, O
    <3>1. Cardinality(Below(x)) # 0
      BY <1>1, <2>a
    <3> QED BY <2>a, <3>1, FS_EmptySet
  <2>2. PICK t \in Below(x) : \A u \in Below(x) : u.offset <= t.offset
    <3> HIDE DEF Below
    <3> QED BY <2>1, LargestSample
  <2>3. t \in S /\ t.offset \in Int /\ t.offset < x
    BY <1>1, <2>2
  <2>4. UpTil(t.offset) = Below(x)
    BY <1>1, <1>8, <2>2, <2>3
  <2>5. t.offset \in G
    <3>1. t.offset \in O
      BY <2>3
    <3> HIDE DEF O, UpTil, Below
    <3> QED BY <2>4, <3>1
  <2>6. Cardinality(UpTil(x)) <= Cardinality(Below(x))
    <3> HIDE DEF UpTil, Below
    <3>1. Cardinality(UpTil(t.offset)) \in N
      BY <2>5
    <3> QED BY <1>5, <1>6, <2>4, <3>1
  <2>7. Below(x) \in SUBSET UpTil(x) /\ sx \in UpTil(x) /\ sx \notin Below(x)
    BY <1>1, <1>7, <1>8
  <2> HIDE DEF UpTil, Below
  <2>8. Cardinality(Below(x)) <= Cardinality(UpTil(x)) /\ Cardinality(Below(x)) # Cardinality(UpTil(x))
    BY <1>2, <1>8, <2>7, FS_Subset
  <2> QED BY <1>2, <1>8, <2>6, <2>8
<1> DEFINE Q(y) == Cardinality(Below(y)) < k /\ Cardinality(UpTil(y)) >= k
<1>10. Q(x) /\ x \in O
  BY <1>8, <1>9
<1>11. Ranked(S, k) = CHOOSE y \in O : Q(y)
  BY Zenon DEF Ranked, Q, O, Below, UpTil
<1> HIDE DEF Q, O
<1> QED BY <1>1, <1>10, <1>11

LEMMA MedianInt ==
  ASSUME NEW S, IsFiniteSet(S), S # {}, S \subseteq Measures
  PROVE  MedianOffset(S) \in Int
<1> DEFINE n == Cardinality(S)
           a == Ranked(S, (n + 1) \div 2)
           b == Ranked(S, n \div 2 + 1)
<1>1. n \in Nat /\ n > 0
  BY FS_CardinalityType, FS_EmptySet
<1>2. (n + 1) \div 2 \in 1..n /\ n \div 2 + 1 \in 1..n
  <2> HIDE DEF n
  <2> QED BY <1>1
<1>3. a \in Int /\ b \in Int
  BY <1>2, RankedInt
<1>4. MedianOffset(S) = (a + b) \div 2
  BY Zenon DEF MedianOffset, a, b, n
<1> HIDE DEF a, b
<1> QED BY <1>3, <1>4

(* A reading that is judged, against a value y that was true at t: it is a *)
(* whole number of seconds from it, and where it equals it or is a second  *)
(* from it in the hours of a leap second, it is right or passes for one.   *)
LEMMA ReadingFact ==
  ASSUME NEW e \in Errors, minute \in Nat, leap \in BOOLEAN, frameAt = minute - 1, frameAt # 0,
         NEW x, x = Truth(frameAt) + e,
         ~CrossesBoundary(240 * frameAt + e, Label(minute) + x), x # Truth(minute)
  PROVE  /\ x \in Int /\ x % 4 = 0
         /\ \A t \in Int : t <= minute /\ x = Truth(t) => PassesForLeap(e)
         /\ \A t \in Int : t <= minute /\ InLeapWindow(Label(minute) + x)
                             /\ Size(Size(x - Truth(t)) - Second) <= Agree => PassesForLeap(e)
<1> DEFINE M == MonthEnd
           y(t) == IF leap /\ t >= M THEN -4 ELSE 0
<1>1. e \in Int /\ e % 4 = 0 /\ M \in Nat
  BY TimingAssumption
<1>2. PICK k \in Int : e = 4 * k
  BY <1>1
<1>3. \A t \in Int : Truth(t) = y(t)
  BY DEF Truth, Second
<1>4. minute - 1 \in Int /\ minute \in Int
  OBVIOUS
<1>5. x = y(minute - 1) + e /\ x # y(minute)
  BY <1>3, <1>4
<1>6. x \in Int /\ x % 4 = 0
  BY <1>2, <1>5
<1>7. ~(240 * (minute - 1) + e < 240 * M /\ 240 * minute + 120 + x >= 240 * M)
  BY DEF CrossesBoundary, Boundary, Label
<1>8. InLeapWindow(Label(minute) + x) => 240 * minute + 120 + x >= 240 * M
  BY DEF InLeapWindow, Label, Boundary
<1>9. ASSUME NEW t \in Int, t <= minute, x = y(t) PROVE minute > M /\ e = 4
  BY <1>1, <1>5, <1>7, <1>9
<1>10. ASSUME NEW t \in Int, t <= minute, 240 * minute + 120 + x >= 240 * M,
              x - y(t) \in {-4, 4}
       PROVE  minute > M /\ e \in {4, -4, 8}
  BY <1>1, <1>5, <1>7, <1>10
<1>11. ASSUME NEW t \in Int, Size(Size(x - y(t)) - 4) <= 1 PROVE x - y(t) \in {-4, 4}
  <2>1. x - y(t) \in {4 * k, 4 * (k - 1), 4 * (k + 1)}
    BY <1>2, <1>5
  <2> QED BY <1>11, <2>1 DEF Size
<1>12. minute > M /\ e \in {4, -4, 8} => PassesForLeap(e)
  BY DEF PassesForLeap, Second, Size
<1> HIDE DEF y
<1>13. \A t \in Int : t <= minute /\ x = Truth(t) => PassesForLeap(e)
  BY <1>3, <1>9, <1>12
<1>14. ASSUME NEW t \in Int, t <= minute, InLeapWindow(Label(minute) + x),
              Size(Size(x - Truth(t)) - Second) <= Agree
       PROVE  PassesForLeap(e)
  BY <1>3, <1>8, <1>10, <1>11, <1>12, <1>14 DEF Second, Agree
<1> QED BY <1>6, <1>13, <1>14

LEMMA DriftInt == ASSUME NEW s \in Int PROVE Drift(s) \in Int
  BY TimingAssumption DEF Drift, Size

(* Two times that are not the same are a second apart.                     *)
LEMMA Apart ==
  ASSUME NEW x \in Int, NEW y \in Int, x % 4 = 0, y % 4 = 0, x # y
  PROVE  Size(x - y) \in Int /\ Size(x - y) >= 4
<1>1. PICK j \in Int : x = 4 * j
  OBVIOUS
<1>2. PICK k \in Int : y = 4 * k
  OBVIOUS
<1> QED BY <1>1, <1>2 DEF Size

(* A time that is read leaves everything in step with the truth, or fools  *)
(* every check.                                                            *)
LEMMA ReadKeeps ==
  ASSUME NEW e \in Errors, ~fooled, TimingTypes, Historic, Contended, Uniform, ReadTime(e)
  PROVE  TimingInv'
<1> SUFFICES ASSUME ~fooled' PROVE (TimingTypes /\ Historic /\ Contended /\ Uniform)'
  BY DEF TimingInv
<1> DEFINE x == Truth(frameAt) + e
           h == continuity
           w == InLeapWindow(Label(minute) + x)
           v == JudgeTime(h, x, minute, w)
           p == NotePending(h, x, minute)
<1>1. /\ ClockTime(e) /\ UNCHANGED <<minute, leap, frameAt>> /\ stage' = "second"
      /\ frameAt = minute - 1 /\ frameAt # 0
  BY DEF ReadTime, ClockTime, TimingTypes
<1>2. CASE CrossesBoundary(240 * frameAt + e, Label(minute) + x)
  <2>1. UNCHANGED <<samples, continuity, misreadVars>> /\ anchor' = NoAnchor
    BY <1>1, <1>2, Zenon DEF ReadTime, ClockTime
  <2>2. ~anchor'.have /\ anchor' \in [have : BOOLEAN, at : Int, offset : Int]
    BY <2>1 DEF NoAnchor
  <2> QED BY <1>1, <2>1, <2>2
          DEF TimingTypes, Historic, Contended, Uniform, Believed, Truth, misreadVars
<1>3. CASE ~CrossesBoundary(240 * frameAt + e, Label(minute) + x)
  <2>1. /\ h' = v.after /\ samples' = IF DiscardFiltered(v) THEN {} ELSE samples
        /\ anchor' = IF Admitted(v) THEN [have |-> TRUE, at |-> minute, offset |-> x] ELSE anchor
    BY <1>1, <1>3, Zenon DEF ClockTime
  <2>2. /\ lastRead' = x /\ (confirmed' <=> confirmed \/ h'.have)
        /\ wrongRun' = IF x = Truth(minute) THEN 0 ELSE IF x = lastRead THEN wrongRun + 1 ELSE 1
        /\ ~(wrongRun' >= Needed) /\ ~PassesForLeap(e) /\ ~PassesForDrift(x)
    BY <1>3, Zenon DEF ReadTime
  <2>3. /\ h \in Histories /\ minute \in Int /\ minute \in Nat /\ leap \in BOOLEAN /\ wrongRun \in Nat
        /\ wrongRun' \in Nat
    BY <2>2 DEF TimingTypes
  <2>4. e \in Int /\ x \in Int /\ x % 4 = 0
    <3>1. e \in Int /\ e % 4 = 0
      BY TimingAssumption
    <3> QED BY <3>1 DEF Truth, Second
  <2>5. \A t \in Int : Truth(t)' = Truth(t) /\ Truth(t) \in Int
    BY <1>1 DEF Truth, Second
  <2>6. w \in BOOLEAN
    BY DEF InLeapWindow
  <2> HIDE DEF x, v, w, p
  \* A value that was true is true now, if the reading equals it.
  <2>7. ASSUME NEW t \in Int, t <= minute, x = Truth(t) PROVE x = Truth(minute)
    BY <1>1, <1>3, <2>2, <2>3, <2>7, ReadingFact DEF x
  <2>8. ASSUME NEW t \in Int, t <= minute, w, Size(Size(x - Truth(t)) - Second) <= Agree
        PROVE x = Truth(minute)
    BY <1>1, <1>3, <2>2, <2>3, <2>8, ReadingFact DEF x, w
  \* The pending time after this reading.
  <2>9. /\ p \in Histories /\ (p.have <=> h.have) /\ p.offset = h.offset /\ p.at = h.at
        /\ p.pending = x /\ p.lastAt = minute /\ p.readings \in Nat
        /\ x = Truth(minute) \/ p.readings <= wrongRun'
    <3> DEFINE agrees == h.readings > 0 /\ Size(x - h.pending) <= Agree + Drift(minute - h.lastAt)
    <3>1. /\ p \in Histories /\ (p.have <=> h.have) /\ p.offset = h.offset /\ p.at = h.at
          /\ p.pending = x /\ p.lastAt = minute
          /\ p.readings = 1 \/ (agrees /\ p.readings = h.readings + 1)
      BY <2>3, <2>4, PendingFact DEF p
    <3>2. h.readings \in Nat /\ h.lastAt \in Int /\ h.pending \in Int /\ p.readings \in Nat
      BY <2>3, <3>1 DEF Histories
    <3>3. ASSUME agrees, x # Truth(minute) PROVE h.readings + 1 <= wrongRun'
      <4>1. x = h.pending
        <5>1. h.pending % 4 = 0
          BY <3>3 DEF Contended
        <5>2. ~(x # h.pending /\ Drift(minute - h.lastAt) >= 2)
          BY <2>2, <3>3 DEF PassesForDrift
        <5>3. Drift(minute - h.lastAt) \in Int
          BY <2>3, <3>2, DriftInt
        <5>4. Size(x - h.pending) <= 1 + Drift(minute - h.lastAt)
          BY <3>3 DEF Agree
        <5>5. CASE x # h.pending
          <6>1. Size(x - h.pending) \in Int /\ Size(x - h.pending) >= 4
            BY <2>4, <3>2, <5>1, <5>5, Apart
          <6> QED BY <5>2, <5>3, <5>4, <5>5, <6>1
        <5> QED BY <5>5
      <4>2. h.lastAt <= minute /\ lastRead = h.pending
            /\ (h.pending = Truth(h.lastAt) \/ h.readings <= wrongRun)
        BY <3>3 DEF Contended
      <4>3. h.readings <= wrongRun
        BY <2>7, <3>2, <3>3, <4>1, <4>2
      <4> QED BY <2>2, <2>3, <3>2, <3>3, <4>1, <4>2, <4>3
    <3>4. x # Truth(minute) => wrongRun' >= 1
      BY <2>2, <2>3
    <3> QED BY <2>3, <3>1, <3>2, <3>3, <3>4
  <2>10. \/ ~h.have /\ p.readings >= FirstReadings
            /\ v = [outcome |-> "FirstConfirmed", after |-> StartHistory(p, x, minute)]
         \/ ~h.have /\ v = [outcome |-> "Confirming", after |-> p]
         \/ h.have /\ Size(x - h.offset) <= JumpLimit + Drift(minute - h.at)
            /\ v = [outcome |-> "Accepted", after |-> [h EXCEPT !.readings = 0]]
         \/ h.have /\ w /\ Size(Size(x - h.offset) - Second) <= Agree
            /\ v = [outcome |-> "LeapSecond", after |-> StartHistory(h, x, minute)]
         \/ h.have /\ p.readings >= AdoptReadings
            /\ v = [outcome |-> "Adopted", after |-> StartHistory(p, x, minute)]
         \/ h.have /\ v = [outcome |-> "Refused", after |-> p]
    BY <2>3, <2>4, <2>6, TimeVerdict DEF v, p
  <2>11. FirstReadings \in Nat /\ AdoptReadings \in Nat
    BY TimingAssumption
  <2>12. ~h.have => ~anchor.have /\ samples = {}
    BY DEF Uniform, Believed
  <2>13. IsFiniteSet({})
    BY FS_EmptySet
  \* A reading that is admitted is right; what is left then is as the invariant says.
  <2>14. ASSUME x = Truth(minute), h' \in Histories, h'.have, h'.offset = x, h'.readings = 0,
                h'.at = minute \/ (h.have /\ h'.at = h.at /\ h.offset = x),
                anchor' = [have |-> TRUE, at |-> minute, offset |-> x],
                samples' = {} \/ (samples' = samples /\ h.have /\ h.offset = x)
         PROVE  (TimingTypes /\ Historic /\ Contended /\ Uniform)'
    <3>1. anchor' \in [have : BOOLEAN, at : Int, offset : Int] /\ anchor'.at = minute /\ anchor'.offset = x
      BY <2>3, <2>4, <2>14
    <3>2. TimingTypes'
      BY <1>1, <2>3, <2>13, <2>14, <3>1 DEF TimingTypes
    <3>3. Historic'
      <4>1. h.have => h.at \in Int /\ h.at <= minute /\ h.offset = Truth(h.at)
        BY <2>3 DEF Historic, Histories
      <4>2. confirmed' <=> h'.have
        BY <2>2, <2>14
      <4>3. h'.at \in Int /\ h'.at <= minute /\ h'.offset = Truth(h'.at)
        BY <2>3, <2>14, <4>1
      <4> QED BY <1>1, <2>5, <4>2, <4>3 DEF Historic
    <3>4. Contended'
      BY <2>14 DEF Contended
    <3>5. Uniform'
      <4>1. ASSUME NEW s \in samples, h.have, h.offset = x
            PROVE  s.at \in Int /\ s.offset = x /\ s.at <= minute /\ s.offset = Truth(s.at)
        BY <4>1 DEF Uniform, Believed, TimingTypes, Measures
      <4>2. \A s \in samples' : s.at \in Int /\ s.offset = x /\ s.at <= minute /\ s.offset = Truth(s.at)
        BY <2>14, <4>1
      <4> QED BY <1>1, <2>3, <2>5, <2>14, <3>1, <4>2 DEF Uniform, Believed
    <3> QED BY <3>2, <3>3, <3>4, <3>5
  \* One that is not admitted only counts.
  <2>15. ASSUME h' = p, samples' = samples, anchor' = anchor
         PROVE  (TimingTypes /\ Historic /\ Contended /\ Uniform)'
    <3>1. TimingTypes'
      BY <1>1, <2>3, <2>9, <2>15 DEF TimingTypes
    <3>2. Historic'
      <4>1. h.have => h.at \in Int /\ h.at <= minute /\ h.offset = Truth(h.at)
        BY <2>3 DEF Historic, Histories
      <4>2. confirmed' <=> h'.have
        BY <2>2, <2>9, <2>15 DEF Historic
      <4> QED BY <1>1, <2>5, <2>9, <2>15, <4>1, <4>2 DEF Historic
    <3>3. Contended'
      BY <1>1, <2>2, <2>3, <2>4, <2>5, <2>9, <2>15 DEF Contended
    <3>4. Uniform'
      <4>1. anchor.have => anchor.at \in Int
        BY DEF TimingTypes
      <4>2. \A s \in samples : s.at \in Int
        BY DEF TimingTypes, Measures
      <4> QED BY <1>1, <2>5, <2>9, <2>15, <4>1, <4>2 DEF Uniform, Believed
    <3> QED BY <3>1, <3>2, <3>3, <3>4
  <2>16. CASE ~h.have /\ p.readings >= FirstReadings
              /\ v = [outcome |-> "FirstConfirmed", after |-> StartHistory(p, x, minute)]
    <3>1. x = Truth(minute)
      <4>1. Needed = FirstReadings
        BY <2>16 DEF Needed, Historic
      <4> QED BY <2>2, <2>3, <2>9, <2>11, <2>16, <4>1
    <3>2. v.after = StartHistory(p, x, minute) /\ Admitted(v) /\ ~DiscardFiltered(v)
      BY <2>16 DEF Admitted, DiscardFiltered
    <3> QED BY <2>1, <2>3, <2>4, <2>9, <2>12, <2>14, <2>16, <3>1, <3>2, StartFact
  <2>17. CASE ~h.have /\ v = [outcome |-> "Confirming", after |-> p]
    <3>1. v.after = p /\ ~Admitted(v) /\ ~DiscardFiltered(v)
      BY <2>17 DEF Admitted, DiscardFiltered
    <3> QED BY <2>1, <2>15, <3>1
  <2>18. CASE h.have /\ Size(x - h.offset) <= JumpLimit + Drift(minute - h.at)
              /\ v = [outcome |-> "Accepted", after |-> [h EXCEPT !.readings = 0]]
    <3>1. h.at \in Int /\ h.offset \in Int /\ h.at <= minute /\ h.offset = Truth(h.at)
      BY <2>3, <2>18 DEF Histories, Historic
    <3>2. x = h.offset
      <4>1. h.offset % 4 = 0
        BY <3>1 DEF Truth, Second
      <4>2. ~(x # h.offset /\ Drift(minute - h.at) >= 2)
        BY <2>2, <2>18 DEF PassesForDrift
      <4>3. Drift(minute - h.at) \in Int
        BY <2>3, <3>1, DriftInt
      <4>4. Size(x - h.offset) <= 2 + Drift(minute - h.at)
        BY <2>18 DEF JumpLimit
      <4>5. CASE x # h.offset
        <5>1. Size(x - h.offset) \in Int /\ Size(x - h.offset) >= 4
          BY <2>4, <3>1, <4>1, <4>5, Apart
        <5> QED BY <4>2, <4>3, <4>4, <4>5, <5>1
      <4> QED BY <4>5
    <3>3. x = Truth(minute)
      BY <2>7, <3>1, <3>2
    <3>4. v.after = [h EXCEPT !.readings = 0] /\ Admitted(v) /\ ~DiscardFiltered(v)
      BY <2>18 DEF Admitted, DiscardFiltered
    <3>5. h' \in Histories /\ h'.have /\ h'.offset = x /\ h'.readings = 0 /\ h'.at = h.at
      BY <2>1, <2>3, <2>18, <3>2, <3>4 DEF Histories
    <3> QED BY <2>1, <2>14, <2>18, <3>2, <3>3, <3>4, <3>5
  <2>19. CASE h.have /\ w /\ Size(Size(x - h.offset) - Second) <= Agree
              /\ v = [outcome |-> "LeapSecond", after |-> StartHistory(h, x, minute)]
    <3>1. h.at \in Int /\ h.at <= minute /\ h.offset = Truth(h.at)
      BY <2>3, <2>19 DEF Histories, Historic
    <3>2. x = Truth(minute)
      BY <2>8, <2>19, <3>1
    <3>3. v.after = StartHistory(h, x, minute) /\ Admitted(v) /\ DiscardFiltered(v)
      BY <2>19 DEF Admitted, DiscardFiltered
    <3> QED BY <2>1, <2>3, <2>4, <2>14, <3>2, <3>3, StartFact
  <2>20. CASE h.have /\ p.readings >= AdoptReadings
              /\ v = [outcome |-> "Adopted", after |-> StartHistory(p, x, minute)]
    <3>1. x = Truth(minute)
      <4>1. Needed = AdoptReadings
        BY <2>20 DEF Needed, Historic
      <4> QED BY <2>2, <2>3, <2>9, <2>11, <2>20, <4>1
    <3>2. v.after = StartHistory(p, x, minute) /\ Admitted(v) /\ DiscardFiltered(v)
      BY <2>20 DEF Admitted, DiscardFiltered
    <3> QED BY <2>1, <2>3, <2>4, <2>9, <2>14, <3>1, <3>2, StartFact
  <2>21. CASE h.have /\ v = [outcome |-> "Refused", after |-> p]
    <3>1. v.after = p /\ ~Admitted(v) /\ ~DiscardFiltered(v)
      BY <2>21 DEF Admitted, DiscardFiltered
    <3> QED BY <2>1, <2>15, <3>1
  <2> QED BY <2>10, <2>16, <2>17, <2>18, <2>19, <2>20, <2>21
<1> QED BY <1>2, <1>3

(* A second that is measured is dated by an anchor of its own side of the  *)
(* month's end, and the history is renewed by the samples' one offset.     *)
LEMMA SecondKeeps ==
  ASSUME ~fooled, TimingTypes, Historic, Contended, Uniform, ClockSecond,
         UNCHANGED <<misreadVars, rightFor>>
  PROVE  TimingInv'
<1> DEFINE h == continuity
           o == anchor.offset
           new == [at |-> minute, offset |-> o]
<1>1. stage' = "done" /\ UNCHANGED <<minute, leap, frameAt>>
  BY DEF ClockSecond
<1>2. /\ minute \in Nat /\ minute \in Int /\ h \in Histories /\ anchor.at \in Int /\ o \in Int
      /\ LevelWindow \in Nat /\ MonthEnd \in Nat
  BY TimingAssumption DEF TimingTypes
<1>3. \A t \in Int : Truth(t)' = Truth(t)
  BY <1>1 DEF Truth
<1>4. CASE UNCHANGED <<samples, continuity>> /\ (anchor' = NoAnchor \/ anchor' = anchor)
  <2>1. ~NoAnchor.have /\ NoAnchor \in [have : BOOLEAN, at : Int, offset : Int]
    BY DEF NoAnchor
  <2> QED BY <1>1, <1>4, <2>1
          DEF TimingInv, TimingTypes, Historic, Contended, Uniform, Believed, Truth, misreadVars
<1>5. CASE /\ anchor.have /\ ~PastBoundary /\ samples' = AddSample(o) /\ UNCHANGED anchor
           /\ h' = IF Valid(samples') THEN NoteFiltered(h, MedianOffset(samples'), minute) ELSE h
  <2>1. h.have /\ o = h.offset /\ anchor.at <= minute /\ o = Truth(anchor.at)
    BY <1>5 DEF Uniform, Believed
  <2>2. o = Truth(minute)
    <3>1. CASE ~leap \/ anchor.at >= MonthEnd \/ minute < MonthEnd
      BY <1>2, <2>1, <3>1 DEF Truth, Second
    <3>2. CASE leap /\ anchor.at < MonthEnd /\ minute >= MonthEnd
      <4>1. o = 0
        BY <1>2, <2>1, <3>2 DEF Truth
      <4> QED BY <1>2, <1>5, <3>2, <4>1 DEF PastBoundary, Label, Boundary
    <3> QED BY <1>2, <3>1, <3>2 DEF TimingTypes
  <2>3. samples' \subseteq samples \cup {new} /\ new \in samples'
    BY <1>2, <1>5 DEF AddSample
  <2>4. IsFiniteSet(samples')
    BY <2>3, FS_AddElement, FS_Subset DEF TimingTypes
  <2>5. new \in Measures /\ new.at = minute /\ new.offset = o
    BY <1>2 DEF Measures
  <2>6. \A s \in samples' : /\ s \in Measures /\ s.at \in Int /\ s.offset = o
                            /\ s.at <= minute /\ s.offset = Truth(s.at)
    <3>1. \A s \in samples : /\ s \in Measures /\ s.at \in Int /\ s.offset = o
                             /\ s.at <= minute /\ s.offset = Truth(s.at)
      BY <2>1 DEF Uniform, Believed, TimingTypes, Measures
    <3> QED BY <1>2, <2>2, <2>3, <2>5, <3>1
  <2>7. MedianOffset(samples') = o
    BY <1>2, <2>3, <2>4, <2>6, MedianFact
  <2>8. /\ h' \in Histories /\ h'.have /\ h'.offset = o /\ h'.readings = h.readings
        /\ h'.pending = h.pending /\ h'.lastAt = h.lastAt
        /\ h'.at \in Int /\ h'.at <= minute /\ h'.offset = Truth(h'.at)
    <3>1. h.at \in Int /\ h.at <= minute /\ h.offset = Truth(h.at)
      BY <1>2, <2>1 DEF Histories, Historic
    <3>2. CASE Valid(samples')
      <4>1. h' = NoteFiltered(h, o, minute)
        BY <1>5, <2>7, <3>2
      <4> QED BY <1>2, <2>2, <4>1, FilteredFact
    <3>3. CASE ~Valid(samples')
      BY <1>2, <1>5, <2>1, <3>1, <3>3
    <3> QED BY <3>2, <3>3
  <2>9. TimingTypes'
    BY <1>1, <1>5, <2>4, <2>6, <2>8 DEF TimingTypes, misreadVars
  <2>10. Historic'
    BY <1>1, <1>3, <2>1, <2>8 DEF Historic, misreadVars
  <2>11. Contended'
    <3>1. h.lastAt \in Int
      BY <1>2 DEF Histories
    <3> QED BY <1>1, <1>3, <2>8, <3>1 DEF Contended, misreadVars
  <2>12. Uniform'
    BY <1>1, <1>2, <1>3, <1>5, <2>1, <2>6, <2>8 DEF Uniform, Believed
  <2> QED BY <2>9, <2>10, <2>11, <2>12 DEF TimingInv
<1> QED BY <1>4, <1>5 DEF ClockSecond

LEMMA TimingInvInit == Init => TimingInv
<1> SUFFICES ASSUME Init PROVE TimingTypes /\ Historic /\ Contended /\ Uniform
  BY DEF TimingInv
<1>1. /\ minute = 2 /\ stage = "frame" /\ leap \in BOOLEAN /\ anchor = NoAnchor /\ samples = {}
      /\ continuity = NoHistory /\ wrongRun = 0 /\ ~confirmed
  BY DEF Init, TimingInit
<1>2. continuity \in Histories /\ ~continuity.have /\ continuity.readings = 0
  BY <1>1 DEF NoHistory, Histories
<1>3. anchor \in [have : BOOLEAN, at : Int, offset : Int] /\ ~anchor.have
  BY <1>1 DEF NoAnchor
<1> QED BY <1>1, <1>2, <1>3, FS_EmptySet
        DEF TimingTypes, Historic, Contended, Uniform, Measures

(* Everything else drops an anchor or samples, or lets time pass.          *)
LEMMA SpoilKeeps ==
  ASSUME ~fooled, TimingTypes, Historic, Contended, Uniform,
         UNCHANGED <<misreadVars, continuity, leap>>, minute' \in {minute, minute + 1},
         stage' = "time" => frameAt' \in {0, minute' - 1},
         samples' \in {samples, {}}, anchor' \in {anchor, NoAnchor}
  PROVE  TimingInv'
<1>1. ~NoAnchor.have /\ NoAnchor \in [have : BOOLEAN, at : Int, offset : Int]
  BY DEF NoAnchor
<1>2. minute \in Nat /\ minute' \in Nat /\ minute <= minute'
  BY DEF TimingTypes
<1>3. /\ continuity.at \in Int /\ continuity.lastAt \in Int /\ anchor.at \in Int
      /\ \A s \in samples : s.at \in Int
  BY DEF TimingTypes, Histories, Measures
<1>4. TimingTypes'
  BY <1>1, <1>2, FS_EmptySet DEF TimingTypes, misreadVars
<1>5. Historic' /\ Contended'
  BY <1>2, <1>3 DEF Historic, Contended, Truth, misreadVars
<1>6. Uniform'
  BY <1>1, <1>2, <1>3 DEF Uniform, Believed, Truth
<1> QED BY <1>4, <1>5, <1>6 DEF TimingInv

LEMMA TimingInvStep == TimingInv /\ [Next]_vars => TimingInv'
<1> SUFFICES ASSUME TimingInv, [Next]_vars PROVE TimingInv'
  OBVIOUS
<1>1. CASE fooled
  BY <1>1 DEF TimingInv, Next, TimingStep, StreamStep, HoldStep, TagStep, TripStep, ReadTime, Spoil,
              ReadFrame, Edge, misreadVars, timingAll, vars
<1>2. CASE ~fooled
  <2> USE <1>2 DEF TimingInv
  <2>1. ASSUME NEW e \in Errors, ReadTime(e) PROVE TimingInv'
    BY <2>1, ReadKeeps
  <2>2. CASE Spoil
    <3>1. CASE \E s \in {"nosignal", "acquiring", "locked"} : ClockState(s)
      BY <2>2, <3>1, SpoilKeeps DEF Spoil, ClockState, TimingTypes
    <3>2. CASE Skip
      <4>1. stage' # "time"
        BY <3>2 DEF Skip
      <4> QED BY <2>2, <3>2, <4>1, SpoilKeeps DEF Spoil, Skip
    <3>3. CASE DiscardTiming
      BY <2>2, <3>3, SpoilKeeps DEF Spoil, DiscardTiming, TimingTypes
    <3>4. CASE ResetStream
      BY <2>2, <3>4, SpoilKeeps DEF Spoil, ResetStream
    <3> QED BY <2>2, <3>1, <3>2, <3>3, <3>4 DEF Spoil
  <2>3. CASE ReadFrame
    BY <2>3, SpoilKeeps DEF ReadFrame, ClockFrame
  <2>4. CASE Edge /\ ClockSecond
    BY <2>4, SecondKeeps DEF Edge
  <2>5. CASE Edge /\ NextMinute
    BY <2>5, SpoilKeeps DEF Edge, NextMinute
  <2>6. CASE UNCHANGED timingAll
    BY <2>6, SpoilKeeps DEF timingAll, timingVars, TimingTypes
  <2>7. StreamStep \/ HoldStep \/ TagStep \/ TripStep \/ UNCHANGED vars => UNCHANGED timingAll
    BY DEF StreamStep, HoldStep, TagStep, TripStep, vars
  <2> QED BY <2>1, <2>2, <2>3, <2>4, <2>5, <2>6, <2>7 DEF Next, TimingStep, Edge
<1> QED BY <1>1, <1>2

(* No second goes into the filter that is not the true one, for every set  *)
(* of misreads by whole seconds, every month end and window, and every     *)
(* number of readings and minutes a time must hold, unless a misread held, *)
(* or passed for a leap second or for hours of drift.                      *)
THEOREM SamplesTrue == Spec => []SamplesAreTrue
<1>1. TimingInv => SamplesAreTrue
  BY DEF TimingInv, SamplesAreTrue, Uniform, Believed
<1> QED BY <1>1, TimingInvInit, TimingInvStep, PTL DEF Spec
-----------------------------------------------------------------------------
(* A history that is wrong.  In a run of minutes read right, Reads is how  *)
(* many times have been read and Seconds how many seconds measured after   *)
(* one; LastRead and LastSecond are the minutes of the last of each.       *)
Reads      == IF stage = "time" THEN rightFor - 1 ELSE rightFor
LastRead   == IF stage \in {"second", "done"} THEN minute ELSE minute - 1
Seconds    == IF stage \in {"time", "second"} THEN rightFor - 1 ELSE rightFor
LastSecond == IF stage = "done" THEN minute ELSE minute - 1

HealTypes ==
  /\ minute \in Nat
  /\ stage \in {"frame", "time", "second", "done"} /\ leap \in BOOLEAN /\ rightFor \in Nat
  /\ stage = "time" => frameAt \in {0, minute - 1}
  /\ continuity \in Histories /\ anchor \in [have : BOOLEAN, at : Int, offset : Int]
  /\ IsFiniteSet(samples) /\ samples \subseteq Measures

\* Nothing is dated after the clock, nor a pending time after its last reading.
NoneAhead ==
  /\ continuity.readings > 0 => /\ continuity.firstAt <= continuity.lastAt
                                /\ continuity.lastAt <= minute
  /\ \A s \in samples : s.at <= minute

(* A time read right in a row is the history's and the anchor's, or it is  *)
(* pending with all of its readings and has not held for long enough.  The *)
(* anchor and the filter are of one time with the history, which drift may *)
(* have taken from them before the run.                                    *)
Mended ==
  /\ continuity.have /\ continuity.offset = Truth(LastRead)
  /\ anchor.have /\ anchor.at = LastRead
Mending ==
  /\ Reads < HoldsFor /\ continuity.readings >= Reads /\ continuity.pending = Truth(LastRead)
  /\ continuity.lastAt = LastRead /\ LastRead - continuity.firstAt >= Reads - 1
RunHeld == Reads >= 1 => lock = "locked" /\ OneTime /\ (Mended \/ Mending)

(* Every second measured by it is in the filter, as far back as that goes. *)
Filled ==
  \A i \in 0..LevelWindow :
    i <= Seconds - HoldsFor => \E s \in samples : s.at = LastSecond - i

HealInv == HealTypes /\ NoneAhead /\ RunHeld /\ Filled

LEMMA HoldsForFact ==
  /\ HoldsFor \in Nat /\ HoldsFor >= 1
  /\ HoldsFor >= FirstReadings /\ HoldsFor > FirstSpan
  /\ HoldsFor >= AdoptReadings /\ HoldsFor > AdoptSpan
<1> DEFINE S == {FirstReadings, FirstSpan + 1, AdoptReadings, AdoptSpan + 1}
           P(x) == \A y \in S : x >= y
<1>1. /\ FirstReadings \in Nat /\ FirstSpan \in Nat /\ AdoptReadings \in Nat /\ AdoptSpan \in Nat
      /\ FirstReadings >= 1
  BY TimingAssumption
<1>2. \E x \in S : P(x)
  <2>1. P(FirstReadings) \/ P(FirstSpan + 1) \/ P(AdoptReadings) \/ P(AdoptSpan + 1)
    BY <1>1
  <2> HIDE DEF P
  <2> QED BY <2>1
<1> HIDE DEF P
<1>3. HoldsFor \in S /\ P(HoldsFor)
  <2>1. HoldsFor = CHOOSE x \in S : P(x)
    BY Zenon DEF HoldsFor, Max, P
  <2> QED BY <1>2, <2>1
<1> QED BY <1>1, <1>3 DEF P

(* The same time is never contradicted, whatever drift is allowed for.     *)
LEMMA SameIsNear ==
  ASSUME NEW x \in Int, NEW a \in Int PROVE Size(x - x) <= JumpLimit + Drift(a)
<1>1. DriftEvery \in Nat /\ DriftEvery >= 1
  BY TimingAssumption
<1>2. Size(a) \in Nat
  BY DEF Size
<1>3. Drift(a) \in Int /\ Drift(a) >= 0
  BY <1>1, <1>2 DEF Drift
<1> QED BY <1>3 DEF Size, JumpLimit

LEMMA TruthFact == ASSUME NEW m \in Int PROVE Truth(m) \in Int
  BY DEF Truth, Second

LEMMA HealInvInit == Init => HealInv
<1> SUFFICES ASSUME Init PROVE HealInv
  OBVIOUS
<1>1. /\ minute = 2 /\ stage = "frame" /\ leap \in BOOLEAN /\ anchor = NoAnchor /\ samples = {}
      /\ continuity = NoHistory /\ rightFor = 0
  BY DEF Init, TimingInit
<1>2. continuity \in Histories /\ ~continuity.have /\ continuity.readings = 0
  BY <1>1 DEF NoHistory, Histories
<1>3. anchor \in [have : BOOLEAN, at : Int, offset : Int] /\ ~anchor.have
  BY <1>1 DEF NoAnchor
<1>4. HealTypes
  BY <1>1, <1>2, <1>3, FS_EmptySet DEF HealTypes, Measures
<1>5. NoneAhead
  BY <1>1, <1>2 DEF NoneAhead
<1>6. RunHeld /\ Filled
  BY <1>1, HoldsForFact, TimingAssumption DEF RunHeld, Filled, Reads, Seconds
<1> QED BY <1>4, <1>5, <1>6 DEF HealInv

(* Losing the stream, or any part of a minute, ends the run.               *)
LEMMA HealSpoiled ==
  ASSUME HealInv, rightFor' = 0, UNCHANGED <<continuity, leap, minute>>,
         stage' \in {"frame", "time", "second", "done"},
         stage' = "time" => frameAt' \in {0, minute - 1},
         samples' \in {samples, {}}, anchor' \in {anchor, NoAnchor}
  PROVE  HealInv'
<1>1. ~NoAnchor.have /\ NoAnchor \in [have : BOOLEAN, at : Int, offset : Int]
  BY DEF NoAnchor
<1>2. HealTypes'
  BY <1>1, FS_EmptySet DEF HealInv, HealTypes
<1>3. NoneAhead'
  BY DEF HealInv, NoneAhead
<1>4. Reads' <= 0 /\ Seconds' <= 0 /\ Reads' \in Int /\ Seconds' \in Int
  BY DEF Reads, Seconds
<1>5. RunHeld'
  BY <1>4 DEF RunHeld
<1>6. Filled'
  <2>1. HoldsFor' = HoldsFor
    BY DEF HoldsFor
  <2> DEFINE n == Seconds'
  <2>2. n \in Int /\ n <= 0 /\ LevelWindow \in Nat
    BY <1>4, TimingAssumption
  <2> HIDE DEF n
  <2>3. ASSUME NEW i \in 0..LevelWindow PROVE ~(i <= n - HoldsFor)
    BY <2>2, HoldsForFact
  <2> QED BY <2>1, <2>3 DEF Filled, n
<1> QED BY <1>2, <1>3, <1>5, <1>6 DEF HealInv

(* A new minute, and its frame: what was read and measured stands.         *)
LEMMA HealWaits ==
  ASSUME HealInv, UNCHANGED <<continuity, leap, lock, samples, anchor>>,
         HealTypes', minute' >= minute,
         Reads' = Reads, Seconds' = Seconds, LastRead' = LastRead, LastSecond' = LastSecond
  PROVE  HealInv'
<1>1. NoneAhead'
  BY DEF HealInv, HealTypes, Histories, Measures, NoneAhead
<1>2. Truth(LastRead)' = Truth(LastRead)
  BY DEF Truth
<1>3. RunHeld'
  BY <1>2 DEF HealInv, RunHeld, OneTime, Mended, Mending
<1>4. Filled'
  BY DEF HealInv, Filled
<1> QED BY <1>1, <1>3, <1>4 DEF HealInv

LEMMA HealFrame == ASSUME HealInv, ReadFrame PROVE HealInv'
<1>1. /\ stage = "frame" /\ stage' = "time" /\ frameAt' = minute - 1 /\ rightFor' = rightFor + 1
      /\ UNCHANGED <<minute, leap, lock, anchor, samples, continuity>>
  BY DEF ReadFrame, ClockFrame
<1>2. HealTypes'
  BY <1>1 DEF HealInv, HealTypes
<1>3. Reads' = Reads /\ Seconds' = Seconds /\ LastRead' = LastRead /\ LastSecond' = LastSecond
  BY <1>1 DEF HealInv, HealTypes, Reads, Seconds, LastRead, LastSecond
<1>4. minute' >= minute
  BY <1>1 DEF HealInv, HealTypes
<1> QED BY <1>1, <1>2, <1>3, <1>4, HealWaits

LEMMA HealMinute == ASSUME HealInv, Edge, NextMinute PROVE HealInv'
<1>1. /\ stage = "done" /\ stage' = "frame" /\ minute < MaxMinute /\ minute' = minute + 1
      /\ UNCHANGED <<leap, lock, anchor, samples, continuity, rightFor>>
  BY DEF Edge, NextMinute
<1>2. HealTypes'
  BY <1>1, TimingAssumption DEF HealInv, HealTypes
<1>3. Reads' = Reads /\ Seconds' = Seconds /\ LastRead' = LastRead /\ LastSecond' = LastSecond
  BY <1>1 DEF HealInv, HealTypes, Reads, Seconds, LastRead, LastSecond
<1>4. minute' >= minute
  BY <1>1 DEF HealInv, HealTypes
<1> QED BY <1>1, <1>2, <1>3, <1>4, HealWaits

(* A time that is read right and judged did not cross the month's end, so  *)
(* the one before it was the same.                                         *)
LEMMA RightFact ==
  ASSUME HealTypes, NEW e \in Errors, Truth(minute - 1) + e = Truth(minute),
         ~CrossesBoundary(240 * (minute - 1) + e, Label(minute) + (Truth(minute - 1) + e))
  PROVE  Truth(minute - 1) = Truth(minute)
<1>1. e \in Int /\ MonthEnd \in Nat /\ minute \in Nat
  BY TimingAssumption DEF HealTypes
<1>2. Truth(minute) \in {0, -4} /\ Truth(minute - 1) \in {0, -4}
  BY DEF Truth, Second
<1>3. e <= 4
  BY <1>1, <1>2
<1>4. minute # MonthEnd
  BY <1>1, <1>2, <1>3 DEF CrossesBoundary, Label, Boundary
<1> QED BY <1>1, <1>4 DEF Truth

(* The verdict on a time that is read: it is let through and nothing is    *)
(* pending, or it is not and is pending.  The history's own time is let    *)
(* through, and what was measured by it kept.                              *)
LEMMA JudgedFact ==
  ASSUME HealTypes, NEW x \in Int, NEW w \in BOOLEAN
  PROVE  LET v == JudgeTime(continuity, x, minute, w)
             p == NotePending(continuity, x, minute)
         IN \/ /\ Admitted(v) /\ v.after \in Histories /\ v.after.have /\ v.after.readings = 0
               /\ continuity.have /\ continuity.offset = x => ~DiscardFiltered(v)
            \/ /\ ~Admitted(v) /\ ~DiscardFiltered(v) /\ v.after = p
               /\ ~(continuity.have /\ continuity.offset = x)
               /\ ~Held(p, FirstReadings, FirstSpan) \/ ~Held(p, AdoptReadings, AdoptSpan)
<1> DEFINE h == continuity
           v == JudgeTime(h, x, minute, w)
           p == NotePending(h, x, minute)
           near == Size(x - h.offset) <= JumpLimit + Drift(minute - h.at)
<1>1. h \in Histories /\ minute \in Int
  BY DEF HealTypes
<1>2. p \in Histories /\ (p.have <=> h.have)
  BY <1>1, PendingFact
<1>3. h.offset = x => near
  <2>1. minute - h.at \in Int
    BY <1>1 DEF Histories
  <2> QED BY <2>1, SameIsNear
<1>4. CASE v = [outcome |-> "FirstConfirmed", after |-> StartHistory(p, x, minute)] /\ ~h.have
  BY <1>1, <1>2, <1>4, StartFact DEF Admitted, DiscardFiltered
<1>5. CASE v = [outcome |-> "LeapSecond", after |-> StartHistory(h, x, minute)] /\ h.have /\ ~near
  BY <1>1, <1>3, <1>5, StartFact DEF Admitted, DiscardFiltered
<1>6. CASE v = [outcome |-> "Adopted", after |-> StartHistory(p, x, minute)] /\ h.have /\ ~near
  BY <1>1, <1>2, <1>3, <1>6, StartFact DEF Admitted, DiscardFiltered
<1>7. CASE v = [outcome |-> "Accepted", after |-> [h EXCEPT !.readings = 0]] /\ h.have /\ near
  <2>1. /\ [h EXCEPT !.readings = 0] \in Histories /\ [h EXCEPT !.readings = 0].have
        /\ [h EXCEPT !.readings = 0].readings = 0
    BY <1>1, <1>7 DEF Histories
  <2>2. Admitted(v) /\ ~DiscardFiltered(v)
    BY <1>7 DEF Admitted, DiscardFiltered
  <2>3. v.after = [h EXCEPT !.readings = 0]
    BY <1>7
  <2>4. v.after \in Histories /\ v.after.have /\ v.after.readings = 0
    BY <2>1, <2>3, Zenon
  <2> QED BY <2>2, <2>4, Zenon
<1>8. CASE v = [outcome |-> "Confirming", after |-> p] /\ ~h.have /\ ~Held(p, FirstReadings, FirstSpan)
  BY <1>8 DEF Admitted, DiscardFiltered
<1>9. CASE v = [outcome |-> "Refused", after |-> p] /\ h.have /\ ~near
           /\ ~Held(p, AdoptReadings, AdoptSpan)
  BY <1>3, <1>9 DEF Admitted, DiscardFiltered
<1> QED BY <1>1, <1>4, <1>5, <1>6, <1>7, <1>8, <1>9, TimeVerdict

(* A run's next time, read right: the history is mended by it, or it is    *)
(* pending with one reading more.                                          *)
LEMMA RightRead ==
  ASSUME HealInv, NEW e \in Errors, ReadTime(e), Truth(minute - 1) + e = Truth(minute),
         ~CrossesBoundary(240 * (minute - 1) + e, Label(minute) + (Truth(minute - 1) + e)),
         frameAt = minute - 1, rightFor >= 1, OneTime'
  PROVE  RunHeld' /\ (Seconds >= HoldsFor => samples' = samples)
<1> DEFINE x == Truth(minute)
           h == continuity
           w == InLeapWindow(Label(minute) + x)
           v == JudgeTime(h, x, minute, w)
           p == NotePending(h, x, minute)
<1>1. /\ minute \in Int /\ rightFor \in Nat /\ h \in Histories /\ x \in Int
      /\ w \in BOOLEAN /\ Truth(minute - 1) = x
  BY RightFact, TruthFact DEF HealInv, HealTypes, InLeapWindow
<1>2. /\ stage = "time" /\ lock = "locked" /\ stage' = "second" /\ rightFor' = rightFor
      /\ continuity' = v.after /\ samples' = (IF DiscardFiltered(v) THEN {} ELSE samples)
      /\ anchor' = (IF Admitted(v) THEN [have |-> TRUE, at |-> minute, offset |-> x] ELSE anchor)
      /\ UNCHANGED <<minute, leap, lock>>
  BY DEF ReadTime, ClockTime
<1>3. /\ Reads = rightFor - 1 /\ Reads' = rightFor /\ LastRead = minute - 1 /\ LastRead' = minute
      /\ Seconds = rightFor - 1 /\ Truth(LastRead)' = x
  BY <1>2 DEF Reads, LastRead, Seconds, Truth
<1>4. CASE Admitted(v)
  <2>1. v.after.have /\ (h.have /\ h.offset = x => ~DiscardFiltered(v))
    BY <1>1, <1>4, JudgedFact DEF HealInv
  <2>5. continuity'.offset = x
    BY <1>2, <1>4 DEF OneTime
  <2>2. Mended'
    BY <1>2, <1>3, <1>4, <2>1, <2>5 DEF Mended
  <2>3. Seconds >= HoldsFor => Mended
    BY <1>1, <1>3, HoldsForFact DEF HealInv, RunHeld, Mending
  <2>4. Mended => h.have /\ h.offset = x
    BY <1>1, <1>3 DEF Mended
  <2> QED BY <1>2, <2>1, <2>2, <2>3, <2>4 DEF RunHeld
<1>5. CASE ~Admitted(v)
  <2>1. /\ v.after = p /\ ~DiscardFiltered(v) /\ ~(h.have /\ h.offset = x)
        /\ ~Held(p, FirstReadings, FirstSpan) \/ ~Held(p, AdoptReadings, AdoptSpan)
    BY <1>1, <1>5, JudgedFact DEF HealInv
  <2> DEFINE agrees == h.readings > 0 /\ Size(x - h.pending) <= Agree + Drift(minute - h.lastAt)
  <2>2. /\ p \in Histories /\ p.pending = x /\ p.lastAt = minute
        /\ agrees => p.readings = h.readings + 1 /\ p.firstAt = h.firstAt
        /\ ~agrees => p.readings = 1 /\ p.firstAt = minute
    BY <1>1, PendingFact
  <2>3. h.readings \in Nat /\ h.firstAt \in Int /\ h.lastAt \in Int /\ h.pending \in Int
    BY <1>1 DEF Histories
  <2>4. p.readings \in Nat /\ p.firstAt \in Int /\ p.readings >= rightFor
        /\ minute - p.firstAt >= rightFor - 1
    <3>1. CASE rightFor = 1
      BY <1>1, <2>2, <2>3, <3>1 DEF HealInv, NoneAhead
    <3>2. CASE rightFor > 1
      <4>1. Mending
        BY <1>1, <1>3, <2>1, <3>2 DEF HealInv, RunHeld, Mended
      <4>2. h.readings >= rightFor - 1 /\ h.pending = x /\ h.lastAt = minute - 1
            /\ minute - 1 - h.firstAt >= rightFor - 2
        BY <1>1, <1>3, <2>3, <4>1 DEF Mending
      <4>3. Size(x - h.pending) = 0
        BY <1>1, <4>2 DEF Size
      <4>4. Drift(minute - h.lastAt) \in Int /\ Drift(minute - h.lastAt) >= 0
        <5>1. minute - h.lastAt = 1
          BY <1>1, <4>2
        <5> QED BY <5>1, TimingAssumption DEF Drift, Size
      <4>5. agrees
        BY <2>3, <3>2, <4>2, <4>3, <4>4, <1>1 DEF Agree
      <4> QED BY <1>1, <2>2, <2>3, <4>2, <4>5
    <3> QED BY <1>1, <3>1, <3>2
  <2>5. rightFor < HoldsFor
    <3>1. /\ FirstReadings \in Nat /\ FirstSpan \in Nat /\ AdoptReadings \in Nat /\ AdoptSpan \in Nat
      BY TimingAssumption
    <3> QED BY <1>1, <2>1, <2>2, <2>4, <3>1, HoldsForFact DEF Held
  <2>6. HoldsFor' = HoldsFor
    BY DEF HoldsFor
  <2>7. Mending'
    BY <1>2, <1>3, <2>1, <2>2, <2>4, <2>5, <2>6 DEF Mending
  <2> QED BY <1>2, <2>1, <2>7 DEF RunHeld
<1> QED BY <1>4, <1>5

LEMMA HealRead ==
  ASSUME HealInv, NEW e \in Errors, ReadTime(e)
  PROVE  HealInv'
<1> DEFINE x == Truth(minute - 1) + e
           h == continuity
           w == InLeapWindow(Label(minute) + x)
           v == JudgeTime(h, x, minute, w)
           p == NotePending(h, x, minute)
           crosses == CrossesBoundary(240 * (minute - 1) + e, Label(minute) + x)
           right == x = Truth(minute)
<1>1. /\ stage = "time" /\ lock = "locked" /\ frameAt = minute - 1 /\ stage' = "second"
      /\ UNCHANGED <<minute, leap, lock, frameAt>>
  BY DEF ReadTime, ClockTime, HealInv, HealTypes
<1>2. rightFor' = IF right /\ ~crosses /\ OneTime' THEN rightFor ELSE 0
  BY <1>1 DEF ReadTime
<1>3. minute \in Nat /\ rightFor \in Nat /\ h \in Histories /\ x \in Int /\ w \in BOOLEAN
  BY TruthFact, TimingAssumption DEF HealInv, HealTypes, InLeapWindow
<1>4. CASE crosses
  BY <1>1, <1>2, <1>4, HealSpoiled DEF ReadTime, ClockTime
<1>5. CASE ~crosses
  <2>1. /\ continuity' = v.after /\ samples' = (IF DiscardFiltered(v) THEN {} ELSE samples)
        /\ anchor' = (IF Admitted(v) THEN [have |-> TRUE, at |-> minute, offset |-> x] ELSE anchor)
    BY <1>1, <1>5 DEF ReadTime, ClockTime
  <2>2. HealTypes' /\ NoneAhead'
    <3>1. CASE Admitted(v)
      <4>1. v.after \in Histories /\ v.after.have /\ v.after.readings = 0
        BY <1>3, <3>1, JudgedFact DEF HealInv
      <4>2. samples' \in {samples, {}}
        BY <2>1
      <4>3. anchor' = [have |-> TRUE, at |-> minute, offset |-> x]
        BY <2>1, <3>1
      <4>4. HealTypes'
        BY <1>1, <1>2, <1>3, <2>1, <4>1, <4>2, <4>3, FS_EmptySet DEF HealInv, HealTypes
      <4>5. NoneAhead'
        BY <1>1, <1>3, <2>1, <4>1, <4>2 DEF HealInv, NoneAhead
      <4> QED BY <4>4, <4>5
    <3>2. CASE ~Admitted(v)
      <4>1. v.after = p /\ ~DiscardFiltered(v)
        BY <1>3, <3>2, JudgedFact DEF HealInv
      <4>2. /\ p \in Histories /\ (p.have <=> h.have) /\ p.offset = h.offset /\ p.at = h.at
            /\ p.lastAt = minute
            /\ (p.firstAt = h.firstAt /\ h.readings > 0) \/ p.firstAt = minute
        BY <1>3, PendingFact
      <4>3. h.firstAt \in Int /\ h.lastAt \in Int
        BY <1>3 DEF Histories
      <4>4. HealTypes'
        BY <1>1, <1>2, <1>3, <2>1, <3>2, <4>1, <4>2 DEF HealInv, HealTypes
      <4>5. NoneAhead'
        BY <1>1, <1>3, <2>1, <3>2, <4>1, <4>2, <4>3 DEF HealInv, NoneAhead
      <4> QED BY <4>4, <4>5
    <3> QED BY <3>1, <3>2
  <2>3. HoldsFor' = HoldsFor /\ LevelWindow \in Nat
    BY TimingAssumption DEF HoldsFor
  <2>4. CASE right /\ rightFor >= 1 /\ OneTime'
    <3>1. RunHeld' /\ (Seconds >= HoldsFor => samples' = samples)
      BY <1>1, <1>5, <2>4, RightRead
    <3>2. Seconds' = Seconds /\ LastSecond' = LastSecond /\ Seconds \in Int
      BY <1>1, <1>2, <1>3, <1>5, <2>4 DEF Seconds, LastSecond
    <3>3. Filled'
      <4> SUFFICES ASSUME NEW i \in 0..LevelWindow, i <= Seconds - HoldsFor
                   PROVE  \E s \in samples' : s.at = LastSecond - i
        BY <2>3, <3>2 DEF Filled
      <4>1. Seconds >= HoldsFor
        BY <2>3, <3>2, HoldsForFact
      <4> QED BY <3>1, <4>1 DEF HealInv, Filled
    <3> QED BY <2>2, <3>1, <3>3 DEF HealInv
  <2>5. CASE ~(right /\ rightFor >= 1 /\ OneTime')
    <3>1. rightFor' = 0
      BY <1>2, <1>3, <2>5
    <3>2. Reads' = 0 /\ Seconds' = -1
      BY <1>1, <3>1 DEF Reads, Seconds
    <3>3. RunHeld'
      BY <3>2 DEF RunHeld
    <3>4. ASSUME NEW i \in 0..LevelWindow PROVE ~(i <= (-1) - HoldsFor)
      BY <2>3, HoldsForFact
    <3>5. Filled'
      BY <2>3, <3>2, <3>4 DEF Filled
    <3> QED BY <2>2, <3>3, <3>5 DEF HealInv
  <2> QED BY <2>4, <2>5
<1> QED BY <1>4, <1>5

(* A second that is measured adds to the filter what the history holds;    *)
(* the anchor of the time just read is neither too old nor of another day. *)
LEMMA HealSecond == ASSUME HealInv, Edge, ClockSecond PROVE HealInv'
<1> DEFINE h == continuity
           o == anchor.offset
           new == [at |-> minute, offset |-> o]
           dropped == minute - anchor.at > AnchorMaxAge \/ PastBoundary
<1>1. /\ stage = "second" /\ stage' = "done" /\ UNCHANGED <<minute, leap, lock, rightFor>>
  BY DEF Edge, ClockSecond
<1>2. /\ minute \in Nat /\ rightFor \in Nat /\ h \in Histories /\ o \in Int /\ anchor.at \in Int
      /\ IsFiniteSet(samples) /\ samples \subseteq Measures
      /\ LevelWindow \in Nat /\ AnchorMaxAge \in Nat
  BY TimingAssumption DEF HealInv, HealTypes
<1>3. /\ Reads = rightFor /\ Reads' = rightFor /\ LastRead = minute /\ LastRead' = minute
      /\ Seconds = rightFor - 1 /\ Seconds' = rightFor /\ LastSecond = minute - 1 /\ LastSecond' = minute
      /\ Truth(LastRead)' = Truth(LastRead) /\ HoldsFor' = HoldsFor
  BY <1>1 DEF Reads, LastRead, Seconds, LastSecond, Truth, HoldsFor
<1>4. rightFor >= HoldsFor => Mended
  BY <1>2, <1>3, HoldsForFact DEF HealInv, RunHeld, Mending
<1>5. Mended => anchor.have /\ ~dropped
  BY <1>2, <1>3, TimingAssumption DEF Mended, PastBoundary, Label, Boundary
<1>6. CASE ~anchor.have \/ dropped
  <2>1. UNCHANGED <<samples, continuity>> /\ anchor' \in {anchor, NoAnchor}
    BY <1>6 DEF ClockSecond
  <2>2. ~Mended /\ rightFor < HoldsFor
    BY <1>2, <1>4, <1>5, <1>6, HoldsForFact
  <2>3. ~NoAnchor.have /\ NoAnchor \in [have : BOOLEAN, at : Int, offset : Int]
    BY DEF NoAnchor
  <2>4. HealTypes' /\ NoneAhead'
    BY <1>1, <2>1, <2>3 DEF HealInv, HealTypes, NoneAhead
  <2>5. RunHeld'
    BY <1>1, <1>3, <2>1, <2>2, <2>3 DEF HealInv, RunHeld, OneTime, Mending
  <2>6. ASSUME NEW i \in 0..LevelWindow PROVE ~(i <= rightFor - HoldsFor)
    BY <1>2, <2>2, HoldsForFact
  <2>7. Filled'
    BY <1>3, <2>6 DEF Filled
  <2> QED BY <2>4, <2>5, <2>7 DEF HealInv
<1>7. CASE anchor.have /\ ~dropped
  <2>1. /\ samples' = AddSample(o) /\ anchor' = anchor
        /\ continuity' = IF Valid(samples') THEN NoteFiltered(h, MedianOffset(samples'), minute) ELSE h
    BY <1>7 DEF ClockSecond
  <2>2. /\ new \in Measures /\ new.at = minute /\ new.offset = o /\ new \in samples'
        /\ samples' \subseteq samples \cup {new}
        /\ \A s \in samples : s.at >= minute - LevelWindow => s \in samples'
    BY <1>2, <2>1 DEF AddSample, Measures
  <2>3. IsFiniteSet(samples') /\ samples' \subseteq Measures
    BY <1>2, <2>2, FS_AddElement, FS_Subset
  <2>4. rightFor >= 1 => o = h.offset /\ \A s \in samples' : s.offset = o
    BY <1>2, <1>3, <1>7, <2>2 DEF HealInv, RunHeld, OneTime
  <2>5. MedianOffset(samples') \in Int /\ (rightFor >= 1 => MedianOffset(samples') = o)
    BY <1>2, <2>2, <2>3, <2>4, MedianFact, MedianInt
  <2>6. /\ continuity' \in Histories /\ (h.have => continuity'.have)
        /\ rightFor >= 1 => continuity'.offset = o
        /\ continuity'.readings = h.readings /\ continuity'.pending = h.pending
        /\ continuity'.lastAt = h.lastAt /\ continuity'.firstAt = h.firstAt
    <3> DEFINE m == MedianOffset(samples')
    <3>1. m \in Int /\ (rightFor >= 1 => m = o)
      BY <2>5
    <3>2. CASE Valid(samples')
      <4>1. continuity' = NoteFiltered(h, m, minute)
        BY <2>1, <3>2
      <4> HIDE DEF m
      <4> QED BY <1>2, <3>1, <4>1, FilteredFact
    <3>3. CASE ~Valid(samples')
      BY <1>2, <2>1, <2>4, <3>3
    <3> QED BY <3>2, <3>3
  <2>7. HealTypes'
    BY <1>1, <2>1, <2>3, <2>6 DEF HealInv, HealTypes
  <2>8. NoneAhead'
    BY <1>1, <1>2, <2>1, <2>2, <2>6 DEF HealInv, NoneAhead
  <2>9. RunHeld'
    BY <1>1, <1>3, <2>1, <2>4, <2>6 DEF HealInv, RunHeld, OneTime, Mended, Mending
  <2>10. Filled'
    <3> SUFFICES ASSUME NEW i \in 0..LevelWindow, i <= rightFor - HoldsFor
                 PROVE  \E s \in samples' : s.at = minute - i
      BY <1>3 DEF Filled
    <3>1. CASE i = 0
      BY <1>2, <2>2, <3>1
    <3>2. CASE i # 0
      <4>1. i - 1 \in 0..LevelWindow /\ i - 1 <= Seconds - HoldsFor /\ LastSecond - (i - 1) = minute - i
            /\ minute - i >= minute - LevelWindow
        BY <1>2, <1>3, <3>2, HoldsForFact
      <4>2. PICK s \in samples : s.at = minute - i
        BY <4>1 DEF HealInv, Filled
      <4> QED BY <2>2, <4>1, <4>2
    <3> QED BY <3>1, <3>2
  <2> QED BY <2>7, <2>8, <2>9, <2>10 DEF HealInv
<1> QED BY <1>6, <1>7

LEMMA HealInvStep == HealInv /\ [Next]_vars => HealInv'
<1> SUFFICES ASSUME HealInv, [Next]_vars PROVE HealInv'
  OBVIOUS
<1>1. CASE UNCHANGED timingAll
  <2>1. UNCHANGED <<minute, stage, leap, lock, frameAt, samples, continuity, anchor, rightFor>>
    BY <1>1 DEF timingAll, timingVars
  <2>2. HealTypes' /\ minute' >= minute
    BY <2>1 DEF HealInv, HealTypes
  <2>3. Reads' = Reads /\ Seconds' = Seconds /\ LastRead' = LastRead /\ LastSecond' = LastSecond
    BY <2>1 DEF Reads, Seconds, LastRead, LastSecond
  <2> QED BY <2>1, <2>2, <2>3, HealWaits
<1>2. CASE Spoil
  <2>1. rightFor' = 0
    BY <1>2 DEF Spoil
  <2>2. CASE \E s \in {"nosignal", "acquiring", "locked"} : ClockState(s)
    BY <2>1, <2>2, HealSpoiled DEF ClockState, HealInv, HealTypes
  <2>3. CASE Skip
    <3>1. stage' \in {"second", "done"}
      BY <2>3 DEF Skip
    <3> QED BY <2>1, <2>3, <3>1, HealSpoiled DEF Skip
  <2>4. CASE DiscardTiming
    BY <2>1, <2>4, HealSpoiled DEF DiscardTiming, HealInv, HealTypes
  <2>5. CASE ResetStream
    BY <2>1, <2>5, HealSpoiled DEF ResetStream, HealInv, HealTypes
  <2> QED BY <1>2, <2>2, <2>3, <2>4, <2>5 DEF Spoil
<1>3. StreamStep \/ HoldStep \/ TagStep \/ TripStep \/ UNCHANGED vars => UNCHANGED timingAll
  BY DEF StreamStep, HoldStep, TagStep, TripStep, vars
<1> QED BY <1>1, <1>2, <1>3, HealRead, HealFrame, HealSecond, HealMinute DEF Next, TimingStep, Edge

(* A run of minutes this long leaves no doubt: the filter holds a sample   *)
(* of each of the last of them, and no other offset.                       *)
LEMMA HealedFact == HealInv => HistoryCorrectsItself
<1> SUFFICES ASSUME HealInv, stage = "done", rightFor >= HoldsFor + MinLevel
             PROVE  Ready /\ HaveOffset /\ MedianOffset(samples) = Truth(minute)
  BY DEF HistoryCorrectsItself
<1>1. /\ minute \in Nat /\ rightFor \in Nat /\ MinLevel \in Nat /\ LevelWindow \in Nat
      /\ OffsetStale \in Nat /\ MinLevel <= LevelWindow + 1 /\ IsFiniteSet(samples)
      /\ \A s \in samples : s.at \in Int /\ s.at <= minute
  BY TimingAssumption DEF HealInv, HealTypes, NoneAhead, Measures
<1>2. lock = "locked" /\ OneTime /\ Mended /\ LastRead = minute /\ LastSecond = minute /\ Seconds = rightFor
  BY <1>1, HoldsForFact DEF HealInv, RunHeld, Mending, Reads, LastRead, LastSecond, Seconds
<1>3. \A s \in samples : s.offset = Truth(minute)
  BY <1>2 DEF OneTime, Mended
<1>4. ASSUME NEW i \in 0..LevelWindow, i <= MinLevel PROVE \E s \in samples : s.at = minute - i
  <2>1. i <= Seconds - HoldsFor
    BY <1>1, <1>2, <1>4, HoldsForFact
  <2> QED BY <1>2, <2>1 DEF HealInv, Filled
<1>5. PICK s0 \in samples : s0.at = minute
  <2>1. 0 \in 0..LevelWindow /\ 0 <= MinLevel /\ minute - 0 = minute
    BY <1>1
  <2> QED BY <1>4, <2>1
<1>6. MedianOffset(samples) = Truth(minute)
  BY <1>1, <1>3, <1>5, MedianFact, TruthFact
<1>7. Newest(samples) = minute
  <2> DEFINE A == {s.at : s \in samples}
  <2>1. minute \in A /\ \A y \in A : y \in Int /\ y <= minute
    BY <1>1, <1>5
  <2> HIDE DEF A
  <2> DEFINE P(y) == \A z \in A : y >= z
  <2>2. P(minute) /\ \A y \in A : P(y) => y = minute
    BY <1>1, <2>1
  <2> HIDE DEF P
  <2>3. (CHOOSE y \in A : P(y)) = minute
    BY <2>1, <2>2
  <2> QED BY <2>3, Zenon DEF Newest, Max, A, P
<1>8. Valid(samples)
  <2> DEFINE I == 1..MinLevel
             f == [i \in I |-> CHOOSE s \in samples : s.at = minute - (i - 1)]
  <2>1. ASSUME NEW i \in I PROVE f[i] \in samples /\ f[i].at = minute - (i - 1)
    <3>1. i - 1 \in 0..LevelWindow /\ i - 1 <= MinLevel
      BY <1>1
    <3> QED BY <1>4, <3>1
  <2>2. f \in Injection(I, samples)
    <3>1. f \in [I -> samples]
      BY <2>1
    <3>2. ASSUME NEW i \in I, NEW j \in I, f[i] = f[j] PROVE i = j
      BY <1>1, <2>1, <3>2
    <3> HIDE DEF f
    <3> QED BY <3>1, <3>2 DEF Injection, IsInjective
  <2>3. IsFiniteSet(I) /\ Cardinality(I) = MinLevel
    BY <1>1, FS_Interval
  <2>4. Cardinality(I) <= Cardinality(samples)
    BY <1>1, <2>2, <2>3, FS_Injection
  <2>5. Cardinality(samples) \in Nat
    BY <1>1, FS_CardinalityType
  <2> QED BY <1>1, <2>3, <2>4, <2>5 DEF Valid
<1> QED BY <1>1, <1>2, <1>6, <1>7, <1>8 DEF Ready, HeldOut, HaveOffset, Mended

(* A wrong history corrects itself, for every set of misreads by whole     *)
(* seconds, every month end, every number of readings and minutes a first  *)
(* or a contradicting time must hold, every size of the filter and every   *)
(* allowance for drift, however long the clock runs: in as many minutes    *)
(* read right, once the history, the anchor and the filter are of one time *)
(* (JudgeTime, NotePending, onClockSecond).                                *)
THEOREM HistoryHeals == Spec => []HistoryCorrectsItself
BY HealInvInit, HealInvStep, HealedFact, PTL DEF Spec
=============================================================================
