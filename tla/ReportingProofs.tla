-------------------------- MODULE ReportingProofs ---------------------------
(***************************************************************************)
(* The publisher implements the queue, refusals apart, for every capacity  *)
(* of the log, budget and interval (MqttPublisher, EventQueue).            *)
(*                                                                         *)
(* The drift file survives any number of kills, for every set of rates,    *)
(* threshold and interval (DriftFile).                                     *)
(*                                                                         *)
(* The status service stops clean and ticks once a second, for every       *)
(* number of connections and descriptors and every lateness (HttpApi).     *)
(*                                                                         *)
(* The event log tells the state of the daemon, whatever the passes of the *)
(* main loop show (EventMonitor).                                          *)
(*                                                                         *)
(* The charts and the bar of the status page tell what was sampled, for    *)
(* every width, capacity and number of series (MetricHistory).             *)
(***************************************************************************)
EXTENDS MCReporting, FiniteSetTheorems, SequenceTheorems, WellFoundedInduction, TLAPS

(* What the mapping needs: neither the cursor nor the newest event the     *)
(* pass has seen is past the end of the log.                               *)
CursorInv ==
  /\ nextId \in Nat \ {0} /\ lastId \in Nat /\ newest \in Nat /\ eventsLost \in Nat
  /\ lastId < nextId /\ newest < nextId

LEMMA CursorInvInit == MqttInit => CursorInv
  BY DEF MqttInit, CursorInv

\* What a pass finds in the log, whose oldest event may be past the cursor.
LEMMA FreshFacts ==
  ASSUME CursorInv, FreshEvents, UNCHANGED nextId
  PROVE  /\ CursorInv'
         /\ \/ UNCHANGED <<lastId, eventsLost>>
            \/ \E k \in 1 .. nextId - 1 : /\ lastId + k + Capacity <= nextId - 1
                                          /\ lastId' = lastId + k /\ eventsLost' = eventsLost + k
<1>1. Capacity \in Nat \ {0}
  BY MqttAssumption
<1>2. CASE lastId + 1 < Oldest
  <2>1. /\ nextId > Capacity /\ Oldest = nextId - Capacity
        /\ lastId' = Oldest - 1 /\ eventsLost' = eventsLost + (Oldest - 1 - lastId)
    BY <1>1, <1>2 DEF Oldest, FreshEvents, CursorInv
  <2>2. CursorInv'
    BY <1>1, <1>2, <2>1 DEF FreshEvents, CursorInv
  <2>3. Oldest - 1 - lastId \in 1 .. nextId - 1
    BY <1>1, <1>2, <2>1 DEF CursorInv
  <2>4. /\ lastId + (Oldest - 1 - lastId) + Capacity <= nextId - 1
        /\ lastId' = lastId + (Oldest - 1 - lastId)
    BY <1>1, <1>2, <2>1 DEF CursorInv
  <2> QED
    BY <2>1, <2>2, <2>3, <2>4
<1>3. CASE ~(lastId + 1 < Oldest)
  BY <1>3 DEF FreshEvents, CursorInv
<1> QED
  BY <1>2, <1>3

(* A step of the publisher, the log or the receiver is a step of the queue *)
(* or leaves it alone.                                                     *)
LEMMA QueueStep ==
  ASSUME CursorInv, [MqttNext]_mqttVars
  PROVE  CursorInv' /\ [Queue!QueueNext \/ Queue!TurnAway]_Queue!queueVars
<1> USE DEF Queue!queueVars
<1>1. CASE RecordEvent
  <2>1. CursorInv'
    BY <1>1 DEF RecordEvent, CursorInv, cursor
  <2>2. Queue!Happen
    BY <1>1 DEF RecordEvent, CursorInv, cursor, Queue!Happen
  <2> QED
    BY <2>1, <2>2 DEF Queue!QueueNext
<1>2. CASE BeginEvents
  <2>1. CASE Open
    <3>1. FreshEvents /\ UNCHANGED <<nextId, taken, turned>>
      BY <1>2, <2>1 DEF BeginEvents
    <3>2. CursorInv'
      BY <3>1, FreshFacts
    <3>3. CASE UNCHANGED <<lastId, eventsLost>>
      BY <3>1, <3>2, <3>3
    <3>4. ASSUME NEW k \in 1 .. nextId - 1, lastId + k + Capacity <= nextId - 1,
                 lastId' = lastId + k, eventsLost' = eventsLost + k
          PROVE  Queue!Overwritten
      BY <3>1, <3>4 DEF Queue!Overwritten
    <3> QED
      BY <3>1, <3>2, <3>3, <3>4, FreshFacts DEF Queue!QueueNext
  <2>2. CASE ~Open
    BY <1>2, <2>2 DEF BeginEvents, CursorInv
  <2> QED
    BY <2>1, <2>2
<1>3. ASSUME NEW a \in Answers, SendEvent(a)
      PROVE  CursorInv' /\ [Queue!QueueNext \/ Queue!TurnAway]_Queue!queueVars
  <2>1. /\ lastId < newest /\ UNCHANGED <<nextId, newest, eventsLost>>
        /\ lastId' = IF Done(a) THEN lastId + 1 ELSE lastId
        /\ taken' = IF a \in {"ok", "unheard"} THEN Append(taken, lastId + 1) ELSE taken
        /\ turned' = IF a \in {"forbidden", "refused"} THEN turned \union {lastId + 1} ELSE turned
    BY <1>3 DEF SendEvent
  <2>2. CursorInv'
    BY <2>1 DEF CursorInv
  <2>3. lastId < nextId - 1
    BY <2>1 DEF CursorInv
  <2>4. CASE a \in {"ok", "unheard"}
    <3>1. lastId' \in {lastId, lastId + 1}
      BY <2>1
    <3>2. Queue!Take
      BY <2>1, <2>3, <2>4, <3>1 DEF Queue!Take
    <3> QED
      BY <2>2, <3>2 DEF Queue!QueueNext
  <2>5. CASE a \notin {"ok", "unheard"} /\ Done(a)
    <3>1. a \in {"forbidden", "refused"}
      BY <2>5 DEF Done
    <3>2. Queue!TurnAway
      BY <2>1, <2>3, <2>5, <3>1 DEF Queue!TurnAway
    <3> QED
      BY <2>2, <3>2
  <2>6. CASE a \notin {"ok", "unheard"} /\ ~Done(a)
    BY <2>1, <2>2, <2>6 DEF Done
  <2> QED
    BY <2>4, <2>5, <2>6
\* Every other step leaves the log and the cursor alone.
<1>4. CASE UNCHANGED <<nextId, cursor, newest>>
  BY <1>4 DEF CursorInv, cursor
<1>5. \/ RecordEvent \/ BeginEvents \/ \E a \in Answers : SendEvent(a)
      \/ UNCHANGED <<nextId, cursor, newest>>
  BY DEF MqttNext, PublisherStep, mqttVars, ReceiverTurns, StopMqtt, Probe, EndEvents,
         PublishSummary, PublishSources, Rest, EndMqtt, cursor
<1> QED
  BY <1>1, <1>2, <1>3, <1>4, <1>5

(* Every event is taken by the receiver in its turn, answered by it with a *)
(* refusal, or counted as lost, and lost only once the log had overwritten *)
(* it: the thread of Mqtt.cpp with its probes, holds, budget and cursor    *)
(* implements EventQueue with refusals.  Without them it does not: run     *)
(* mqtt_refused.                                                           *)
THEOREM PublisherIsQueue == MqttSpec => PublishesButRefused
<1>1. MqttInit => Queue!QueueInit
  BY DEF MqttInit, Queue!QueueInit
<1>2. CursorInv /\ [MqttNext]_mqttVars => CursorInv' /\ [Queue!QueueNext \/ Queue!TurnAway]_Queue!queueVars
  BY QueueStep
<1> QED
  BY <1>1, <1>2, CursorInvInit, PTL DEF MqttSpec, PublishesButRefused, Queue!RefusingSpec
-----------------------------------------------------------------------------
DriftSpec == DriftInit /\ [][DriftNext]_driftVars

(* The file holds a rate because the temporary does by the time it is      *)
(* renamed: a rename follows a write in the same call, and a process that  *)
(* is started again begins with neither.                                   *)
DriftInv ==
  /\ save \in [at : {"no", "open", "write", "rename"}, ppm : Int]
  /\ DriftKept
  /\ save.at = "rename" /\ ~full => Holds(tmp)

\* A rate, measured or none, is a whole number.
LEMMA RateIsInt ==
  /\ NoFile.ppm \in Int
  /\ \A p \in Rates : Figure(p).ppm \in Int
<1>1. NoFile.ppm = 0
  BY DEF NoFile
<1>2. \A p : Figure(p).ppm = p
  BY DEF Figure
<1> QED
  BY <1>1, <1>2, DriftAssumption

LEMMA DriftInvStep == DriftInv /\ [DriftNext]_driftVars => DriftInv'
<1> SUFFICES ASSUME DriftInv, [DriftNext]_driftVars
             PROVE  DriftInv'
  OBVIOUS
<1> USE DEF DriftInv, DriftKept
<1>1. ASSUME NEW r \in {Figure(ppm) : ppm \in Rates} \union {NoFile}, RatePass(r)
      PROVE  DriftInv'
  <2>1. r.ppm \in Int
    <3>1. r = NoFile \/ \E p \in Rates : r = Figure(p)
      OBVIOUS
    <3> QED
      BY <3>1, RateIsInt
  <2>2. save' \in [at : {"no", "open"}, ppm : Int]
    BY <1>1, <2>1 DEF RatePass, NotSaving
  <2> QED
    BY <1>1, <2>2 DEF RatePass, Holds
<1>2. ASSUME NEW ok \in BOOLEAN, OpenTmp(ok)
      PROVE  DriftInv'
  <2>1. /\ UNCHANGED <<file, whole, full>>
        /\ save' = [save EXCEPT !.at = "write"] \/ save' = NotSaving
    BY <1>2 DEF OpenTmp, ToTmp
  <2>2. save.at = "open"
    BY <1>2 DEF OpenTmp
  <2>3. save' \in [at : {"no", "write"}, ppm : Int]
    BY <2>1, <2>2 DEF NotSaving
  <2> QED
    BY <2>1, <2>3 DEF Holds
<1>3. ASSUME NEW ok \in BOOLEAN, WriteTmp(ok)
      PROVE  DriftInv'
  <2>1. CASE ok
    BY <1>3, <2>1 DEF WriteTmp, ToTmp, Holds, Figure
  <2>2. CASE ~ok
    BY <1>3, <2>2 DEF WriteTmp
  <2> QED
    BY <2>1, <2>2
<1>4. ASSUME NEW ok \in BOOLEAN, Rename(ok)
      PROVE  DriftInv'
  <2>1. save' = NotSaving /\ NotSaving \in [at : {"no"}, ppm : Int] /\ UNCHANGED full
    BY <1>4 DEF Rename, NotSaving
  <2>2. ~full => Holds(tmp)
    BY <1>4 DEF Rename
  <2>3. file' = tmp \/ (file' = file)
    BY <1>4 DEF Rename
  <2>4. whole' = (whole \/ Holds(file'))
    BY <1>4 DEF Rename
  <2> QED
    BY <2>1, <2>2, <2>3, <2>4 DEF Holds
<1>5. CASE KillAndStart
  BY <1>5 DEF KillAndStart, StartWith, NotSaving, Holds
<1>6. CASE UNCHANGED driftVars
  BY <1>6 DEF driftVars, Holds
<1> QED
  BY <1>1, <1>2, <1>3, <1>4, <1>5, <1>6 DEF DriftNext

(* A daemon killed between any two calls it makes of the file system, as   *)
(* often as may be, finds a whole figure once it has saved one, unless a   *)
(* disk was full (writeDriftPpm).                                          *)
THEOREM DriftFileKept == DriftSpec => []DriftKept
<1>1. DriftInit => DriftInv
  BY DEF DriftInit, DriftInv, DriftKept, NotSaving
<1>2. DriftInv => DriftKept
  BY DEF DriftInv
<1> QED
  BY <1>1, <1>2, DriftInvStep, PTL DEF DriftSpec
-----------------------------------------------------------------------------
(* The places of a connection's thread: while it is counted, while it has  *)
(* its descriptor, while that is listed, and while it holds a stream slot. *)
Taken == {"serve", "stream", "release", "erase", "close", "count"}
Owning == {"serve", "stream", "release", "erase", "close"}
Listed == {"serve", "stream", "release", "erase"}
Slotted == {"stream", "release"}
ThreadPlaces == Taken \cup {"none", "gone"}

ThreadsAt(th, S) == {t \in Threads : th[t].at \in S}
CountAt(th, S) == Cardinality(ThreadsAt(th, S))

HttpTypes ==
  /\ thread \in [Threads -> [at : ThreadPlaces, fd : Fds \cup {Free}]]
  /\ acceptor \in [at : {"poll", "check", "insert", "done"}, fd : Fds \cup {Free}]
  /\ owner \in [Fds -> Threads \cup {Free, Other, "acceptor"}]
  /\ connections \in Int /\ streams \in Int /\ liveFds \subseteq Fds

(* A listed descriptor is that of the connection it was listed for, and of *)
(* nobody the kernel has given the number to since.                        *)
FdsOwned ==
  /\ acceptor.at \in {"check", "insert"} =>
       /\ acceptor.fd \in Fds /\ owner[acceptor.fd] = "acceptor"
       /\ \E t \in Threads : thread[t].at = "none"
  /\ \A t \in Threads : thread[t].at \in Owning =>
       thread[t].fd \in Fds /\ owner[thread[t].fd] = t
  /\ \A f \in liveFds : \E t \in Threads : owner[f] = t /\ thread[t].at \in Listed
        /\ thread[t].fd = f

(* The counters are the numbers of threads between counting in and out.    *)
SlotCounts ==
  /\ connections = CountAt(thread, Taken) + IF acceptor.at = "insert" THEN 1 ELSE 0
  /\ connections <= MaxConnections
  /\ streams = CountAt(thread, Slotted)
  /\ CountAt(thread, {"stream"}) <= MaxStreams

(* stop() lists the connections once there is no acceptor to add one.      *)
StopOrder ==
  /\ stopper \in {"wait", "returned", "exited"} => acceptor.at = "done"
  /\ stopper = "returned" => connections = 0
  /\ ~stray

HttpInv == HttpTypes /\ FdsOwned /\ SlotCounts /\ StopOrder

(* The threads at some places are finitely many.                           *)
LEMMA CountFinite == ASSUME NEW th, NEW S
    PROVE IsFiniteSet(ThreadsAt(th, S)) /\ CountAt(th, S) \in Nat
<1>1. ThreadsAt(th, S) \in SUBSET Threads
  BY DEF ThreadsAt
<1> QED BY <1>1, FS_Subset, FS_CardinalityType, HttpAssumption DEF CountAt

(* What a count n of the threads at the places S becomes when one moves.   *)
Shift(from, to, S, n, m) ==
  /\ from \in S /\ to \notin S => m = n - 1
  /\ from \notin S /\ to \in S => m = n + 1
  /\ (from \in S <=> to \in S) => m = n

(* A count of the threads at some places, when one of them moves.          *)
LEMMA ThreadMoves ==
  ASSUME NEW th \in [Threads -> [at : ThreadPlaces, fd : Fds \cup {Free}]], NEW t \in Threads,
         NEW r \in [at : ThreadPlaces, fd : Fds \cup {Free}], NEW S
  PROVE  Shift(th[t].at, r.at, S, CountAt(th, S), CountAt([th EXCEPT ![t] = r], S))
<1> DEFINE th2 == [th EXCEPT ![t] = r]
<1>0. IsFiniteSet(ThreadsAt(th, S)) /\ CountAt(th, S) \in Nat
  BY CountFinite
<1>1. CASE th[t].at \in S /\ r.at \notin S
  <2>1. ThreadsAt(th2, S) = ThreadsAt(th, S) \ {t} /\ t \in ThreadsAt(th, S)
    BY <1>1 DEF ThreadsAt
  <2> QED BY <1>0, <1>1, <2>1, FS_RemoveElement DEF CountAt, Shift
<1>2. CASE th[t].at \notin S /\ r.at \in S
  <2>1. ThreadsAt(th2, S) = ThreadsAt(th, S) \cup {t} /\ t \notin ThreadsAt(th, S)
    BY <1>2 DEF ThreadsAt
  <2> QED BY <1>0, <1>2, <2>1, FS_AddElement DEF CountAt, Shift
<1>3. CASE th[t].at \in S <=> r.at \in S
  <2>1. ThreadsAt(th2, S) = ThreadsAt(th, S)
    BY <1>3 DEF ThreadsAt
  <2> QED BY <1>3, <2>1 DEF CountAt, Shift
<1> QED BY <1>1, <1>2, <1>3 DEF Shift

(* A thread that goes from one place to the next.                          *)
LEMMA GotoFacts ==
  ASSUME HttpTypes, NEW t \in Threads, NEW p \in ThreadPlaces, Goto(t, p)
  PROVE  /\ thread' = [thread EXCEPT ![t] = [at |-> p, fd |-> thread[t].fd]]
         /\ thread' \in [Threads -> [at : ThreadPlaces, fd : Fds \cup {Free}]]
         /\ \A u \in Threads : thread'[u].fd = thread[u].fd
         /\ \A u \in Threads \ {t} : thread'[u] = thread[u]
         /\ thread'[t].at = p
         /\ \A S : Shift(thread[t].at, p, S, CountAt(thread, S), CountAt(thread', S))
<1> DEFINE r == [at |-> p, fd |-> thread[t].fd]
<1>1. r \in [at : ThreadPlaces, fd : Fds \cup {Free}] /\ r.at = p
  BY DEF HttpTypes
<1>2. thread' = [thread EXCEPT ![t] = r]
  <2>1. thread' = [thread EXCEPT ![t] = [thread[t] EXCEPT !.at = p]]
    BY DEF Goto
  <2>2. ASSUME NEW x \in [at : ThreadPlaces, fd : Fds \cup {Free}]
          PROVE [x EXCEPT !.at = p] = [at |-> p, fd |-> x.fd]
    OBVIOUS
  <2>3. [thread[t] EXCEPT !.at = p] = r
    BY <2>2 DEF HttpTypes
  <2> QED BY <2>1, <2>3
<1>3. \A S : Shift(thread[t].at, p, S, CountAt(thread, S), CountAt(thread', S))
  <2> TAKE S
  <2> HIDE DEF r
  <2>1. thread \in [Threads -> [at : ThreadPlaces, fd : Fds \cup {Free}]]
    BY DEF HttpTypes
  <2> QED BY <1>1, <1>2, <2>1, ThreadMoves, Zenon
<1> QED BY <1>1, <1>2, <1>3 DEF HttpTypes

(* A step of one connection's thread.                                      *)
LEMMA ThreadStepKeeps ==
  ASSUME HttpInv, NEW t \in Threads, ThreadStep(t)
  PROVE  HttpInv'
<1> USE HttpAssumption DEF ThreadPlaces, Taken, Owning, Listed, Slotted
<1>0. \A S : CountAt(thread, S) \in Nat
  BY CountFinite
<1>1. UNCHANGED <<up, acceptor, broken, stopper, stray>>
  BY DEF ThreadStep, Winds, Answered, Claim, EndStream, Release, Erase, CloseFd, CountOut, Idle
<1>2. StopOrder' <=> (stopper = "returned" => connections' = 0)
  BY <1>1 DEF HttpInv, StopOrder
<1>3. ~(thread[t].at = "none")
  BY DEF ThreadStep, Winds, Answered, Claim, EndStream, Release, Erase, CloseFd, CountOut
<1>4. ASSUME NEW p \in ThreadPlaces, Goto(t, p), UNCHANGED <<connections, liveFds, owner>>,
        streams' \in Int,
             thread[t].at \in Listed, p \in Listed,
             streams' = CountAt(thread', Slotted), CountAt(thread', {"stream"}) <= MaxStreams
      PROVE  HttpInv'
  <2>1. HttpTypes'
    BY <1>1, <1>4, GotoFacts DEF HttpInv, HttpTypes
  <2>2. FdsOwned'
    BY <1>1, <1>3, <1>4, GotoFacts DEF HttpInv, FdsOwned
  <2>3. CountAt(thread', Taken) = CountAt(thread, Taken)
    BY <1>4, GotoFacts DEF HttpInv, Shift
  <2>4. SlotCounts'
    BY <1>1, <1>4, <2>3 DEF HttpInv, SlotCounts
  <2> QED BY <1>1, <1>4, <2>1, <2>2, <2>4 DEF HttpInv, StopOrder
<1>5. CASE Answered(t)
  <2>1. Goto(t, "erase") /\ thread[t].at = "serve"
          /\ UNCHANGED <<connections, streams, liveFds, owner>>
    BY <1>5 DEF Answered
  <2>2. CountAt(thread', Slotted) = CountAt(thread, Slotted)
        /\ CountAt(thread', {"stream"}) = CountAt(thread, {"stream"})
    BY <2>1, GotoFacts DEF HttpInv, Shift
  <2> QED BY <1>4, <2>1, <2>2 DEF HttpInv, SlotCounts, HttpTypes
<1>6. CASE Claim(t)
  <2> DEFINE p == IF Fits(streams + 1) THEN "stream" ELSE "release"
  <2>1. Goto(t, p) /\ p \in {"stream", "release"} /\ thread[t].at = "serve"
        /\ UNCHANGED <<connections, liveFds, owner>> /\ streams' = streams + 1
    BY <1>6 DEF Claim
  <2>2. CountAt(thread', Slotted) = CountAt(thread, Slotted) + 1
    BY <2>1, GotoFacts DEF HttpInv, Shift
  <2>3. CountAt(thread', {"stream"}) <= MaxStreams
    <3>1. CASE ~Fits(streams + 1)
      <4>1. CountAt(thread', {"stream"}) = CountAt(thread, {"stream"})
        BY <2>1, <3>1, GotoFacts DEF HttpInv, Shift
      <4> QED BY <4>1 DEF HttpInv, SlotCounts
    <3>2. CASE Fits(streams + 1)
      <4>1. ThreadsAt(thread', {"stream"}) \in SUBSET ThreadsAt(thread', Slotted)
        BY DEF ThreadsAt
      <4>2. CountAt(thread', {"stream"}) <= CountAt(thread', Slotted)
        BY <4>1, CountFinite, FS_Subset DEF CountAt
      <4> QED BY <1>0, <2>2, <3>2, <4>2, CountFinite DEF HttpInv, SlotCounts, Fits
    <3> QED BY <3>1, <3>2
  <2> HIDE DEF p
  <2> QED BY <1>4, <2>1, <2>2, <2>3 DEF HttpInv, SlotCounts, HttpTypes
<1>7. CASE EndStream(t)
  <2>1. Goto(t, "release") /\ thread[t].at = "stream"
          /\ UNCHANGED <<connections, streams, liveFds, owner>>
    BY <1>7 DEF EndStream
  <2>2. CountAt(thread', Slotted) = CountAt(thread, Slotted)
        /\ CountAt(thread', {"stream"}) = CountAt(thread, {"stream"}) - 1
    BY <2>1, GotoFacts DEF HttpInv, Shift
  <2> QED BY <1>0, <1>4, <2>1, <2>2 DEF HttpInv, SlotCounts, HttpTypes
<1>8. CASE Release(t)
  <2>1. Goto(t, "erase") /\ thread[t].at = "release"
          /\ UNCHANGED <<connections, liveFds, owner>> /\ streams' = streams - 1
    BY <1>8 DEF Release
  <2>2. CountAt(thread', Slotted) = CountAt(thread, Slotted) - 1
        /\ CountAt(thread', {"stream"}) = CountAt(thread, {"stream"})
    BY <2>1, GotoFacts DEF HttpInv, Shift
  <2> QED BY <1>0, <1>4, <2>1, <2>2 DEF HttpInv, SlotCounts, HttpTypes
<1>9. ASSUME NEW p \in ThreadPlaces, Goto(t, p), thread[t].at \in Taken \ Slotted,
        p \in ThreadPlaces \ Slotted, UNCHANGED streams
      PROVE  CountAt(thread', Slotted) = CountAt(thread, Slotted)
             /\ CountAt(thread', {"stream"}) = CountAt(thread, {"stream"})
  BY <1>9, GotoFacts DEF HttpInv, Shift
<1>10. CASE Erase(t)
  <2>1. Goto(t, "close") /\ thread[t].at = "erase" /\ UNCHANGED <<connections, streams, owner>>
        /\ liveFds' = liveFds \ {thread[t].fd}
    BY <1>10 DEF Erase
  <2>2. HttpTypes'
    BY <1>1, <2>1, GotoFacts DEF HttpInv, HttpTypes
  <2>3. FdsOwned'
    BY <1>1, <2>1, GotoFacts DEF HttpInv, FdsOwned
  <2>4. CountAt(thread', Taken) = CountAt(thread, Taken)
    BY <2>1, GotoFacts DEF HttpInv, Shift
  <2>5. SlotCounts'
    BY <1>1, <1>9, <2>1, <2>4 DEF HttpInv, SlotCounts
  <2> QED BY <1>2, <2>1, <2>2, <2>3, <2>5 DEF HttpInv, StopOrder
<1>11. CASE CloseFd(t)
  <2>1. Goto(t, "count") /\ thread[t].at = "close" /\ UNCHANGED <<connections, streams, liveFds>>
        /\ owner' = [owner EXCEPT ![thread[t].fd] = Free]
    BY <1>11 DEF CloseFd
  <2>2. HttpTypes'
    BY <1>1, <2>1, GotoFacts DEF HttpInv, HttpTypes, Free
  <2>3. FdsOwned'
    <3>1. thread[t].fd \in Fds /\ owner[thread[t].fd] = t
      BY <2>1 DEF HttpInv, FdsOwned
    <3>2. \A f \in Fds : f # thread[t].fd => owner'[f] = owner[f]
      BY <2>1 DEF HttpInv, HttpTypes
    <3>3. acceptor.at \in {"check", "insert"} =>
            /\ acceptor.fd \in Fds /\ owner'[acceptor.fd] = "acceptor"
            /\ \E u \in Threads : thread'[u].at = "none"
      BY <2>1, <3>1, <3>2, GotoFacts DEF HttpInv, FdsOwned
    <3>4. \A u \in Threads : thread'[u].at \in Owning =>
            thread'[u].fd \in Fds /\ owner'[thread'[u].fd] = u
      BY <2>1, <3>1, <3>2, GotoFacts DEF HttpInv, FdsOwned
    <3>5. \A f \in liveFds : \E u \in Threads : owner'[f] = u /\ thread'[u].at \in Listed
            /\ thread'[u].fd = f
      BY <2>1, <3>1, <3>2, GotoFacts DEF HttpInv, FdsOwned, HttpTypes
    <3> QED BY <1>1, <2>1, <3>3, <3>4, <3>5 DEF FdsOwned
  <2>4. CountAt(thread', Taken) = CountAt(thread, Taken)
    BY <2>1, GotoFacts DEF HttpInv, Shift
  <2>5. SlotCounts'
    BY <1>1, <1>9, <2>1, <2>4 DEF HttpInv, SlotCounts
  <2> QED BY <1>2, <2>1, <2>2, <2>3, <2>5 DEF HttpInv, StopOrder
<1>12. CASE CountOut(t)
  <2>1. Goto(t, "gone") /\ thread[t].at = "count" /\ UNCHANGED <<streams, liveFds, owner>>
        /\ connections' = connections - 1
    BY <1>12 DEF CountOut
  <2>2. HttpTypes'
    BY <1>1, <2>1, GotoFacts DEF HttpInv, HttpTypes
  <2>3. FdsOwned'
    BY <1>1, <2>1, GotoFacts DEF HttpInv, FdsOwned
  <2>4. CountAt(thread', Taken) = CountAt(thread, Taken) - 1
    BY <2>1, GotoFacts DEF HttpInv, Shift
  <2>5. SlotCounts'
    BY <1>0, <1>1, <1>9, <2>1, <2>4 DEF HttpInv, SlotCounts, HttpTypes
  <2>6. stopper # "returned"
    BY <1>0, <1>1, <2>4, CountFinite DEF HttpInv, SlotCounts, StopOrder
  <2> QED BY <1>2, <2>1, <2>2, <2>3, <2>5, <2>6 DEF HttpInv, StopOrder
<1> QED BY <1>5, <1>6, <1>7, <1>8, <1>10, <1>11, <1>12 DEF ThreadStep, Winds

(* A step of the acceptor.                                                 *)
LEMMA AcceptorKeeps ==
  ASSUME HttpInv, Accept \/ Admit \/ Spawn \/ EndAcceptor
  PROVE  HttpInv'
<1> USE HttpAssumption DEF ThreadPlaces, Taken, Owning, Listed, Slotted
<1>0. \A S : CountAt(thread, S) \in Nat
  BY CountFinite
<1>1. CASE Accept
  <2>1. PICK f \in Fds : /\ owner[f] = Free /\ owner' = [owner EXCEPT ![f] = "acceptor"]
                         /\ acceptor' = [at |-> "check", fd |-> f]
    BY <1>1 DEF Accept
  <2>2. /\ acceptor.at = "poll" /\ \E t \in Threads : thread[t].at = "none"
        /\ UNCHANGED <<up, thread, connections, streams, liveFds, broken, stopper, stray>>
    BY <1>1 DEF Accept
  <2>3. HttpTypes' /\ SlotCounts' /\ StopOrder'
    BY <2>1, <2>2 DEF HttpInv, HttpTypes, SlotCounts, StopOrder
  <2>4. Free \notin Threads /\ \A g \in Fds : g # f => owner'[g] = owner[g]
    BY <2>1 DEF HttpInv, HttpTypes, Free
  <2>5. FdsOwned'
    BY <2>1, <2>2, <2>4 DEF HttpInv, HttpTypes, FdsOwned
  <2> QED BY <2>3, <2>5 DEF HttpInv
<1>2. CASE Admit
  <2>1. CASE connections >= MaxConnections
    <3>1. /\ acceptor.at = "check" /\ owner' = [owner EXCEPT ![acceptor.fd] = Free]
          /\ acceptor' = [at |-> "poll", fd |-> Free]
          /\ UNCHANGED <<up, connections, thread, streams, liveFds, broken, stopper, stray>>
      BY <1>2, <2>1 DEF Admit
    <3>2. HttpTypes' /\ SlotCounts' /\ StopOrder'
      BY <3>1 DEF HttpInv, HttpTypes, SlotCounts, StopOrder
    <3>3. "acceptor" \notin Threads /\ \A g \in Fds : g # acceptor.fd => owner'[g] = owner[g]
      BY <3>1 DEF HttpInv, HttpTypes
    <3>4. FdsOwned'
      BY <3>1, <3>3 DEF HttpInv, HttpTypes, FdsOwned
    <3> QED BY <3>2, <3>4 DEF HttpInv
  <2>2. CASE ~(connections >= MaxConnections)
    <3>1. /\ acceptor.at = "check" /\ connections' = connections + 1
          /\ acceptor' = [acceptor EXCEPT !.at = "insert"]
          /\ UNCHANGED <<up, owner, thread, streams, liveFds, broken, stopper, stray>>
      BY <1>2, <2>2 DEF Admit
    <3>2. acceptor'.at = "insert" /\ acceptor'.fd = acceptor.fd /\ HttpTypes'
      BY <3>1 DEF HttpInv, HttpTypes
    <3>3. SlotCounts'
      BY <1>0, <2>2, <3>1, <3>2 DEF HttpInv, HttpTypes, SlotCounts
    <3>4. StopOrder' /\ FdsOwned'
      BY <3>1, <3>2 DEF HttpInv, FdsOwned, StopOrder
    <3> QED BY <3>2, <3>3, <3>4 DEF HttpInv
  <2> QED BY <2>1, <2>2
<1>3. CASE Spawn
  <2>1. PICK t \in Threads : /\ thread[t].at = "none"
                             /\ thread' = [thread EXCEPT ![t] = [at |-> "serve",
                                   fd |-> acceptor.fd]]
                             /\ owner' = [owner EXCEPT ![acceptor.fd] = t]
    BY <1>3 DEF HttpInv, FdsOwned, Spawn
  <2>2. /\ acceptor.at = "insert" /\ acceptor' = [at |-> "poll", fd |-> Free]
        /\ liveFds' = liveFds \cup {acceptor.fd}
        /\ UNCHANGED <<up, connections, streams, broken, stopper, stray>>
        /\ acceptor.fd \in Fds /\ owner[acceptor.fd] = "acceptor"
    BY <1>3 DEF Spawn, HttpInv, FdsOwned
  <2>3. HttpTypes'
    BY <2>1, <2>2 DEF HttpInv, HttpTypes
  <2>4. /\ "acceptor" \notin Threads /\ \A g \in Fds : g # acceptor.fd => owner'[g] = owner[g]
        /\ owner'[acceptor.fd] = t /\ thread'[t].at = "serve" /\ thread'[t].fd = acceptor.fd
        /\ \A u \in Threads \ {t} : thread'[u] = thread[u]
    BY <2>1, <2>2 DEF HttpInv, HttpTypes
  <2>5. FdsOwned'
    <3>1. \A u \in Threads : thread'[u].at \in Owning =>
            thread'[u].fd \in Fds /\ owner'[thread'[u].fd] = u
      BY <2>1, <2>2, <2>4 DEF HttpInv, FdsOwned
    <3>2. \A f \in liveFds' : \E u \in Threads : owner'[f] = u /\ thread'[u].at \in Listed
            /\ thread'[u].fd = f
      <4> SUFFICES ASSUME NEW f \in liveFds'
                   PROVE  \E u \in Threads : owner'[f] = u /\ thread'[u].at \in Listed
                         /\ thread'[u].fd = f
        OBVIOUS
      <4>1. CASE f = acceptor.fd
        BY <2>4, <4>1
      <4>2. CASE f # acceptor.fd
        <5>1. f \in liveFds /\ f \in Fds
          BY <2>2, <4>2 DEF HttpInv, HttpTypes
        <5>2. PICK u \in Threads : owner[f] = u /\ thread[u].at \in Listed /\ thread[u].fd = f
          BY <5>1 DEF HttpInv, FdsOwned
        <5>3. u # t
          BY <2>1, <5>2
        <5> QED BY <2>4, <4>2, <5>1, <5>2, <5>3
      <4> QED BY <4>1, <4>2
    <3> QED BY <2>2, <3>1, <3>2 DEF FdsOwned
  <2>6. /\ CountAt(thread', Taken) = CountAt(thread, Taken) + 1
        /\ CountAt(thread', Slotted) = CountAt(thread, Slotted)
        /\ CountAt(thread', {"stream"}) = CountAt(thread, {"stream"})
    <3> DEFINE r == [at |-> "serve", fd |-> acceptor.fd]
    <3>1. r \in [at : ThreadPlaces, fd : Fds \cup {Free}] /\ r.at = "serve"
      BY <2>2
    <3>2. thread \in [Threads -> [at : ThreadPlaces, fd : Fds \cup {Free}]]
            /\ thread' = [thread EXCEPT ![t] = r]
      BY <2>1 DEF HttpInv, HttpTypes
    <3> HIDE DEF r
    <3>3. ASSUME NEW S PROVE Shift("none", "serve", S, CountAt(thread, S), CountAt(thread', S))
      <4> HIDE DEF ThreadPlaces
      <4>1. Shift(thread[t].at, r.at, S, CountAt(thread, S), CountAt(thread', S))
        BY <3>1, <3>2, ThreadMoves, Zenon
      <4> QED BY <2>1, <3>1, <4>1
    <3> QED BY <3>3 DEF Shift
  <2>7. SlotCounts'
    BY <1>0, <2>2, <2>6 DEF HttpInv, HttpTypes, SlotCounts
  <2>8. StopOrder'
    BY <2>2 DEF HttpInv, StopOrder
  <2> QED BY <2>3, <2>5, <2>7, <2>8 DEF HttpInv
<1>4. CASE EndAcceptor
  BY <1>0, <1>4 DEF EndAcceptor, HttpInv, HttpTypes, FdsOwned, SlotCounts, StopOrder
<1> QED BY <1>1, <1>2, <1>3, <1>4

(* A step of stop(), or of the rest of the daemon.                         *)
LEMMA StopperKeeps ==
  ASSUME HttpInv, StopBegin \/ Break \/ StopReturn \/ StopExit \/ OtherOpens
  PROVE  HttpInv'
<1> USE HttpAssumption DEF ThreadPlaces, Taken, Owning, Listed, Slotted
<1>1. CASE StopBegin \/ StopReturn \/ StopExit
  BY <1>1 DEF StopBegin, StopReturn, StopExit, HttpInv, HttpTypes, FdsOwned, SlotCounts, StopOrder
<1>2. CASE Break
  <2>1. ~stray'
    BY <1>2 DEF Break, HttpInv, FdsOwned, StopOrder
  <2>2. acceptor.at = "done" /\ stopper' = "wait"
          /\ UNCHANGED <<up, acceptor, thread, connections, streams, liveFds, owner>>
    BY <1>2 DEF Break, Joined
  <2> QED BY <2>1, <2>2 DEF HttpInv, HttpTypes, FdsOwned, SlotCounts, StopOrder
<1>3. CASE OtherOpens
  <2>1. PICK f \in Fds : owner[f] = Free /\ owner' = [owner EXCEPT ![f] = Other]
    BY <1>3 DEF OtherOpens
  <2>2. UNCHANGED <<up, acceptor, thread, connections, streams, liveFds, broken, stopper, stray>>
    BY <1>3 DEF OtherOpens
  <2>3. Free \notin Threads /\ Free # "acceptor" /\ \A g \in Fds : g # f => owner'[g] = owner[g]
    BY <2>1 DEF HttpInv, HttpTypes, Free
  <2>4. FdsOwned'
    BY <2>1, <2>2, <2>3 DEF HttpInv, HttpTypes, FdsOwned
  <2> QED BY <2>1, <2>2, <2>4 DEF HttpInv, HttpTypes, SlotCounts, StopOrder
<1> QED BY <1>1, <1>2, <1>3

(* Every step of the threads, the acceptor and stop() keeps the counts.    *)
LEMMA HttpInvStep == HttpInv /\ [HttpNext]_httpVars => HttpInv'
<1>1. HttpInv /\ UNCHANGED httpVars => HttpInv'
  BY DEF httpVars, HttpInv, HttpTypes, FdsOwned, SlotCounts, StopOrder, Free, Other, CountAt,
        ThreadsAt
<1> QED BY <1>1, ThreadStepKeeps, AcceptorKeeps, StopperKeeps DEF HttpNext, HttpStep

(* At the start there is no connection.                                    *)
LEMMA HttpInvInit == HttpInit => HttpInv
<1> SUFFICES ASSUME HttpInit PROVE HttpInv
  OBVIOUS
<1> USE HttpAssumption DEF ThreadPlaces, Taken, Owning, Listed, Slotted
<1>1. HttpTypes /\ FdsOwned /\ StopOrder
  BY DEF HttpInit, HttpTypes, FdsOwned, StopOrder
<1>2. ThreadsAt(thread, Taken) = {} /\ ThreadsAt(thread, Slotted) = {}
        /\ ThreadsAt(thread, {"stream"}) = {}
  BY DEF HttpInit, ThreadsAt
<1>3. Cardinality(ThreadsAt(thread, Taken)) = 0 /\ Cardinality(ThreadsAt(thread, Slotted)) = 0
        /\ Cardinality(ThreadsAt(thread, {"stream"})) = 0
  BY <1>2, FS_EmptySet
<1>4. connections = 0 /\ streams = 0 /\ acceptor.at # "insert"
  BY DEF HttpInit
<1>5. SlotCounts
  BY <1>3, <1>4 DEF SlotCounts, CountAt
<1> QED BY <1>1, <1>5 DEF HttpInv

(* The counts and the owners are what stop() relies on.                    *)
LEMMA HttpInvClean == HttpInv => CleanStop
<1> SUFFICES ASSUME HttpInv PROVE CleanStop
  OBVIOUS
<1> USE HttpAssumption DEF ThreadPlaces, Taken, Owning, Listed, Slotted
<1>0. \A S : CountAt(thread, S) \in Nat /\ IsFiniteSet(ThreadsAt(thread, S))
  BY CountFinite
<1>1. Cardinality({t \in Threads : thread[t].at = "stream"}) <= MaxStreams
  <2>1. {t \in Threads : thread[t].at = "stream"} = ThreadsAt(thread, {"stream"})
    BY DEF ThreadsAt
  <2> QED BY <2>1 DEF HttpInv, SlotCounts, CountAt
<1>2. {t \in Threads : thread[t].at \notin {"none", "gone"}} = ThreadsAt(thread, Taken)
  <2>1. \A t \in Threads : thread[t].at \in ThreadPlaces
    BY DEF HttpInv, HttpTypes
  <2>2. \A t \in Threads : thread[t].at \notin {"none", "gone"} <=> thread[t].at \in Taken
    BY <2>1
  <2> QED BY <2>2, Zenon DEF ThreadsAt
<1>3. Cardinality({t \in Threads : thread[t].at \notin {"none", "gone"}}) <= MaxConnections
  <2>1. CountAt(thread, Taken) <= MaxConnections
    BY <1>0 DEF HttpInv, SlotCounts
  <2> QED BY <1>2, <2>1, Zenon DEF CountAt
<1>4. (\A t \in Threads : thread[t].at \in {"none", "erase", "close", "count", "gone"})
        => streams = 0
  <2>1. (\A t \in Threads : thread[t].at \in {"none", "erase", "close", "count", "gone"})
          => ThreadsAt(thread, Slotted) = {}
    BY DEF ThreadsAt
  <2> QED BY <2>1, FS_EmptySet DEF HttpInv, SlotCounts, CountAt
<1>5. stopper = "returned" => \A t \in Threads : thread[t].at \in {"none", "gone"}
  <2>1. stopper = "returned" => CountAt(thread, Taken) = 0
    BY <1>0 DEF HttpInv, SlotCounts, StopOrder
  <2>2. stopper = "returned" => ThreadsAt(thread, Taken) = {}
    BY <1>0, <2>1, FS_EmptySet DEF CountAt
  <2> QED BY <1>2, <2>2
<1> QED BY <1>1, <1>3, <1>4, <1>5 DEF CleanStop, SlotsHeld, HttpInv, StopOrder

(* stop() returns only when no connection's thread is left, shuts down no  *)
(* socket but theirs, and every slot comes back: for every number of       *)
(* connections, streams and descriptors (HttpApi::stop, serveConnection).  *)
THEOREM StopIsClean == Spec => []CleanStop
<1>1. Init => HttpInv
  BY HttpInvInit DEF Init
<1>2. HttpInv /\ [Next]_vars => HttpInv'
  <2>1. [Next]_vars => [HttpNext]_httpVars
    BY Zenon DEF Next, vars, MonitorStep, PublishStep, ThreadsStep, TicksStep, DriftStep, ChartStep
  <2> QED
    BY <2>1, HttpInvStep
<1> QED
  BY <1>1, <1>2, HttpInvClean, PTL DEF Spec
-----------------------------------------------------------------------------
(* The seconds that are taken to have come up with the loop away.          *)
Came(s) == s \in heldUp

(* Outside the poll every second after the last tick's that TickWait would *)
(* pass over has come up; in the poll there is a second b that it will end *)
(* at, at most a millisecond early, and all between has come up.  Both are *)
(* out by what the correction has moved since the tick.                    *)
Passing ==
  \A s \in Nat : s > ticks.last /\ s * SecondLen <= corrected + 9 - shifted => Came(s)
Target(b) ==
  /\ b > ticks.last
  /\ b * SecondLen - 3 - shifted <= corrected + pollLeft
  /\ corrected + pollLeft <= b * SecondLen + shifted
  /\ \A s \in Nat : s > ticks.last /\ s < b => Came(s)

TickInv ==
  /\ corrected \in Nat /\ pollLeft \in Nat \union {-1} /\ shifted \in Nat
  /\ ticks.last \in Nat /\ ticks.before \in Int
  /\ OneTickASecond
  /\ shifted <= Steady =>
       /\ ticks.last * SecondLen <= corrected + 5 + shifted
       /\ pollLeft = -1 => Passing
       /\ pollLeft # -1 => \E b \in Nat : Target(b)

(* The quotient and the rest of a division.                                *)
LEMMA Quotient ==
  ASSUME NEW n \in Nat \ {0}, NEW q \in Int, NEW r \in 0..n - 1, NEW y \in Int, y = q * n + r
  PROVE  y \div n = q /\ y % n = r
  OBVIOUS

LEMMA Division ==
  ASSUME NEW n \in Nat \ {0}, NEW y \in Nat
  PROVE  /\ y \div n \in Nat /\ y % n \in 0..n - 1
         /\ y = (y \div n) * n + (y % n)
  OBVIOUS

(* Seconds begin a second apart.                                           *)
LEMMA Begins ==
  ASSUME NEW n \in Nat \ {0}, NEW a \in Int, NEW b \in Int
  PROVE  /\ a < b <=> a * n < b * n
         /\ a <= b <=> a * n <= b * n
         /\ a * n \in Int /\ (a + 1) * n = a * n + n
<1>1. ASSUME NEW x \in Int, NEW y \in Int, x < y PROVE x * n < y * n
  <2>1. (y - x) * n = y * n - x * n
    OBVIOUS
  <2>2. y - x >= 1 /\ (y - x) * n >= n
    BY <1>1
  <2> QED BY <2>1, <2>2
<1>2. a < b => a * n < b * n
  BY <1>1
<1>3. b < a => b * n < a * n
  BY <1>1
<1> QED BY <1>2, <1>3

(* The second a tick at t is of.                                           *)
LEMMA SecondShown ==
  ASSUME NEW t \in Nat
  PROVE  /\ SecondOf(t) \in Nat
         /\ SecondOf(t) * SecondLen <= t + 5 /\ t + 5 < SecondOf(t) * SecondLen + SecondLen
<1> DEFINE n == SecondLen
           y == t + 5
<1>1. n \in Nat \ {0} /\ y \in Nat /\ SecondOf(t) = y \div n
  BY HttpAssumption DEF SecondOf
<1> HIDE DEF n, y
<1>2. /\ y \div n \in Nat /\ y % n \in 0..n - 1
      /\ y = (y \div n) * n + (y % n)
  BY <1>1, Division
<1>3. (y \div n) * n <= y /\ y < (y \div n) * n + n
  <2> DEFINE q == (y \div n) * n
             m == y % n
  <2>1. q \in Int /\ m \in 0..n - 1 /\ y = q + m /\ n \in Nat
    BY <1>1, <1>2
  <2> HIDE DEF q, m
  <2>2. q <= y /\ y < q + n
    BY <2>1
  <2> QED BY <2>2 DEF q
<1> QED BY <1>1, <1>2, <1>3 DEF n, y

(* A second that begins in a hold-up, or soon after, has come up.          *)
LEMMA Comes ==
  ASSUME NEW from \in Nat, NEW to \in Nat, NEW s \in Nat,
         from - 2 <= s * SecondLen, s * SecondLen <= to + 10
  PROVE  s \in CameUp(from, to)
<1>1. SecondLen \in Nat \ {0}
  BY HttpAssumption
<1>2. s <= s * SecondLen
  BY <1>1
<1>3. s \in 0..(to + 10)
  BY <1>1, <1>2
<1> QED BY <1>3 DEF CameUp, Milli, Steady

(* The wait ends less than a millisecond before a second: the next, or the *)
(* one after it when the next is less than two milliseconds off.           *)
LEMMA WaitFact ==
  ASSUME NEW x \in 0..SecondLen - 1
  PROVE  \E r \in 0..Milli - 1 :
           x + (TickWait(x) \div Milli) * Milli =
             (IF SecondLen - x < 2 * Milli THEN 2 * SecondLen ELSE SecondLen) - r
<1> DEFINE w == (SecondLen - x) % SecondLen
<1>0. SecondLen \in Nat /\ SecondLen >= 8
  BY HttpAssumption
<1>1. w = IF x = 0 THEN 0 ELSE SecondLen - x
  <2>1. CASE x = 0
    BY <1>0, <2>1, Quotient, SecondLen - x = 1 * SecondLen + 0
  <2>2. CASE x # 0
    <3>1. SecondLen - x \in 0..SecondLen - 1 /\ SecondLen - x = 0 * SecondLen + (SecondLen - x)
      BY <1>0, <2>2
    <3> QED BY <1>0, <2>2, <3>1, Quotient
  <2> QED BY <2>1, <2>2
<1> HIDE DEF w
<1> DEFINE v == TickWait(x)
<1>2. v = IF SecondLen - x < 8 THEN 2 * SecondLen - x ELSE SecondLen - x
  BY <1>0, <1>1 DEF TickWait, Milli, w
<1> HIDE DEF v
<1>3. ASSUME NEW y \in Int PROVE \E r \in 0..3 : (y \div 4) * 4 = y - r
  <2>1. y - (y \div 4) * 4 \in 0..3 /\ (y \div 4) * 4 = y - (y - (y \div 4) * 4)
    OBVIOUS
  <2> QED BY <2>1
<1>4. v \in Int
  BY <1>0, <1>2
<1>5. PICK r \in 0..3 : (v \div 4) * 4 = v - r
  BY <1>3, <1>4
<1>6. x + (v \div 4) * 4 = (IF SecondLen - x < 8 THEN 2 * SecondLen ELSE SecondLen) - r
  BY <1>0, <1>2, <1>5
<1> QED BY <1>6 DEF Milli, v

(* The poll is for the first second that is two milliseconds off.          *)
LEMMA PlanTarget ==
  ASSUME TickInv, PlanTick
  PROVE  TickInv'
<1> DEFINE L == SecondLen
           x == corrected % L
           q == corrected \div L
           w == (TickWait(x) \div Milli) * Milli
<1>1. L \in Nat \ {0} /\ L >= 8 /\ corrected \in Nat
  BY HttpAssumption DEF TickInv
<1>2. q \in Nat /\ x \in 0..L - 1 /\ corrected = q * L + x
  BY <1>1, Division
<1>3. pollLeft = -1 /\ pollLeft' = w /\ UNCHANGED <<corrected, ticks, shifted, heldUp>>
  BY DEF PlanTick
<1>4. PICK r \in 0..3 : x + w = (IF L - x < 8 THEN 2 * L ELSE L) - r
  BY <1>2, WaitFact DEF Milli
<1>0. w \in Int
  BY <1>1, <1>2 DEF TickWait, Milli
<1> HIDE DEF L, x, q, w
<1>5. /\ q * L \in Nat /\ (q + 1) * L = q * L + L /\ (q + 2) * L = q * L + 2 * L
  BY <1>1, <1>2
<1>6. PICK b \in Nat : /\ corrected + w = b * L - r /\ b * L >= corrected + 8
                       /\ b * L - L < corrected + 8 /\ b * L \in Nat
  <2> DEFINE k == q * L
  <2>1. k \in Nat /\ corrected = k + x
    BY <1>2, <1>5
  <2>2. CASE L - x < 8
    <3>1. (q + 2) * L = k + 2 * L /\ q + 2 \in Nat
      BY <1>2, <1>5
    <3> HIDE DEF k
    <3>2. /\ corrected + w = (k + 2 * L) - r /\ k + 2 * L >= corrected + 8
          /\ (k + 2 * L) - L < corrected + 8 /\ k + 2 * L \in Nat
      BY <1>0, <1>1, <1>2, <1>4, <2>1, <2>2
    <3>3. LET b == q + 2 IN /\ corrected + w = b * L - r /\ b * L >= corrected + 8
                          /\ b * L - L < corrected + 8 /\ b * L \in Nat
      BY <3>1, <3>2
    <3> QED BY <3>1, <3>3
  <2>3. CASE ~(L - x < 8)
    <3>1. (q + 1) * L = k + L /\ q + 1 \in Nat
      BY <1>2, <1>5
    <3> HIDE DEF k
    <3>2. /\ corrected + w = (k + L) - r /\ k + L >= corrected + 8
          /\ (k + L) - L < corrected + 8 /\ k + L \in Nat
      BY <1>0, <1>1, <1>2, <1>4, <2>1, <2>3
    <3>3. LET b == q + 1 IN /\ corrected + w = b * L - r /\ b * L >= corrected + 8
                          /\ b * L - L < corrected + 8 /\ b * L \in Nat
      BY <3>1, <3>2
    <3> QED BY <3>1, <3>3
  <2> QED BY <2>2, <2>3
<1>7. w \in Nat
  BY <1>0, <1>1, <1>6
<1>8. ASSUME shifted <= 2 PROVE Target(b)'
  <2>1. ticks.last * L <= corrected + 5 + shifted /\ Passing /\ shifted \in Nat
    BY <1>3, <1>8 DEF TickInv, Steady, Milli, L
  <2>2. b > ticks.last
    <3>1. ticks.last * L < b * L
      BY <1>1, <1>6, <1>8, <2>1 DEF TickInv
    <3> QED BY <1>1, <1>6, <3>1, Begins DEF TickInv
  <2>3. ASSUME NEW s \in Nat, s > ticks.last, s < b PROVE Came(s)
    <3>1. s + 1 <= b /\ (s + 1) * L = s * L + L /\ s * L \in Int
      BY <1>1, <1>6, <2>3
    <3>2. (s + 1) * L <= b * L
      BY <1>1, <1>6, <3>1, Begins
    <3>3. s * L <= corrected + 7
      BY <1>1, <1>6, <3>1, <3>2
    <3>4. s * L <= corrected + 9 - shifted
      BY <1>1, <1>8, <2>1, <3>1, <3>3
    <3> QED BY <2>1, <2>3, <3>4 DEF Passing, L
  <2>4. /\ b * L - 3 - shifted <= corrected + w
        /\ corrected + w <= b * L + shifted
    BY <1>1, <1>4, <1>6, <2>1
  <2>5. (Target(b)') <=> /\ b > ticks.last
                         /\ b * L - 3 - shifted <= corrected + w
                         /\ corrected + w <= b * L + shifted
                         /\ \A s \in Nat : s > ticks.last /\ s < b => Came(s)
    BY <1>3, Zenon DEF Target, Came, L
  <2> QED BY <2>2, <2>3, <2>4, <2>5
<1> QED
  BY <1>3, <1>6, <1>7, <1>8 DEF TickInv, OneTickASecond, Steady, Milli

(* A tick: of the second waited for or, late, of a later one; what is      *)
(* passed over came up before the poll, or during the hold-up.             *)
LEMMA TickSent ==
  ASSUME TickInv, NEW late \in Nat, NEW took \in Nat, NEW failed \in BOOLEAN,
         SendTick(corrected, corrected + late, took, failed),
         pollLeft = 0 \/ (failed /\ pollLeft >= 0)
  PROVE  TickInv'
<1> DEFINE L  == SecondLen
           at == corrected + late
           n  == SecondOf(at)
<1>1. L \in Nat \ {0} /\ L >= 8 /\ corrected \in Nat /\ at \in Nat /\ at + took \in Nat
  BY HttpAssumption DEF TickInv
<1>2. n \in Nat /\ n * L <= at + 5 /\ at + 5 < n * L + L /\ n * L \in Int
  BY <1>1, SecondShown
<1>3. /\ ticks'.before = ticks.last /\ ticks'.last = n
      /\ ticks'.even = (shifted <= Steady /\ ~failed)
      /\ corrected' = at + took /\ pollLeft' = -1 /\ shifted' = 0
      /\ heldUp' = {s \in heldUp : s > ticks.last} \union CameUp(corrected, at + took)
  BY DEF SendTick
<1> HIDE DEF L, at, n
<1>4. at >= corrected
  BY DEF TickInv, at
<1>5. Passing'
  <2>1. ASSUME NEW s \in Nat, s > n, s * L <= at + took + 9 PROVE s \in heldUp'
    <3>1. n + 1 <= s /\ (n + 1) * L = n * L + L
      BY <1>1, <1>2, <2>1
    <3>2. (n + 1) * L <= s * L /\ s * L \in Int
      BY <1>1, <1>2, <2>1, <3>1, Begins
    <3>3. corrected - 2 <= s * L /\ s * L <= at + took + 10
      BY <1>1, <1>2, <1>4, <2>1, <3>1, <3>2
    <3>4. s \in CameUp(corrected, at + took)
      BY <1>1, <3>3, Comes DEF L
    <3> QED BY <1>3, <3>4
  <2> QED BY <1>1, <1>3, <2>1 DEF Passing, Came, L
<1>6. OneTickASecond'
  <2>0. (OneTickASecond') <=> (shifted <= Steady /\ ~failed =>
          /\ ticks.last < n /\ (ticks.last + 1)..(n - 1) \subseteq heldUp')
    BY <1>3, Zenon DEF OneTickASecond
  <2> SUFFICES ASSUME shifted <= 2, ~failed
               PROVE  ticks.last < n /\ (ticks.last + 1)..(n - 1) \subseteq heldUp'
    BY <2>0 DEF Steady, Milli
  <2>1. pollLeft = 0 /\ shifted \in Nat /\ ticks.last \in Nat
    BY DEF TickInv
  <2>2. PICK b \in Nat : Target(b)
    BY <2>1 DEF TickInv, Steady, Milli
  <2>3. /\ b > ticks.last /\ b * L \in Int
        /\ b * L - 3 - shifted <= corrected /\ corrected <= b * L + shifted
    BY <1>1, <2>1, <2>2 DEF Target, L
  <2>4. b <= n
    <3>1. b * L < (n + 1) * L
      BY <1>1, <1>2, <1>4, <2>1, <2>3
    <3>2. b < n + 1
      BY <1>1, <1>2, <3>1, Begins
    <3> QED BY <1>2, <3>2
  <2>5. ASSUME NEW s \in (ticks.last + 1)..(n - 1) PROVE s \in heldUp'
    <3>1. s \in Nat /\ s > ticks.last /\ s < n
      BY <1>2, <2>1
    <3>2. CASE s < b
      <4>1. s \in heldUp
        BY <2>2, <3>1, <3>2 DEF Target, Came
      <4> QED BY <1>3, <3>1, <4>1
    <3>3. CASE ~(s < b)
      <4>1. b * L <= s * L /\ s * L < n * L /\ s * L \in Int
        BY <1>1, <1>2, <3>1, <3>3, Begins
      <4>2. corrected - 2 <= s * L /\ s * L <= at + took + 10
        BY <1>1, <1>2, <2>1, <2>3, <4>1
      <4>3. s \in CameUp(corrected, at + took)
        BY <1>1, <3>1, <4>2, Comes DEF L
      <4> QED BY <1>3, <4>3
    <3> QED BY <3>2, <3>3
  <2> QED BY <1>2, <2>1, <2>3, <2>4, <2>5
<1>7. n * L <= (at + took) + 5 + 0
  BY <1>1, <1>2
<1> QED
  BY <1>1, <1>2, <1>3, <1>5, <1>6, <1>7 DEF TickInv, Steady, Milli, L

(* A client that speaks: what it makes the loop pass over has come up.     *)
LEMMA SpokenTo ==
  ASSUME TickInv, NEW late \in Nat, ClientSpeaks(late)
  PROVE  TickInv'
<1> DEFINE L == SecondLen
           z == corrected + late
<1>1. L \in Nat \ {0} /\ corrected \in Nat /\ z \in Nat /\ z >= corrected /\ shifted \in Nat
  BY HttpAssumption DEF TickInv
<1>2. /\ pollLeft >= 0 /\ pollLeft \in Nat /\ pollLeft' = -1 /\ corrected' = z
      /\ heldUp' = heldUp \union CameUp(corrected, z)
      /\ UNCHANGED <<ticks, shifted>>
  BY DEF ClientSpeaks, TickInv
<1> HIDE DEF L, z
<1>3. ASSUME shifted <= 2 PROVE Passing'
  <2>1. PICK b \in Nat : Target(b)
    BY <1>2, <1>3 DEF TickInv, Steady, Milli
  <2>2. corrected + pollLeft <= b * L + shifted /\ b * L \in Int
    BY <1>1, <2>1 DEF Target, L
  <2>3. ASSUME NEW s \in Nat, s > ticks.last, s * L <= z + 9 - shifted PROVE s \in heldUp'
    <3>1. CASE s < b
      <4>1. s \in heldUp
        BY <2>1, <2>3, <3>1 DEF Target, Came
      <4> QED BY <1>2, <4>1
    <3>2. CASE ~(s < b)
      <4>1. b * L <= s * L /\ s * L \in Int
        BY <1>1, <3>2, Begins
      <4>2. corrected - 2 <= s * L /\ s * L <= z + 10
        BY <1>1, <1>2, <1>3, <2>2, <2>3, <4>1
      <4>3. s \in CameUp(corrected, z)
        BY <1>1, <4>2, Comes DEF L
      <4> QED BY <1>2, <4>3
    <3> QED BY <3>1, <3>2
  <2> QED BY <1>1, <1>2, <2>3 DEF Passing, Came, L
<1>4. OneTickASecond'
  BY <1>2 DEF OneTickASecond, TickInv
<1>5. shifted <= 2 => ticks.last * L <= z + 5 + shifted
  <2>1. ticks.last * L \in Int
    BY <1>1 DEF TickInv
  <2>2. shifted <= 2 => ticks.last * L <= corrected + 5 + shifted
    BY DEF TickInv, Steady, Milli, L
  <2> QED BY <1>1, <2>1, <2>2
<1> QED
  BY <1>1, <1>2, <1>3, <1>4, <1>5 DEF TickInv, Steady, Milli, L

(* Time passes in the poll.                                                *)
LEMMA WaitsOn ==
  ASSUME TickInv, Waits
  PROVE  TickInv'
<1>1. /\ pollLeft \in Nat \ {0} /\ pollLeft' = pollLeft - 1 /\ corrected' = corrected + 1
      /\ UNCHANGED <<ticks, shifted, heldUp>> /\ corrected \in Nat /\ shifted \in Nat
  BY DEF Waits, TickInv
<1>2. corrected' + pollLeft' = corrected + pollLeft
  BY <1>1
<1>3. \A b \in Nat : Target(b) => Target(b)'
  BY <1>1, <1>2 DEF Target, Came
<1>4. OneTickASecond'
  BY <1>1 DEF OneTickASecond, TickInv
<1>5. shifted <= 2 => ticks.last * SecondLen <= (corrected + 1) + 5 + shifted
  <2>1. ticks.last * SecondLen \in Int
    BY HttpAssumption DEF TickInv
  <2>2. shifted <= 2 => ticks.last * SecondLen <= corrected + 5 + shifted
    BY DEF TickInv, Steady, Milli
  <2> QED BY <1>1, <2>1, <2>2
<1>6. pollLeft' \in Nat /\ corrected' \in Nat
  BY <1>1
<1>7. shifted <= 2 => \E b \in Nat : Target(b)'
  BY <1>1, <1>3 DEF TickInv, Steady, Milli
<1> QED BY <1>1, <1>4, <1>5, <1>6, <1>7 DEF TickInv, Steady, Milli

(* The correction moves, by little or by much.                             *)
LEMMA MovesOn ==
  ASSUME TickInv, NEW by \in Int, CorrectionMoves(by)
  PROVE  TickInv'
<1> DEFINE size  == IF by < 0 THEN -by ELSE by
           total == shifted + size
<1>1. /\ corrected \in Nat /\ shifted \in Nat /\ corrected + by >= 0 /\ corrected' = corrected + by
      /\ shifted' = IF total > 2 THEN 3 ELSE total
      /\ UNCHANGED <<pollLeft, ticks, heldUp>>
  BY DEF CorrectionMoves, TickInv, Steady, Milli
<1>2. size \in Nat /\ size >= by /\ size >= -by
  OBVIOUS
<1> HIDE DEF size
<1>3. corrected' \in Nat /\ shifted' \in Nat
  BY <1>1, <1>2
<1>4. OneTickASecond'
  BY <1>1 DEF OneTickASecond, TickInv
<1>5. ASSUME shifted' <= 2
      PROVE  /\ ticks.last * SecondLen <= corrected' + 5 + shifted'
             /\ pollLeft = -1 => Passing'
             /\ pollLeft # -1 => \E b \in Nat : Target(b)'
  <2>1. shifted' = shifted + size /\ shifted <= 2
    BY <1>1, <1>2, <1>5
  <2>2. ASSUME NEW s \in Nat PROVE s * SecondLen \in Int
    BY HttpAssumption
  <2>3. ticks.last * SecondLen <= corrected' + 5 + shifted'
    <3>1. ticks.last * SecondLen <= corrected + 5 + shifted /\ ticks.last \in Nat
      BY <2>1 DEF TickInv, Steady, Milli
    <3> QED BY <1>1, <1>2, <2>1, <2>2, <3>1
  <2>4. ASSUME pollLeft = -1 PROVE Passing'
    <3>1. Passing
      BY <2>1, <2>4 DEF TickInv, Steady, Milli
    <3>2. ASSUME NEW s \in Nat, s * SecondLen <= corrected' + 9 - shifted'
          PROVE  s * SecondLen <= corrected + 9 - shifted
      BY <1>1, <1>2, <2>1, <2>2, <3>2
    <3>3. (Passing') <=> \A s \in Nat : s > ticks.last /\ s * SecondLen <= corrected' + 9 - shifted'
                           => Came(s)
      BY <1>1 DEF Passing, Came
    <3> QED BY <3>1, <3>2, <3>3 DEF Passing
  <2>5. ASSUME pollLeft # -1 PROVE \E b \in Nat : Target(b)'
    <3>1. PICK b \in Nat : Target(b)
      BY <2>1, <2>5 DEF TickInv, Steady, Milli
    <3>2. /\ b * SecondLen - 3 - shifted <= corrected + pollLeft
          /\ corrected + pollLeft <= b * SecondLen + shifted /\ pollLeft \in Nat
      BY <2>5, <3>1 DEF Target, TickInv
    <3>3. /\ b * SecondLen - 3 - shifted' <= corrected' + pollLeft
          /\ corrected' + pollLeft <= b * SecondLen + shifted'
      BY <1>1, <1>2, <2>1, <2>2, <3>2
    <3>4. Target(b)'
      BY <1>1, <3>1, <3>3 DEF Target, Came
    <3> QED BY <3>4
  <2> QED BY <2>3, <2>4, <2>5
<1> QED BY <1>1, <1>3, <1>4, <1>5 DEF TickInv, Steady, Milli

(* A stream opens with a tick.                                             *)
LEMMA OpensTicked == TickInit => TickInv
<1> SUFFICES ASSUME TickInit PROVE TickInv
  OBVIOUS
<1> DEFINE L == SecondLen
           n == SecondOf(corrected)
<1>1. L \in Nat \ {0} /\ corrected \in Nat
  BY HttpAssumption DEF TickInit
<1>2. n \in Nat /\ n * L <= corrected + 5 /\ corrected + 5 < n * L + L /\ n * L \in Int
  BY <1>1, SecondShown
<1>3. /\ ticks.before = n - 1 /\ ticks.last = n /\ pollLeft = -1 /\ shifted = 0
      /\ heldUp = CameUp(corrected, corrected)
  BY DEF TickInit
<1> HIDE DEF L, n
<1>4. Passing
  <2>1. ASSUME NEW s \in Nat, s > n, s * L <= corrected + 9 PROVE s \in heldUp
    <3>1. n + 1 <= s /\ (n + 1) * L = n * L + L
      BY <1>1, <1>2, <2>1
    <3>2. (n + 1) * L <= s * L /\ s * L \in Int
      BY <1>1, <1>2, <2>1, <3>1, Begins
    <3>3. corrected - 2 <= s * L /\ s * L <= corrected + 10
      BY <1>1, <1>2, <2>1, <3>1, <3>2
    <3>4. s \in CameUp(corrected, corrected)
      BY <1>1, <3>3, Comes DEF L
    <3> QED BY <1>3, <3>4
  <2> QED BY <1>1, <1>3, <2>1 DEF Passing, Came, L
<1>5. OneTickASecond
  BY <1>2, <1>3 DEF OneTickASecond
<1> QED BY <1>1, <1>2, <1>3, <1>4, <1>5 DEF TickInv, Steady, Milli, L

(* While poll works and the correction moves by no more than half a        *)
(* millisecond between two ticks, no second is ticked twice, and one is    *)
(* left out only if it came up while the loop was away from its poll, or   *)
(* within two milliseconds after (serveEvents): for every length of the    *)
(* second, however late poll returns, however long a send takes, whenever  *)
(* the client speaks, and whatever the correction did before.              *)
THEOREM TicksOnceASecond == Spec => []OneTickASecond
<1>1. Init => TickInv
  BY OpensTicked DEF Init
<1>2. TickInv /\ [Next]_vars => TickInv'
  <2>1. [Next]_vars => TickNext \/ UNCHANGED tickVars
    BY Zenon DEF Next, vars, MonitorStep, PublishStep, ThreadsStep, TicksStep, DriftStep, ChartStep
  <2>2. TickInv /\ UNCHANGED tickVars => TickInv'
    BY DEF TickInv, tickVars, OneTickASecond, Passing, Target, Came
  <2>3. ASSUME TickInv, TickNext PROVE TickInv'
    <3>1. CASE PlanTick BY <2>3, <3>1, PlanTarget
    <3>2. CASE Waits BY <2>3, <3>2, WaitsOn
    <3>3. ASSUME NEW l \in HoldUps, NEW t \in HoldUps, TimedOut(l, t) PROVE TickInv'
      BY <2>3, <3>3, TickSent, HttpAssumption DEF TimedOut
    <3>4. ASSUME NEW h \in HoldUps, PollFails(h) PROVE TickInv'
      <4>1. corrected + 0 = corrected /\ h \in Nat
        BY <2>3, HttpAssumption DEF TickInv
      <4> QED BY <2>3, <3>4, <4>1, TickSent DEF PollFails
    <3>5. ASSUME NEW h \in HoldUps, ClientSpeaks(h) PROVE TickInv'
      BY <2>3, <3>5, SpokenTo, HttpAssumption
    <3>6. ASSUME NEW m \in Shifts, CorrectionMoves(m) PROVE TickInv'
      BY <2>3, <3>6, MovesOn, HttpAssumption
    <3> QED BY <2>3, <3>1, <3>2, <3>3, <3>4, <3>5, <3>6 DEF TickNext
  <2> QED
    BY <2>1, <2>2, <2>3
<1>3. TickInv => OneTickASecond
  BY DEF TickInv
<1> QED
  BY <1>1, <1>2, <1>3, PTL DEF Spec
-----------------------------------------------------------------------------
(* What the log has said, against what the monitor remembers of the last   *)
(* pass, and what it remembers against what that pass saw.                 *)
SnapFields == {"ready", "active", "link", "station", "rejecting", "adoptions", "held"}
SourceFields ==
  {"seen", "ready", "link", "failReported", "station", "refused", "rejecting", "adoptions", "held"}
RadioKept ==
  /\ DOMAIN snap = SnapFields /\ DOMAIN rs = SourceFields
  /\ snap.held \in BOOLEAN /\ snap.adoptions \in Nat
  /\ (rs.ready <=> snap.ready) /\ (rs.rejecting <=> snap.rejecting)
  /\ rs.link = snap.link /\ rs.adoptions = snap.adoptions /\ rs.held = snap.held
  /\ snap.station # "unknown" => rs.station = snap.station
  /\ verdict.reacquire => verdict.refused
  /\ verdict.refused /\ ~verdict.reacquire => rs.refused
  /\ verdict.judged /\ ~verdict.refused => ~rs.refused
RadioTold ==
  /\ told.ready = "yes" <=> rs.ready
  /\ told.link = "up" <=> rs.link = "Streaming"
  /\ told.link = "down" <=> rs.failReported
  /\ told.station \in {rs.station, "unknown"} /\ (~rs.seen => told.station = "unknown")
  /\ told.held = Said(rs.held)
  /\ rs.rejecting => told.time = "refused"
  /\ told.agreement = "refused" <=> rs.refused

NtpFields == {"ready", "active", "kiss", "up"}
PeerFields == {"seen", "ready", "kiss", "up"}
PeerKept ==
  /\ DOMAIN ntp = NtpFields /\ DOMAIN ns = PeerFields
  /\ ntp.active
  /\ ns.ready <=> ntp.ready
  /\ ntp.up # "none" => ns.up = ntp.up
PeerTold ==
  /\ told.peer = "yes" <=> ns.ready
  /\ told.upstream \in {ns.up, "none"} /\ (~ns.seen => told.upstream = "none")

Sides == {"none", "primary", "secondary"}
Servings == {"none", "primary", "secondary", "both", "coasting"}
\* A served time that is of no class is not synchronised, and one that is of a class is.
Shown(c) ==
  /\ c.serving \in Servings
  /\ c.serving = "none" => ~c.sync
  /\ c.serving \in {"primary", "secondary", "both"} => c.sync
  /\ {c.leap, c.primary, c.secondary, c.active} \subseteq BOOLEAN
ClockKept ==
  /\ Shown(clock) /\ mon.side \in Sides
  /\ mon.serving = clock.serving /\ (mon.sync <=> clock.sync)
  /\ mon.leap = clock.leap /\ mon.primary = clock.primary /\ mon.active = clock.active
  /\ mon.secondary \in BOOLEAN
  /\ mon.secondary <=> (clock.active /\ clock.secondary)
  /\ Live(clock) => mon.stratum = clock.stratum
  /\ OneSide(clock) => mon.side = clock.serving
ClockTold ==
  /\ told.primary = Said(mon.primary) /\ told.leap = Said(mon.leap)
  /\ told.secondary = "yes" <=> mon.secondary
  /\ told.standby \in {Said(mon.active), "unknown"} /\ (mon.first => told.standby = "unknown")
  /\ told.side \in {mon.side, "none"}
  /\ told.served = IF Live(mon) THEN Served(mon.stratum)
                   ELSE IF mon.sync THEN Coasting ELSE Unserved

Things ==
  {"ready", "link", "station", "time", "held", "agreement", "peer", "kiss", "upstream", "primary",
   "secondary", "standby", "side", "served", "leap"}
LogInv ==
  /\ ~repeats
  /\ DOMAIN told = Things
  /\ RadioKept /\ RadioTold /\ PeerKept /\ PeerTold /\ ClockKept /\ ClockTold

(* Reading a sequence of events one thing at a time: where the first n     *)
(* events speak of it last, if they do.                                    *)
Silent(E, n, on) == \A j \in 1..n : E[j].on # on
SpeaksLastAt(E, n, on, m) == m \in 1..n /\ E[m].on = on /\ \A j \in 1..n : E[j].on = on => j <= m
Readable(E, on) ==
  \A n \in 0..Len(E) : Silent(E, n, on) \/ \E m \in 1..n : SpeaksLastAt(E, n, on, m)

LEMMA WordOfSilence ==
  ASSUME NEW E, NEW n, NEW on, NEW d, Silent(E, n, on)
  PROVE  LastWord(E, n, on, d) = d
BY DEF Silent, LastWord

LEMMA WordOfLast ==
  ASSUME NEW E, NEW n \in Nat, NEW on, NEW d, NEW m, SpeaksLastAt(E, n, on, m)
  PROVE  LastWord(E, n, on, d) = E[m].is
<1> DEFINE A == {i \in 1..n : E[i].on = on}
<1>1. A # {} /\ m \in A /\ \A j \in A : m >= j /\ j \in Int
  BY DEF SpeaksLastAt
<1> HIDE DEF A
<1>2. Max(A) = m
  <2> DEFINE P(y) == y \in A /\ \A j \in A : y >= j
  <2>1. Max(A) = CHOOSE y : P(y)
    BY DEF Max
  <2>2. P(m) /\ \A y : P(y) => y = m
    BY <1>1
  <2> HIDE DEF P
  <2> QED
    BY <2>1, <2>2
<1> QED
  BY <1>1, <1>2 DEF LastWord, A

\* What E leaves a reader thinking of a thing, who thought d of it.
Word(E, on, d) == LastWord(E, Len(E), on, d)

\* A sequence of what may be said, which may be read; and one that says nothing of a thing.
Legible(S, E, on) == E \in Seq(S) /\ Readable(E, on)
Mute(E, on) == \A d : Word(E, on, d) = d /\ ~SaysAgain(E, on, d)

\* One event or none, and what it leaves of what a reader thought.
MaySay(S, E, x, is) == [on |-> x, is |-> is] \in S /\ E \in {<< >>, << [on |-> x, is |-> is] >>}

LEMMA ReadOneEvent ==
  ASSUME NEW S, NEW E, NEW x, NEW is, MaySay(S, E, x, is),
         NEW on, NEW d
  PROVE  /\ Legible(S, E, on)
         /\ Word(E, on, d) = IF E # << >> /\ x = on THEN is ELSE d
         /\ SaysAgain(E, on, d) <=> (E # << >> /\ x = on /\ is = d)
<1>1. CASE E = << >>
  <2>1. Len(E) = 0
    BY <1>1
  <2>2. Silent(E, 0, on) /\ ~SaysAgain(E, on, d)
    BY <2>1 DEF Silent, SaysAgain
  <2>3. LastWord(E, 0, on, d) = d
    BY <2>2, WordOfSilence
  <2>4. Readable(E, on)
    BY <2>1, <2>2 DEF Readable
  <2> QED
    BY <1>1, <2>1, <2>2, <2>3, <2>4 DEF Word, Legible
<1>2. CASE E # << >>
  <2>1. E = << [on |-> x, is |-> is] >> /\ Len(E) = 1 /\ E[1].on = x /\ E[1].is = is /\ E \in Seq(S)
    <3> DEFINE e == [on |-> x, is |-> is]
    <3>1. e.on = x /\ e.is = is /\ e \in S
      BY DEF MaySay
    <3>2. E = << e >>
      BY <1>2 DEF MaySay
    <3> HIDE DEF e
    <3>3. Len(E) = 1 /\ E[1] = e /\ E \in Seq(S)
      BY <3>1, <3>2
    <3> QED
      BY <3>1, <3>2, <3>3 DEF e
  <2>2. Silent(E, 0, on)
    BY DEF Silent
  <2>3. LastWord(E, 0, on, d) = d
    BY <2>2, WordOfSilence
  <2>4. SaysAgain(E, on, d) <=> (x = on /\ is = d)
    BY <2>1, <2>3 DEF SaysAgain
  <2>5. CASE x = on
    <3>1. SpeaksLastAt(E, 1, on, 1)
      BY <2>1, <2>5 DEF SpeaksLastAt
    <3>2. LastWord(E, 1, on, d) = is
      BY <2>1, <3>1, WordOfLast
    <3>3. Readable(E, on)
      BY <2>1, <2>2, <3>1 DEF Readable
    <3> QED
      BY <1>2, <2>1, <2>4, <2>5, <3>2, <3>3 DEF Word, Legible
  <2>6. CASE x # on
    <3>1. Silent(E, 1, on)
      BY <2>1, <2>6 DEF Silent
    <3>2. LastWord(E, 1, on, d) = d
      BY <3>1, WordOfSilence
    <3>3. Readable(E, on)
      BY <2>1, <2>2, <3>1 DEF Readable
    <3> QED
      BY <1>2, <2>1, <2>4, <2>6, <3>2, <3>3 DEF Word, Legible
  <2> QED
    BY <2>5, <2>6
<1> QED
  BY <1>1, <1>2

LEMMA ReadOn ==
  ASSUME NEW S, NEW E, NEW F, NEW on, NEW d, Legible(S, E, on), Legible(S, F, on)
  PROVE  /\ Legible(S, E \o F, on)
         /\ Word(E \o F, on, d) = Word(F, on, Word(E, on, d))
         /\ SaysAgain(E \o F, on, d) <=> (SaysAgain(E, on, d) \/ SaysAgain(F, on, Word(E, on, d)))
<1> DEFINE G == E \o F
           e == Len(E)
           w == Word(E, on, d)
<1>0. E \in Seq(S) /\ F \in Seq(S) /\ Readable(E, on) /\ Readable(F, on)
  BY DEF Legible
<1>1. /\ G \in Seq(S) /\ e \in Nat /\ Len(F) \in Nat /\ Len(G) = e + Len(F)
      /\ \A i \in 1..e : G[i] = E[i]
      /\ \A i \in 1..Len(F) : G[e + i] = F[i]
  <2>1. G \in Seq(S) /\ e \in Nat /\ Len(F) \in Nat /\ Len(G) = e + Len(F)
    BY <1>0, ConcatProperties
  <2>2. ASSUME NEW i \in 1..e PROVE G[i] = E[i]
    BY <1>0, <2>1, <2>2, ConcatProperties
  <2>3. ASSUME NEW i \in 1..Len(F) PROVE G[e + i] = F[i]
    <3>1. e + i \in 1..(Len(E) + Len(F)) /\ ~(e + i <= Len(E)) /\ (e + i) - Len(E) = i
      BY <2>1, <2>3
    <3> QED
      BY <1>0, <3>1, ConcatProperties
  <2> QED
    BY <2>1, <2>2, <2>3
<1> HIDE DEF G, e, w
<1>2. LastWord(E, e, on, d) = w
  BY DEF Word, e, w
\* In the first part a reader of both is a reader of that part.
<1>3. ASSUME NEW n \in 0..e
      PROVE  /\ Silent(G, n, on) \/ \E m \in 1..n : SpeaksLastAt(G, n, on, m)
             /\ LastWord(G, n, on, d) = LastWord(E, n, on, d)
  <2>1. CASE Silent(E, n, on)
    <3>1. Silent(G, n, on)
      BY <1>1, <1>3, <2>1 DEF Silent
    <3> QED
      BY <2>1, <3>1, WordOfSilence
  <2>2. ASSUME NEW m \in 1..n, SpeaksLastAt(E, n, on, m)
        PROVE  SpeaksLastAt(G, n, on, m) /\ LastWord(G, n, on, d) = LastWord(E, n, on, d)
    <3>1. SpeaksLastAt(G, n, on, m)
      <4>1. m \in 1..e /\ \A j \in 1..n : j \in 1..e
        BY <1>1, <1>3
      <4>2. G[m].on = on /\ \A j \in 1..n : G[j].on = on => j <= m
        BY <1>1, <2>2, <4>1 DEF SpeaksLastAt
      <4> QED
        BY <4>2 DEF SpeaksLastAt
    <3>2. LastWord(G, n, on, d) = G[m].is /\ LastWord(E, n, on, d) = E[m].is
      BY <1>1, <1>3, <2>2, <3>1, WordOfLast
    <3> QED
      BY <1>1, <1>3, <3>1, <3>2
  <2> QED
    BY <1>0, <1>2, <1>3, <2>1, <2>2 DEF Readable, e
\* In the second part he is a reader of it who thought w.
<1>4. ASSUME NEW n \in 0..Len(F)
      PROVE  /\ Silent(G, e + n, on) \/ \E m \in 1..(e + n) : SpeaksLastAt(G, e + n, on, m)
             /\ LastWord(G, e + n, on, d) = LastWord(F, n, on, w)
  <2>0. n \in Nat /\ e + n \in Nat /\ e + n <= Len(G)
    BY <1>1, <1>4
  <2>a. \A j \in 1..(e + n) : j \in 1..e \/ (j - e \in 1..n /\ G[j] = F[j - e])
    <3> SUFFICES ASSUME NEW j \in 1..(e + n), j \notin 1..e PROVE j - e \in 1..n /\ G[j] = F[j - e]
      OBVIOUS
    <3>1. j - e \in 1..n /\ j - e \in 1..Len(F) /\ e + (j - e) = j
      BY <1>1, <1>4
    <3> QED
      BY <1>1, <3>1
  <2>1. CASE Silent(F, n, on)
    <3>1. LastWord(F, n, on, w) = w
      BY <2>1, WordOfSilence
    <3>2. CASE Silent(E, e, on)
      <4>1. Silent(G, e + n, on)
        BY <1>1, <2>1, <3>2, <2>a DEF Silent
      <4>2. LastWord(E, e, on, d) = d /\ LastWord(G, e + n, on, d) = d
        BY <3>2, <4>1, WordOfSilence
      <4> QED
        BY <1>2, <3>1, <4>1, <4>2
    <3>3. ASSUME NEW m \in 1..e, SpeaksLastAt(E, e, on, m)
          PROVE  SpeaksLastAt(G, e + n, on, m) /\ LastWord(G, e + n, on, d) = LastWord(F, n, on, w)
      <4>1. SpeaksLastAt(G, e + n, on, m)
        <5>1. m \in 1..(e + n) /\ G[m].on = on
          BY <1>1, <2>0, <3>3 DEF SpeaksLastAt
        <5>2. ASSUME NEW j \in 1..(e + n), G[j].on = on PROVE j <= m
          <6>1. j \in 1..e
            BY <2>1, <2>a, <5>2 DEF Silent
          <6> QED
            BY <1>1, <3>3, <5>2, <6>1 DEF SpeaksLastAt
        <5> QED
          BY <5>1, <5>2 DEF SpeaksLastAt
      <4>2. LastWord(G, e + n, on, d) = G[m].is /\ LastWord(E, e, on, d) = E[m].is
        BY <1>1, <2>0, <3>3, <4>1, WordOfLast
      <4> QED
        BY <1>1, <1>2, <3>1, <3>3, <4>1, <4>2
    <3>4. Silent(E, e, on) \/ \E m \in 1..e : SpeaksLastAt(E, e, on, m)
      BY <1>0, <1>1, <1>2 DEF Readable, e
    <3>5. \A m \in 1..e : m \in 1..(e + n)
      BY <1>1, <2>0
    <3> QED
      BY <3>2, <3>3, <3>4, <3>5
  <2>2. ASSUME NEW m \in 1..n, SpeaksLastAt(F, n, on, m)
        PROVE  SpeaksLastAt(G, e + n, on, e + m) /\ LastWord(G, e + n, on, d) = LastWord(F, n, on, w)
    <3>1. G[e + m] = F[m] /\ e + m \in 1..(e + n)
      BY <1>1, <1>4, <2>2
    <3>2. SpeaksLastAt(G, e + n, on, e + m)
      <4>1. ASSUME NEW j \in 1..(e + n), G[j].on = on PROVE j <= e + m
        <5>1. CASE j \in 1..e
          BY <1>1, <5>1
        <5>2. CASE j - e \in 1..n /\ G[j] = F[j - e]
          <6>1. j - e <= m
            BY <2>2, <4>1, <5>2 DEF SpeaksLastAt
          <6> QED
            BY <1>1, <6>1
        <5> QED
          BY <2>a, <5>1, <5>2
      <4>2. G[e + m].on = on
        BY <2>2, <3>1 DEF SpeaksLastAt
      <4> QED
        BY <3>1, <4>1, <4>2 DEF SpeaksLastAt
    <3>3. LastWord(G, e + n, on, d) = G[e + m].is /\ LastWord(F, n, on, w) = F[m].is
      BY <2>0, <2>2, <3>2, WordOfLast
    <3> QED
      BY <3>1, <3>2, <3>3
  <2>3. Silent(F, n, on) \/ \E m \in 1..n : SpeaksLastAt(F, n, on, m)
    BY <1>0, <1>2, <1>4 DEF Readable
  <2>4. \A m \in 1..n : e + m \in 1..(e + n)
    BY <1>1, <2>0
  <2> QED
    BY <2>1, <2>2, <2>3, <2>4
<1>5. Readable(G, on)
  <2> SUFFICES ASSUME NEW n \in 0..Len(G)
               PROVE  Silent(G, n, on) \/ \E m \in 1..n : SpeaksLastAt(G, n, on, m)
    BY DEF Readable
  <2>1. CASE n <= e
    <3>1. n \in 0..e
      BY <1>1, <2>1
    <3> QED
      BY <1>3, <3>1
  <2>2. CASE n > e
    <3>1. n - e \in 0..Len(F) /\ e + (n - e) = n
      BY <1>1, <2>2
    <3> QED
      BY <1>4, <3>1
  <2> QED
    BY <1>1, <2>1, <2>2
<1>6. Word(G, on, d) = Word(F, on, w)
  BY <1>1, <1>4 DEF Word
<1>7. SaysAgain(G, on, d) <=> (SaysAgain(E, on, d) \/ SaysAgain(F, on, w))
  <2>1. ASSUME NEW i \in 1..e
        PROVE  (G[i].on = on /\ G[i].is = LastWord(G, i - 1, on, d))
                 <=> (E[i].on = on /\ E[i].is = LastWord(E, i - 1, on, d))
    <3>1. i - 1 \in 0..e
      BY <1>1, <2>1
    <3> QED
      BY <1>1, <1>3, <2>1, <3>1
  <2>2. ASSUME NEW i \in 1..Len(F)
        PROVE  (G[e + i].on = on /\ G[e + i].is = LastWord(G, (e + i) - 1, on, d))
                 <=> (F[i].on = on /\ F[i].is = LastWord(F, i - 1, on, w))
    <3>1. i - 1 \in 0..Len(F) /\ e + (i - 1) = (e + i) - 1
      BY <1>1, <2>2
    <3>2. LastWord(G, (e + i) - 1, on, d) = LastWord(F, i - 1, on, w)
      BY <1>4, <3>1
    <3> QED
      BY <1>1, <2>2, <3>2
  <2>3. ASSUME SaysAgain(G, on, d) PROVE SaysAgain(E, on, d) \/ SaysAgain(F, on, w)
    <3>1. PICK i \in 1..Len(G) : G[i].on = on /\ G[i].is = LastWord(G, i - 1, on, d)
      BY <2>3 DEF SaysAgain
    <3>2. CASE i <= e
      <4>1. i \in 1..e
        BY <1>1, <3>2
      <4> QED
        BY <2>1, <3>1, <4>1 DEF SaysAgain, e
    <3>3. CASE i > e
      <4>1. i - e \in 1..Len(F) /\ e + (i - e) = i
        BY <1>1, <3>3
      <4>2. F[i - e].on = on /\ F[i - e].is = LastWord(F, (i - e) - 1, on, w)
        BY <2>2, <3>1, <4>1
      <4> QED
        BY <4>1, <4>2 DEF SaysAgain
    <3> QED
      BY <1>1, <3>2, <3>3
  <2>4. ASSUME SaysAgain(E, on, d) PROVE SaysAgain(G, on, d)
    <3>1. PICK i \in 1..e : E[i].on = on /\ E[i].is = LastWord(E, i - 1, on, d)
      BY <2>4 DEF SaysAgain, e
    <3>2. i \in 1..Len(G)
      BY <1>1
    <3> QED
      BY <2>1, <3>1, <3>2 DEF SaysAgain
  <2>5. ASSUME SaysAgain(F, on, w) PROVE SaysAgain(G, on, d)
    <3>1. PICK i \in 1..Len(F) : F[i].on = on /\ F[i].is = LastWord(F, i - 1, on, w)
      BY <2>5 DEF SaysAgain
    <3>2. e + i \in 1..Len(G)
      BY <1>1
    <3> QED
      BY <2>2, <3>1, <3>2 DEF SaysAgain
  <2> QED
    BY <2>3, <2>4, <2>5
<1> QED
  BY <1>1, <1>5, <1>6, <1>7 DEF G, w, Legible

LEMMA ReadThree ==
  ASSUME NEW S, NEW A, NEW B, NEW C, NEW on, NEW d,
         Legible(S, A, on), Legible(S, B, on), Legible(S, C, on)
  PROVE  /\ Legible(S, A \o B \o C, on)
         /\ Word(A \o B \o C, on, d) = Word(C, on, Word(B, on, Word(A, on, d)))
         /\ SaysAgain(A \o B \o C, on, d)
              <=> \/ SaysAgain(A, on, d)
                  \/ SaysAgain(B, on, Word(A, on, d))
                  \/ SaysAgain(C, on, Word(B, on, Word(A, on, d)))
<1> DEFINE E == A \o B
<1>1. /\ Legible(S, E, on)
      /\ Word(E, on, d) = Word(B, on, Word(A, on, d))
      /\ SaysAgain(E, on, d) <=> (SaysAgain(A, on, d) \/ SaysAgain(B, on, Word(A, on, d)))
  BY ReadOn
<1> HIDE DEF E
<1>2. /\ Legible(S, E \o C, on)
      /\ Word(E \o C, on, d) = Word(C, on, Word(E, on, d))
      /\ SaysAgain(E \o C, on, d) <=> (SaysAgain(E, on, d) \/ SaysAgain(C, on, Word(E, on, d)))
  BY <1>1, ReadOn
<1> QED
  BY <1>1, <1>2 DEF E

LEMMA ReadFour ==
  ASSUME NEW S, NEW A, NEW B, NEW C, NEW D, NEW on, NEW d,
         Legible(S, A, on), Legible(S, B, on), Legible(S, C, on), Legible(S, D, on)
  PROVE  /\ Legible(S, A \o B \o C \o D, on)
         /\ Word(A \o B \o C \o D, on, d) = Word(D, on, Word(C, on, Word(B, on, Word(A, on, d))))
         /\ SaysAgain(A \o B \o C \o D, on, d)
              <=> \/ SaysAgain(A, on, d)
                  \/ SaysAgain(B, on, Word(A, on, d))
                  \/ SaysAgain(C, on, Word(B, on, Word(A, on, d)))
                  \/ SaysAgain(D, on, Word(C, on, Word(B, on, Word(A, on, d))))
<1> DEFINE E == A \o B \o C
<1>1. /\ Legible(S, E, on)
      /\ Word(E, on, d) = Word(C, on, Word(B, on, Word(A, on, d)))
      /\ SaysAgain(E, on, d) <=> \/ SaysAgain(A, on, d)
                                 \/ SaysAgain(B, on, Word(A, on, d))
                                 \/ SaysAgain(C, on, Word(B, on, Word(A, on, d)))
  BY ReadThree
<1> HIDE DEF E
<1>2. /\ Legible(S, E \o D, on)
      /\ Word(E \o D, on, d) = Word(D, on, Word(E, on, d))
      /\ SaysAgain(E \o D, on, d) <=> (SaysAgain(E, on, d) \/ SaysAgain(D, on, Word(E, on, d)))
  BY <1>1, ReadOn
<1> QED
  BY <1>1, <1>2 DEF E

\* What one pass may say.
Sayable(s, n, c) ==
  [on : Things,
   is : {"yes", "no", "up", "down", "refused", "adopted", "accepted", "reacquire",
         s.station, n.kiss, n.up, c.serving, Served(c.stratum), Coasting, Unserved}]

LEMMA ReadReady ==
  ASSUME NEW st, NEW s0, NEW x, NEW S, [on |-> x, is |-> "yes"] \in S, [on |-> x, is |-> "no"] \in S,
         NEW on, NEW d
  PROVE  /\ Legible(S, ReadyEvents(st, s0, x), on)
         /\ Word(ReadyEvents(st, s0, x), on, d)
              = IF on # x THEN d
                ELSE IF s0.ready /\ ~st.ready THEN "yes"
                ELSE IF ~s0.ready /\ st.ready /\ s0.active THEN "no" ELSE d
         /\ SaysAgain(ReadyEvents(st, s0, x), on, d)
              <=> /\ on = x
                  /\ \/ s0.ready /\ ~st.ready /\ d = "yes"
                     \/ ~s0.ready /\ st.ready /\ s0.active /\ d = "no"
<1> DEFINE E == When(s0.ready /\ ~st.ready, Event(x, "yes"))
           F == When(~s0.ready /\ st.ready /\ s0.active, Event(x, "no"))
<1>1. /\ ReadyEvents(st, s0, x) = E \o F
      /\ MaySay(S, E, x, "yes") /\ MaySay(S, F, x, "no")
      /\ E # << >> <=> s0.ready /\ ~st.ready
      /\ F # << >> <=> ~s0.ready /\ st.ready /\ s0.active
  BY DEF ReadyEvents, When, Event, MaySay
<1> HIDE DEF E, F
<1>2. \A v : /\ Legible(S, E, on)
             /\ Word(E, on, v) = IF E # << >> /\ x = on THEN "yes" ELSE v
             /\ SaysAgain(E, on, v) <=> (E # << >> /\ x = on /\ "yes" = v)
  <2>1. MaySay(S, E, x, "yes")
    BY <1>1
  <2> QED
    BY <2>1, ReadOneEvent
<1>3. \A v : /\ Legible(S, F, on)
             /\ Word(F, on, v) = IF F # << >> /\ x = on THEN "no" ELSE v
             /\ SaysAgain(F, on, v) <=> (F # << >> /\ x = on /\ "no" = v)
  <2>1. MaySay(S, F, x, "no")
    BY <1>1
  <2> QED
    BY <2>1, ReadOneEvent
<1>4. /\ Legible(S, E \o F, on)
      /\ Word(E \o F, on, d) = Word(F, on, Word(E, on, d))
      /\ SaysAgain(E \o F, on, d) <=> (SaysAgain(E, on, d) \/ SaysAgain(F, on, Word(E, on, d)))
  BY <1>2, <1>3, ReadOn
<1> QED
  BY <1>1, <1>2, <1>3, <1>4

LEMMA LinkRead ==
  ASSUME NEW st, NEW s, NEW n, NEW c, NEW on, NEW d
  PROVE  /\ Legible(Sayable(s, n, c), LinkEvents(st, s), on)
         /\ Word(LinkEvents(st, s), on, d)
              = IF on # "link" THEN d
              ELSE IF LinkLost(st, s) \/ LinkFails(st, s) THEN "down"
              ELSE IF LinkUp(st, s) THEN "up" ELSE d
         /\ SaysAgain(LinkEvents(st, s), on, d)
              <=> /\ on = "link"
                  /\ \/ LinkUp(st, s) /\ d = "up"
                     \/ /\ LinkLost(st, s) \/ LinkFails(st, s)
                        /\ ~LinkUp(st, s) /\ d = "down"
<1> DEFINE S == Sayable(s, n, c)
           U == When(LinkUp(st, s), Event("link", "up"))
           L == When((LinkLost(st, s) \/ LinkFails(st, s)), Event("link", "down"))
<1>1. LinkEvents(st, s) = U \o L
  BY DEF LinkEvents
<1>2. /\ MaySay(S, U, "link", "up") /\ (U # << >> <=> LinkUp(st, s))
      /\ MaySay(S, L, "link", "down") /\ (L # << >> <=> (LinkLost(st, s) \/ LinkFails(st, s)))
  BY DEF When, Event, MaySay, Sayable, Things
<1> HIDE DEF S, U, L
<1>3. \A w : /\ Legible(S, U, on)
             /\ Word(U, on, w) = IF U # << >> /\ "link" = on THEN "up" ELSE w
             /\ SaysAgain(U, on, w) <=> (U # << >> /\ "link" = on /\ "up" = w)
  <2>1. MaySay(S, U, "link", "up")
    BY <1>2
  <2> QED
    BY <2>1, ReadOneEvent
<1>4. \A w : /\ Legible(S, L, on)
             /\ Word(L, on, w) = IF L # << >> /\ "link" = on THEN "down" ELSE w
             /\ SaysAgain(L, on, w) <=> (L # << >> /\ "link" = on /\ "down" = w)
  <2>1. MaySay(S, L, "link", "down")
    BY <1>2
  <2> QED
    BY <2>1, ReadOneEvent
<1>5. /\ Legible(S, U \o L, on)
      /\ Word(U \o L, on, d) = Word(L, on, Word(U, on, d))
      /\ SaysAgain(U \o L, on, d)
           <=> \/ SaysAgain(U, on, d)
               \/ SaysAgain(L, on, Word(U, on, d))
  BY <1>3, <1>4, ReadOn
<1> QED
  BY <1>1, <1>2, <1>3, <1>4, <1>5 DEF S

LEMMA TimingRead ==
  ASSUME NEW st, NEW s, NEW n, NEW c, NEW on, NEW d
  PROVE  /\ Legible(Sayable(s, n, c), TimingEvents(st, s), on)
         /\ on = "station" => Word(TimingEvents(st, s), on, d)
              = IF s.station # st.station /\ s.station # "unknown" THEN s.station ELSE d
         /\ on = "time" => Word(TimingEvents(st, s), on, d)
              = IF s.adoptions > st.adoptions THEN "adopted"
                ELSE IF s.rejecting /\ ~st.rejecting THEN "refused" ELSE d
         /\ on = "held" => Word(TimingEvents(st, s), on, d)
              = IF s.held # st.held THEN Said(s.held) ELSE d
         /\ on \notin {"station", "time", "held"} => Word(TimingEvents(st, s), on, d) = d
         /\ on # "time" /\ SaysAgain(TimingEvents(st, s), on, d)
              => \/ on = "station" /\ s.station # st.station /\ s.station # "unknown" /\ d = s.station
                 \/ on = "held" /\ s.held # st.held /\ d = Said(s.held)
<1> DEFINE S == Sayable(s, n, c)
           A == When((s.station # st.station /\ s.station # "unknown"), Event("station", s.station))
           B == When((s.rejecting /\ ~st.rejecting), Event("time", "refused"))
           C == When(s.adoptions > st.adoptions, Event("time", "adopted"))
           D == When(s.held # st.held, Event("held", Said(s.held)))
<1>1. TimingEvents(st, s) = A \o B \o C \o D
  BY DEF TimingEvents
<1>2. /\ MaySay(S, A, "station", s.station) /\ (A # << >> <=> (s.station # st.station /\ s.station # "unknown"))
      /\ MaySay(S, B, "time", "refused") /\ (B # << >> <=> (s.rejecting /\ ~st.rejecting))
      /\ MaySay(S, C, "time", "adopted") /\ (C # << >> <=> s.adoptions > st.adoptions)
      /\ MaySay(S, D, "held", Said(s.held)) /\ (D # << >> <=> s.held # st.held)
  BY DEF When, Event, MaySay, Sayable, Things, Said
<1> HIDE DEF S, A, B, C, D
<1>3. \A w : /\ Legible(S, A, on)
             /\ Word(A, on, w) = IF A # << >> /\ "station" = on THEN s.station ELSE w
             /\ SaysAgain(A, on, w) <=> (A # << >> /\ "station" = on /\ s.station = w)
  <2>1. MaySay(S, A, "station", s.station)
    BY <1>2
  <2> QED
    BY <2>1, ReadOneEvent
<1>4. \A w : /\ Legible(S, B, on)
             /\ Word(B, on, w) = IF B # << >> /\ "time" = on THEN "refused" ELSE w
             /\ SaysAgain(B, on, w) <=> (B # << >> /\ "time" = on /\ "refused" = w)
  <2>1. MaySay(S, B, "time", "refused")
    BY <1>2
  <2> QED
    BY <2>1, ReadOneEvent
<1>5. \A w : /\ Legible(S, C, on)
             /\ Word(C, on, w) = IF C # << >> /\ "time" = on THEN "adopted" ELSE w
             /\ SaysAgain(C, on, w) <=> (C # << >> /\ "time" = on /\ "adopted" = w)
  <2>1. MaySay(S, C, "time", "adopted")
    BY <1>2
  <2> QED
    BY <2>1, ReadOneEvent
<1>6. \A w : /\ Legible(S, D, on)
             /\ Word(D, on, w) = IF D # << >> /\ "held" = on THEN Said(s.held) ELSE w
             /\ SaysAgain(D, on, w) <=> (D # << >> /\ "held" = on /\ Said(s.held) = w)
  <2>1. MaySay(S, D, "held", Said(s.held))
    BY <1>2
  <2> QED
    BY <2>1, ReadOneEvent
<1>7. /\ Legible(S, A \o B \o C \o D, on)
      /\ Word(A \o B \o C \o D, on, d) = Word(D, on, Word(C, on, Word(B, on, Word(A, on, d))))
      /\ SaysAgain(A \o B \o C \o D, on, d)
           <=> \/ SaysAgain(A, on, d)
               \/ SaysAgain(B, on, Word(A, on, d))
               \/ SaysAgain(C, on, Word(B, on, Word(A, on, d)))
               \/ SaysAgain(D, on, Word(C, on, Word(B, on, Word(A, on, d))))
  BY <1>3, <1>4, <1>5, <1>6, ReadFour
<1> DEFINE G == TimingEvents(st, s)
<1> HIDE DEF G
<1>8. /\ Legible(S, G, on)
      /\ Word(G, on, d) = Word(D, on, Word(C, on, Word(B, on, Word(A, on, d))))
  BY <1>1, <1>7 DEF G
<1>9. SaysAgain(G, on, d)
           <=> \/ SaysAgain(A, on, d)
               \/ SaysAgain(B, on, Word(A, on, d))
               \/ SaysAgain(C, on, Word(B, on, Word(A, on, d)))
               \/ SaysAgain(D, on, Word(C, on, Word(B, on, Word(A, on, d))))
  BY <1>1, <1>7 DEF G
<1>10. on = "station" => Word(G, on, d)
        = IF s.station # st.station /\ s.station # "unknown" THEN s.station ELSE d
  BY <1>2, <1>8, <1>3, <1>4, <1>5, <1>6
<1>11. on = "time" => Word(G, on, d)
        = IF s.adoptions > st.adoptions THEN "adopted"
          ELSE IF s.rejecting /\ ~st.rejecting THEN "refused" ELSE d
  BY <1>2, <1>8, <1>3, <1>4, <1>5, <1>6
<1>12. on = "held" => Word(G, on, d)
        = IF s.held # st.held THEN Said(s.held) ELSE d
  BY <1>2, <1>8, <1>3, <1>4, <1>5, <1>6
<1>13. on \notin {"station", "time", "held"} => Word(G, on, d) = d
  BY <1>2, <1>8, <1>3, <1>4, <1>5, <1>6
<1>14. on # "time" /\ SaysAgain(G, on, d)
        => \/ on = "station" /\ s.station # st.station /\ s.station # "unknown" /\ d = s.station
           \/ on = "held" /\ s.held # st.held /\ d = Said(s.held)
  BY <1>2, <1>9, <1>3, <1>4, <1>5, <1>6
<1> QED
  BY <1>8, <1>10, <1>11, <1>12, <1>13, <1>14 DEF S, G

LEMMA AgreementRead ==
  ASSUME NEW st, NEW v, NEW s, NEW n, NEW c, NEW on, NEW d
  PROVE  /\ Legible(Sayable(s, n, c), AgreementEvents(st, v), on)
         /\ on # "agreement" => Word(AgreementEvents(st, v), on, d) = d /\ ~SaysAgain(AgreementEvents(st, v), on, d)
         /\ on = "agreement" => Word(AgreementEvents(st, v), on, d)
              = IF v.refused /\ ~st.refused THEN "refused"
                ELSE IF ~v.refused /\ v.judged /\ st.refused THEN "accepted" ELSE d
         /\ on = "agreement" /\ SaysAgain(AgreementEvents(st, v), on, d)
              => \/ v.refused /\ ~st.refused /\ d = "refused"
                 \/ ~v.refused /\ v.judged /\ st.refused /\ d = "accepted"
<1> DEFINE S == Sayable(s, n, c)
           A == When((v.refused /\ ~st.refused), Event("agreement", "refused"))
           B == When((~v.refused /\ v.judged /\ st.refused), Event("agreement", "accepted"))
<1>1. AgreementEvents(st, v) = A \o B
  BY DEF AgreementEvents
<1>2. /\ MaySay(S, A, "agreement", "refused") /\ (A # << >> <=> (v.refused /\ ~st.refused))
      /\ MaySay(S, B, "agreement", "accepted") /\ (B # << >> <=> (~v.refused /\ v.judged /\ st.refused))
  BY DEF When, Event, MaySay, Sayable, Things
<1> HIDE DEF S, A, B
<1>3. \A w : /\ Legible(S, A, on)
             /\ Word(A, on, w) = IF A # << >> /\ "agreement" = on THEN "refused" ELSE w
             /\ SaysAgain(A, on, w) <=> (A # << >> /\ "agreement" = on /\ "refused" = w)
  <2>1. MaySay(S, A, "agreement", "refused")
    BY <1>2
  <2> QED
    BY <2>1, ReadOneEvent
<1>4. \A w : /\ Legible(S, B, on)
             /\ Word(B, on, w) = IF B # << >> /\ "agreement" = on THEN "accepted" ELSE w
             /\ SaysAgain(B, on, w) <=> (B # << >> /\ "agreement" = on /\ "accepted" = w)
  <2>1. MaySay(S, B, "agreement", "accepted")
    BY <1>2
  <2> QED
    BY <2>1, ReadOneEvent
<1>5. /\ Legible(S, A \o B, on)
      /\ Word(A \o B, on, d) = Word(B, on, Word(A, on, d))
      /\ SaysAgain(A \o B, on, d)
           <=> \/ SaysAgain(A, on, d)
               \/ SaysAgain(B, on, Word(A, on, d))
  BY <1>3, <1>4, ReadOn
<1> QED
  BY <1>1, <1>2, <1>3, <1>4, <1>5 DEF S

LEMMA ClassRead ==
  ASSUME NEW m, NEW c, NEW s, NEW n, NEW on, NEW d
  PROVE  /\ Legible(Sayable(s, n, c), ClassEvents(m, c), on)
         /\ on = "primary" => Word(ClassEvents(m, c), on, d)
              = IF c.primary # m.primary THEN Said(c.primary) ELSE d
         /\ on = "secondary" => Word(ClassEvents(m, c), on, d)
              = IF c.active /\ c.secondary # m.secondary THEN Said(c.secondary) ELSE d
         /\ on = "standby" => Word(ClassEvents(m, c), on, d)
              = IF c.active # m.active /\ ~m.first THEN Said(c.active) ELSE d
         /\ on \notin {"primary", "secondary", "standby"} => Word(ClassEvents(m, c), on, d) = d
         /\ SaysAgain(ClassEvents(m, c), on, d)
              => \/ on = "primary" /\ c.primary # m.primary /\ d = Said(c.primary)
                 \/ on = "secondary" /\ c.active /\ c.secondary # m.secondary /\ d = Said(c.secondary)
                 \/ on = "standby" /\ c.active # m.active /\ d = Said(c.active)
<1> DEFINE S == Sayable(s, n, c)
           A == When(c.primary # m.primary, Event("primary", Said(c.primary)))
           B == When((c.active /\ c.secondary # m.secondary), Event("secondary", Said(c.secondary)))
           C == When((c.active # m.active /\ ~m.first), Event("standby", Said(c.active)))
<1>1. ClassEvents(m, c) = A \o B \o C
  BY DEF ClassEvents
<1>2. /\ MaySay(S, A, "primary", Said(c.primary)) /\ (A # << >> <=> c.primary # m.primary)
      /\ MaySay(S, B, "secondary", Said(c.secondary)) /\ (B # << >> <=> (c.active /\ c.secondary # m.secondary))
      /\ MaySay(S, C, "standby", Said(c.active)) /\ (C # << >> <=> (c.active # m.active /\ ~m.first))
  BY DEF When, Event, MaySay, Sayable, Things, Said
<1> HIDE DEF S, A, B, C
<1>3. \A w : /\ Legible(S, A, on)
             /\ Word(A, on, w) = IF A # << >> /\ "primary" = on THEN Said(c.primary) ELSE w
             /\ SaysAgain(A, on, w) <=> (A # << >> /\ "primary" = on /\ Said(c.primary) = w)
  <2>1. MaySay(S, A, "primary", Said(c.primary))
    BY <1>2
  <2> QED
    BY <2>1, ReadOneEvent
<1>4. \A w : /\ Legible(S, B, on)
             /\ Word(B, on, w) = IF B # << >> /\ "secondary" = on THEN Said(c.secondary) ELSE w
             /\ SaysAgain(B, on, w) <=> (B # << >> /\ "secondary" = on /\ Said(c.secondary) = w)
  <2>1. MaySay(S, B, "secondary", Said(c.secondary))
    BY <1>2
  <2> QED
    BY <2>1, ReadOneEvent
<1>5. \A w : /\ Legible(S, C, on)
             /\ Word(C, on, w) = IF C # << >> /\ "standby" = on THEN Said(c.active) ELSE w
             /\ SaysAgain(C, on, w) <=> (C # << >> /\ "standby" = on /\ Said(c.active) = w)
  <2>1. MaySay(S, C, "standby", Said(c.active))
    BY <1>2
  <2> QED
    BY <2>1, ReadOneEvent
<1>6. /\ Legible(S, A \o B \o C, on)
      /\ Word(A \o B \o C, on, d) = Word(C, on, Word(B, on, Word(A, on, d)))
      /\ SaysAgain(A \o B \o C, on, d)
           <=> \/ SaysAgain(A, on, d)
               \/ SaysAgain(B, on, Word(A, on, d))
               \/ SaysAgain(C, on, Word(B, on, Word(A, on, d)))
  BY <1>3, <1>4, <1>5, ReadThree
<1> DEFINE G == ClassEvents(m, c)
<1> HIDE DEF G
<1>7. /\ Legible(S, G, on)
      /\ Word(G, on, d) = Word(C, on, Word(B, on, Word(A, on, d)))
  BY <1>1, <1>6 DEF G
<1>8. SaysAgain(G, on, d)
           <=> \/ SaysAgain(A, on, d)
               \/ SaysAgain(B, on, Word(A, on, d))
               \/ SaysAgain(C, on, Word(B, on, Word(A, on, d)))
  BY <1>1, <1>6 DEF G
<1>9. on = "primary" => Word(G, on, d)
        = IF c.primary # m.primary THEN Said(c.primary) ELSE d
  BY <1>2, <1>7, <1>3, <1>4, <1>5
<1>10. on = "secondary" => Word(G, on, d)
        = IF c.active /\ c.secondary # m.secondary THEN Said(c.secondary) ELSE d
  BY <1>2, <1>7, <1>3, <1>4, <1>5
<1>11. on = "standby" => Word(G, on, d)
        = IF c.active # m.active /\ ~m.first THEN Said(c.active) ELSE d
  BY <1>2, <1>7, <1>3, <1>4, <1>5
<1>12. on \notin {"primary", "secondary", "standby"} => Word(G, on, d) = d
  BY <1>2, <1>7, <1>3, <1>4, <1>5
<1>13. SaysAgain(G, on, d)
        => \/ on = "primary" /\ c.primary # m.primary /\ d = Said(c.primary)
           \/ on = "secondary" /\ c.active /\ c.secondary # m.secondary /\ d = Said(c.secondary)
           \/ on = "standby" /\ c.active # m.active /\ d = Said(c.active)
  BY <1>2, <1>8, <1>3, <1>4, <1>5
<1> QED
  BY <1>7, <1>9, <1>10, <1>11, <1>12, <1>13 DEF S, G

LEMMA SideRead ==
  ASSUME NEW m, NEW c, NEW s, NEW n, NEW on, NEW d
  PROVE  /\ Legible(Sayable(s, n, c), SideEvents(m, c), on)
         /\ on = "side" => Word(SideEvents(m, c), on, d)
              = IF OneSide(c) /\ c.serving # m.side /\ (m.side # "none" \/ c.serving = "secondary")
                THEN c.serving ELSE d
         /\ on # "side" => Word(SideEvents(m, c), on, d) = d
         /\ SaysAgain(SideEvents(m, c), on, d) => on = "side" /\ OneSide(c) /\ c.serving # m.side /\ d = c.serving
<1> DEFINE S == Sayable(s, n, c)
           A == When((OneSide(c) /\ c.serving # m.side /\ (m.side # "none" \/ c.serving = "secondary")), Event("side", c.serving))
<1>1. SideEvents(m, c) = A
  BY DEF SideEvents
<1>2. MaySay(S, A, "side", c.serving) /\ (A # << >> <=> (OneSide(c) /\ c.serving # m.side /\ (m.side # "none" \/ c.serving = "secondary")))
  BY DEF When, Event, MaySay, Sayable, Things
<1> HIDE DEF S, A
<1>3. \A w : /\ Legible(S, A, on)
             /\ Word(A, on, w) = IF A # << >> /\ "side" = on THEN c.serving ELSE w
             /\ SaysAgain(A, on, w) <=> (A # << >> /\ "side" = on /\ c.serving = w)
  <2>1. MaySay(S, A, "side", c.serving)
    BY <1>2
  <2> QED
    BY <2>1, ReadOneEvent
<1> QED
  BY <1>1, <1>2, <1>3 DEF S

LEMMA ServedRead ==
  ASSUME NEW m, NEW c, NEW s, NEW n, NEW on, NEW d
  PROVE  /\ Legible(Sayable(s, n, c), ServedEvents(m, c), on)
         /\ on = "leap" => Word(ServedEvents(m, c), on, d)
              = IF c.leap # m.leap THEN Said(c.leap) ELSE d
         /\ on = "served" => Word(ServedEvents(m, c), on, d)
              = IF Live(c) /\ (~Live(m) \/ c.stratum # m.stratum) THEN Served(c.stratum)
                ELSE IF ~c.sync /\ m.sync THEN Unserved
                ELSE IF c.serving = "coasting" /\ m.serving \notin {"coasting", "none"} THEN Coasting ELSE d
         /\ on \notin {"served", "leap"} => Word(ServedEvents(m, c), on, d) = d /\ ~SaysAgain(ServedEvents(m, c), on, d)
         /\ on # "served" /\ SaysAgain(ServedEvents(m, c), on, d) => on = "leap" /\ c.leap # m.leap /\ d = Said(c.leap)
         /\ on = "served" /\ SaysAgain(ServedEvents(m, c), on, d)
              => \/ c.serving = "coasting" /\ m.serving \notin {"coasting", "none"} /\ d = Coasting
                 \/ /\ ~c.sync /\ m.sync
                    /\ Unserved = IF c.serving = "coasting" /\ m.serving \notin {"coasting", "none"}
                                  THEN Coasting ELSE d
                 \/ /\ Live(c) /\ (~Live(m) \/ c.stratum # m.stratum)
                    /\ Served(c.stratum) = IF ~c.sync /\ m.sync THEN Unserved
                                           ELSE IF c.serving = "coasting" /\ m.serving \notin {"coasting", "none"}
                                           THEN Coasting ELSE d
<1> DEFINE S == Sayable(s, n, c)
           A == When((c.serving = "coasting" /\ m.serving \notin {"coasting", "none"}), Event("served", Coasting))
           B == When((~c.sync /\ m.sync), Event("served", Unserved))
           C == When((Live(c) /\ (~Live(m) \/ c.stratum # m.stratum)), Event("served", Served(c.stratum)))
           D == When(c.leap # m.leap, Event("leap", Said(c.leap)))
<1>1. ServedEvents(m, c) = A \o B \o C \o D
  BY DEF ServedEvents
<1>2. /\ MaySay(S, A, "served", Coasting) /\ (A # << >> <=> (c.serving = "coasting" /\ m.serving \notin {"coasting", "none"}))
      /\ MaySay(S, B, "served", Unserved) /\ (B # << >> <=> (~c.sync /\ m.sync))
      /\ MaySay(S, C, "served", Served(c.stratum)) /\ (C # << >> <=> (Live(c) /\ (~Live(m) \/ c.stratum # m.stratum)))
      /\ MaySay(S, D, "leap", Said(c.leap)) /\ (D # << >> <=> c.leap # m.leap)
  BY DEF When, Event, MaySay, Sayable, Things, Said
<1> HIDE DEF S, A, B, C, D
<1>3. \A w : /\ Legible(S, A, on)
             /\ Word(A, on, w) = IF A # << >> /\ "served" = on THEN Coasting ELSE w
             /\ SaysAgain(A, on, w) <=> (A # << >> /\ "served" = on /\ Coasting = w)
  <2>1. MaySay(S, A, "served", Coasting)
    BY <1>2
  <2> QED
    BY <2>1, ReadOneEvent
<1>4. \A w : /\ Legible(S, B, on)
             /\ Word(B, on, w) = IF B # << >> /\ "served" = on THEN Unserved ELSE w
             /\ SaysAgain(B, on, w) <=> (B # << >> /\ "served" = on /\ Unserved = w)
  <2>1. MaySay(S, B, "served", Unserved)
    BY <1>2
  <2> QED
    BY <2>1, ReadOneEvent
<1>5. \A w : /\ Legible(S, C, on)
             /\ Word(C, on, w) = IF C # << >> /\ "served" = on THEN Served(c.stratum) ELSE w
             /\ SaysAgain(C, on, w) <=> (C # << >> /\ "served" = on /\ Served(c.stratum) = w)
  <2>1. MaySay(S, C, "served", Served(c.stratum))
    BY <1>2
  <2> QED
    BY <2>1, ReadOneEvent
<1>6. \A w : /\ Legible(S, D, on)
             /\ Word(D, on, w) = IF D # << >> /\ "leap" = on THEN Said(c.leap) ELSE w
             /\ SaysAgain(D, on, w) <=> (D # << >> /\ "leap" = on /\ Said(c.leap) = w)
  <2>1. MaySay(S, D, "leap", Said(c.leap))
    BY <1>2
  <2> QED
    BY <2>1, ReadOneEvent
<1>7. /\ Legible(S, A \o B \o C \o D, on)
      /\ Word(A \o B \o C \o D, on, d) = Word(D, on, Word(C, on, Word(B, on, Word(A, on, d))))
      /\ SaysAgain(A \o B \o C \o D, on, d)
           <=> \/ SaysAgain(A, on, d)
               \/ SaysAgain(B, on, Word(A, on, d))
               \/ SaysAgain(C, on, Word(B, on, Word(A, on, d)))
               \/ SaysAgain(D, on, Word(C, on, Word(B, on, Word(A, on, d))))
  BY <1>3, <1>4, <1>5, <1>6, ReadFour
<1> DEFINE G == ServedEvents(m, c)
<1> HIDE DEF G
<1>8. /\ Legible(S, G, on)
      /\ Word(G, on, d) = Word(D, on, Word(C, on, Word(B, on, Word(A, on, d))))
  BY <1>1, <1>7 DEF G
<1>9. SaysAgain(G, on, d)
           <=> \/ SaysAgain(A, on, d)
               \/ SaysAgain(B, on, Word(A, on, d))
               \/ SaysAgain(C, on, Word(B, on, Word(A, on, d)))
               \/ SaysAgain(D, on, Word(C, on, Word(B, on, Word(A, on, d))))
  BY <1>1, <1>7 DEF G
<1>10. on = "leap" => Word(G, on, d)
        = IF c.leap # m.leap THEN Said(c.leap) ELSE d
  BY <1>2, <1>8, <1>3, <1>4, <1>5, <1>6
<1>11. on = "served" => Word(G, on, d)
        = IF Live(c) /\ (~Live(m) \/ c.stratum # m.stratum) THEN Served(c.stratum)
          ELSE IF ~c.sync /\ m.sync THEN Unserved
          ELSE IF c.serving = "coasting" /\ m.serving \notin {"coasting", "none"} THEN Coasting ELSE d
  BY <1>2, <1>8, <1>3, <1>4, <1>5, <1>6
<1>12. on \notin {"served", "leap"} => Word(G, on, d) = d /\ ~SaysAgain(G, on, d)
  BY <1>2, <1>8, <1>9, <1>3, <1>4, <1>5, <1>6
<1>13. on # "served" /\ SaysAgain(G, on, d) => on = "leap" /\ c.leap # m.leap /\ d = Said(c.leap)
  BY <1>2, <1>9, <1>3, <1>4, <1>5, <1>6
<1>14. on = "served" /\ SaysAgain(G, on, d)
        => \/ c.serving = "coasting" /\ m.serving \notin {"coasting", "none"} /\ d = Coasting
           \/ /\ ~c.sync /\ m.sync
              /\ Unserved = IF c.serving = "coasting" /\ m.serving \notin {"coasting", "none"}
                            THEN Coasting ELSE d
           \/ /\ Live(c) /\ (~Live(m) \/ c.stratum # m.stratum)
              /\ Served(c.stratum) = IF ~c.sync /\ m.sync THEN Unserved
                                     ELSE IF c.serving = "coasting" /\ m.serving \notin {"coasting", "none"}
                                     THEN Coasting ELSE d
  BY <1>2, <1>9, <1>3, <1>4, <1>5, <1>6
<1> QED
  BY <1>8, <1>10, <1>11, <1>12, <1>13, <1>14 DEF S, G

RadioThings == {"ready", "link", "station", "time", "held", "agreement"}
PeerThings == {"peer", "kiss", "upstream"}
ClockThings == {"primary", "secondary", "standby", "side", "served", "leap"}

\* What a sequence leaves is what its part on the thing leaves, and it says again no more.
SameWord(G, E, on) ==
  \A d : Word(G, on, d) = Word(E, on, d) /\ (SaysAgain(G, on, d) => SaysAgain(E, on, d))

LEMMA GroupsRead ==
  ASSUME NEW st, NEW s, NEW v, NEW n, NEW m, NEW c, NEW on
  PROVE  /\ Legible(Sayable(s, n, c), ReadyEvents(st, s, "ready"), on)
         /\ on # "ready" => Mute(ReadyEvents(st, s, "ready"), on)
         /\ Legible(Sayable(s, n, c), ReadyEvents(st, n, "peer"), on)
         /\ on # "peer" => Mute(ReadyEvents(st, n, "peer"), on)
         /\ Legible(Sayable(s, n, c), LinkEvents(st, s), on)
         /\ on # "link" => Mute(LinkEvents(st, s), on)
         /\ Legible(Sayable(s, n, c), TimingEvents(st, s), on)
         /\ on \notin {"station", "time", "held"} => Mute(TimingEvents(st, s), on)
         /\ Legible(Sayable(s, n, c), AgreementEvents(st, v), on)
         /\ on # "agreement" => Mute(AgreementEvents(st, v), on)
         /\ Legible(Sayable(s, n, c), ClassEvents(m, c), on)
         /\ on \notin {"primary", "secondary", "standby"} => Mute(ClassEvents(m, c), on)
         /\ Legible(Sayable(s, n, c), SideEvents(m, c), on)
         /\ on # "side" => Mute(SideEvents(m, c), on)
         /\ Legible(Sayable(s, n, c), ServedEvents(m, c), on)
         /\ on \notin {"served", "leap"} => Mute(ServedEvents(m, c), on)
<1> DEFINE S == Sayable(s, n, c)
<1>1. \A x \in {"ready", "peer"} : [on |-> x, is |-> "yes"] \in S /\ [on |-> x, is |-> "no"] \in S
  BY DEF Sayable, Things
<1> HIDE DEF S
<1>2. ASSUME NEW x \in {"ready", "peer"}, NEW s0
      PROVE  Legible(S, ReadyEvents(st, s0, x), on) /\ (on # x => Mute(ReadyEvents(st, s0, x), on))
  <2>1. [on |-> x, is |-> "yes"] \in S /\ [on |-> x, is |-> "no"] \in S
    BY <1>1, <1>2
  <2> DEFINE E == ReadyEvents(st, s0, x)
  <2>2. Legible(S, E, on)
    BY <2>1, ReadReady
  <2>3. ASSUME NEW d, on # x PROVE Word(E, on, d) = d /\ ~SaysAgain(E, on, d)
    BY <2>1, <2>3, ReadReady
  <2> QED
    BY <2>2, <2>3 DEF Mute
<1>3. Legible(S, LinkEvents(st, s), on) /\ (on # "link" => Mute(LinkEvents(st, s), on))
  <2>1. ASSUME NEW d, on # "link" PROVE Word(LinkEvents(st, s), on, d) = d /\ ~SaysAgain(LinkEvents(st, s), on, d)
    BY <2>1, LinkRead
  <2>2. Legible(S, LinkEvents(st, s), on)
    BY LinkRead DEF S
  <2> QED
    BY <2>1, <2>2 DEF Mute
<1>4. /\ Legible(S, TimingEvents(st, s), on)
      /\ on \notin {"station", "time", "held"} => Mute(TimingEvents(st, s), on)
  <2>1. ASSUME NEW d, on \notin {"station", "time", "held"}
        PROVE  Word(TimingEvents(st, s), on, d) = d /\ ~SaysAgain(TimingEvents(st, s), on, d)
    BY <2>1, TimingRead
  <2>2. Legible(S, TimingEvents(st, s), on)
    BY TimingRead DEF S
  <2> QED
    BY <2>1, <2>2 DEF Mute
<1>5. Legible(S, AgreementEvents(st, v), on) /\ (on # "agreement" => Mute(AgreementEvents(st, v), on))
  <2>1. ASSUME NEW d, on # "agreement"
        PROVE  Word(AgreementEvents(st, v), on, d) = d /\ ~SaysAgain(AgreementEvents(st, v), on, d)
    BY <2>1, AgreementRead
  <2>2. Legible(S, AgreementEvents(st, v), on)
    BY AgreementRead DEF S
  <2> QED
    BY <2>1, <2>2 DEF Mute
<1>6. /\ Legible(S, ClassEvents(m, c), on)
      /\ on \notin {"primary", "secondary", "standby"} => Mute(ClassEvents(m, c), on)
  <2>1. ASSUME NEW d, on \notin {"primary", "secondary", "standby"}
        PROVE  Word(ClassEvents(m, c), on, d) = d /\ ~SaysAgain(ClassEvents(m, c), on, d)
    BY <2>1, ClassRead
  <2>2. Legible(S, ClassEvents(m, c), on)
    BY ClassRead DEF S
  <2> QED
    BY <2>1, <2>2 DEF Mute
<1>7. Legible(S, SideEvents(m, c), on) /\ (on # "side" => Mute(SideEvents(m, c), on))
  <2>1. ASSUME NEW d, on # "side" PROVE Word(SideEvents(m, c), on, d) = d /\ ~SaysAgain(SideEvents(m, c), on, d)
    BY <2>1, SideRead
  <2>2. Legible(S, SideEvents(m, c), on)
    BY SideRead DEF S
  <2> QED
    BY <2>1, <2>2 DEF Mute
<1>8. /\ Legible(S, ServedEvents(m, c), on)
      /\ on \notin {"served", "leap"} => Mute(ServedEvents(m, c), on)
  <2>1. ASSUME NEW d, on \notin {"served", "leap"}
        PROVE  Word(ServedEvents(m, c), on, d) = d /\ ~SaysAgain(ServedEvents(m, c), on, d)
    BY <2>1, ServedRead
  <2>2. Legible(S, ServedEvents(m, c), on)
    BY ServedRead DEF S
  <2> QED
    BY <2>1, <2>2 DEF Mute
<1> QED
  BY <1>2, <1>3, <1>4, <1>5, <1>6, <1>7, <1>8 DEF S

LEMMA RadioRead ==
  ASSUME NEW st0, NEW s, NEW v, NEW n, NEW c, NEW on, NEW st, st = FirstSight(st0, s)
  PROVE  /\ Legible(Sayable(s, n, c), RadioEvents(st0, s, v), on)
         /\ on = "ready" => SameWord(RadioEvents(st0, s, v), ReadyEvents(st, s, "ready"), on)
         /\ on = "link" => SameWord(RadioEvents(st0, s, v), LinkEvents(st, s), on)
         /\ on \in {"station", "time", "held"} => SameWord(RadioEvents(st0, s, v), TimingEvents(st, s), on)
         /\ on = "agreement" => SameWord(RadioEvents(st0, s, v), AgreementEvents(st, v), on)
         /\ on \notin RadioThings => Mute(RadioEvents(st0, s, v), on)
<1> DEFINE S == Sayable(s, n, c)
           A == ReadyEvents(st, s, "ready")
           B == LinkEvents(st, s)
           C == TimingEvents(st, s)
           D == AgreementEvents(st, v)
           G == RadioEvents(st0, s, v)
<1>1. G = A \o B \o C \o D
  BY DEF RadioEvents
<1>2. /\ Legible(S, A, on) /\ (on # "ready" => Mute(A, on))
      /\ Legible(S, B, on) /\ (on # "link" => Mute(B, on))
      /\ Legible(S, C, on) /\ (on \notin {"station", "time", "held"} => Mute(C, on))
      /\ Legible(S, D, on) /\ (on # "agreement" => Mute(D, on))
  BY GroupsRead
<1> HIDE DEF S, A, B, C, D, G
<1>3. ASSUME NEW d
      PROVE  /\ Legible(S, G, on)
             /\ Word(G, on, d) = Word(D, on, Word(C, on, Word(B, on, Word(A, on, d))))
             /\ SaysAgain(G, on, d)
                  <=> \/ SaysAgain(A, on, d)
                      \/ SaysAgain(B, on, Word(A, on, d))
                      \/ SaysAgain(C, on, Word(B, on, Word(A, on, d)))
                      \/ SaysAgain(D, on, Word(C, on, Word(B, on, Word(A, on, d))))
  <2>1. Legible(S, A, on) /\ Legible(S, B, on) /\ Legible(S, C, on) /\ Legible(S, D, on)
    BY <1>2
  <2>2. /\ Legible(S, A \o B \o C \o D, on)
        /\ Word(A \o B \o C \o D, on, d) = Word(D, on, Word(C, on, Word(B, on, Word(A, on, d))))
        /\ SaysAgain(A \o B \o C \o D, on, d)
             <=> \/ SaysAgain(A, on, d)
                 \/ SaysAgain(B, on, Word(A, on, d))
                 \/ SaysAgain(C, on, Word(B, on, Word(A, on, d)))
                 \/ SaysAgain(D, on, Word(C, on, Word(B, on, Word(A, on, d))))
    BY <2>1, ReadFour
  <2> QED
    BY <1>1, <2>2
<1>4. /\ on = "ready" => SameWord(G, A, on)
      /\ on = "link" => SameWord(G, B, on)
      /\ on \in {"station", "time", "held"} => SameWord(G, C, on)
      /\ on = "agreement" => SameWord(G, D, on)
      /\ on \notin RadioThings => Mute(G, on)
  BY <1>2, <1>3 DEF RadioThings, SameWord, Mute
<1> QED
  BY <1>3, <1>4 DEF A, B, C, D, G, S

LEMMA PeerRead ==
  ASSUME NEW st0, NEW s, NEW n, NEW c, NEW on, NEW st, st = FirstAnswer(st0, n)
  PROVE  /\ Legible(Sayable(s, n, c), NtpEvents(st0, n), on)
         /\ on = "peer" => SameWord(NtpEvents(st0, n), ReadyEvents(st, n, "peer"), on)
         /\ on = "upstream"
              => \A d : /\ Word(NtpEvents(st0, n), on, d)
                             = IF n.up # "none" /\ st.up # "none" /\ n.up # st.up THEN n.up ELSE d
                        /\ SaysAgain(NtpEvents(st0, n), on, d)
                             => n.up # "none" /\ st.up # "none" /\ n.up # st.up /\ n.up = d
         /\ on \notin PeerThings => Mute(NtpEvents(st0, n), on)
<1> DEFINE S == Sayable(s, n, c)
           A == ReadyEvents(st, n, "peer")
           B == When(n.kiss # "" /\ n.kiss # st.kiss, Event("kiss", n.kiss))
           C == When(n.up # "none" /\ st.up # "none" /\ n.up # st.up, Event("upstream", n.up))
           G == NtpEvents(st0, n)
<1>1. G = A \o B \o C
  BY DEF NtpEvents
<1>2. /\ MaySay(S, B, "kiss", n.kiss) /\ MaySay(S, C, "upstream", n.up)
      /\ C # << >> <=> n.up # "none" /\ st.up # "none" /\ n.up # st.up
  BY DEF When, Event, MaySay, Sayable, Things
<1>3. Legible(S, A, on) /\ (on # "peer" => Mute(A, on))
  BY GroupsRead
<1> HIDE DEF S, B, C
<1>4. Legible(S, B, on) /\ (on # "kiss" => Mute(B, on))
  <2>1. MaySay(S, B, "kiss", n.kiss)
    BY <1>2
  <2>2. \A w : /\ Legible(S, B, on)
               /\ Word(B, on, w) = IF B # << >> /\ "kiss" = on THEN n.kiss ELSE w
               /\ SaysAgain(B, on, w) <=> (B # << >> /\ "kiss" = on /\ n.kiss = w)
    BY <2>1, ReadOneEvent
  <2> QED
    BY <2>2 DEF Mute
<1>5. \A w : /\ Legible(S, C, on)
             /\ Word(C, on, w) = IF C # << >> /\ "upstream" = on THEN n.up ELSE w
             /\ SaysAgain(C, on, w) <=> (C # << >> /\ "upstream" = on /\ n.up = w)
  <2>1. MaySay(S, C, "upstream", n.up)
    BY <1>2
  <2> QED
    BY <2>1, ReadOneEvent
<1> HIDE DEF A, G
<1>6. ASSUME NEW d
      PROVE  /\ Legible(S, G, on)
             /\ Word(G, on, d) = Word(C, on, Word(B, on, Word(A, on, d)))
             /\ SaysAgain(G, on, d)
                  <=> \/ SaysAgain(A, on, d)
                      \/ SaysAgain(B, on, Word(A, on, d))
                      \/ SaysAgain(C, on, Word(B, on, Word(A, on, d)))
  <2>1. Legible(S, A, on) /\ Legible(S, B, on) /\ Legible(S, C, on)
    BY <1>3, <1>4, <1>5
  <2>2. /\ Legible(S, A \o B \o C, on)
        /\ Word(A \o B \o C, on, d) = Word(C, on, Word(B, on, Word(A, on, d)))
        /\ SaysAgain(A \o B \o C, on, d)
             <=> \/ SaysAgain(A, on, d)
                 \/ SaysAgain(B, on, Word(A, on, d))
                 \/ SaysAgain(C, on, Word(B, on, Word(A, on, d)))
    BY <2>1, ReadThree
  <2> QED
    BY <1>1, <2>2
<1>7. on = "peer" => SameWord(G, A, on)
  BY <1>4, <1>5, <1>6 DEF SameWord, Mute
<1>8. on = "upstream"
        => \A d : /\ Word(G, on, d) = IF C # << >> THEN n.up ELSE d
                  /\ SaysAgain(G, on, d) => C # << >> /\ n.up = d
  BY <1>3, <1>4, <1>5, <1>6 DEF Mute
<1>9. on \notin PeerThings => Mute(G, on)
  BY <1>3, <1>4, <1>5, <1>6 DEF PeerThings, Mute
<1> QED
  BY <1>2, <1>6, <1>7, <1>8, <1>9 DEF A, G, S

LEMMA ClockRead ==
  ASSUME NEW m, NEW c, NEW s, NEW n, NEW on
  PROVE  /\ Legible(Sayable(s, n, c), ClockEvents(m, c), on)
         /\ on \in {"primary", "secondary", "standby"} => SameWord(ClockEvents(m, c), ClassEvents(m, c), on)
         /\ on = "side" => SameWord(ClockEvents(m, c), SideEvents(m, c), on)
         /\ on \in {"served", "leap"} => SameWord(ClockEvents(m, c), ServedEvents(m, c), on)
         /\ on \notin ClockThings => Mute(ClockEvents(m, c), on)
<1> DEFINE S == Sayable(s, n, c)
           A == ClassEvents(m, c)
           B == SideEvents(m, c)
           C == ServedEvents(m, c)
           G == ClockEvents(m, c)
<1>1. G = A \o B \o C
  BY DEF ClockEvents
<1>2. /\ Legible(S, A, on) /\ (on \notin {"primary", "secondary", "standby"} => Mute(A, on))
      /\ Legible(S, B, on) /\ (on # "side" => Mute(B, on))
      /\ Legible(S, C, on) /\ (on \notin {"served", "leap"} => Mute(C, on))
  BY GroupsRead
<1> HIDE DEF S, A, B, C, G
<1>3. ASSUME NEW d
      PROVE  /\ Legible(S, G, on)
             /\ Word(G, on, d) = Word(C, on, Word(B, on, Word(A, on, d)))
             /\ SaysAgain(G, on, d)
                  <=> \/ SaysAgain(A, on, d)
                      \/ SaysAgain(B, on, Word(A, on, d))
                      \/ SaysAgain(C, on, Word(B, on, Word(A, on, d)))
  <2>1. Legible(S, A, on) /\ Legible(S, B, on) /\ Legible(S, C, on)
    BY <1>2
  <2>2. /\ Legible(S, A \o B \o C, on)
        /\ Word(A \o B \o C, on, d) = Word(C, on, Word(B, on, Word(A, on, d)))
        /\ SaysAgain(A \o B \o C, on, d)
             <=> \/ SaysAgain(A, on, d)
                 \/ SaysAgain(B, on, Word(A, on, d))
                 \/ SaysAgain(C, on, Word(B, on, Word(A, on, d)))
    BY <2>1, ReadThree
  <2> QED
    BY <1>1, <2>2
<1>4. /\ on \in {"primary", "secondary", "standby"} => SameWord(G, A, on)
      /\ on = "side" => SameWord(G, B, on)
      /\ on \in {"served", "leap"} => SameWord(G, C, on)
      /\ on \notin ClockThings => Mute(G, on)
  BY <1>2, <1>3 DEF ClockThings, SameWord, Mute
<1> QED
  BY <1>3, <1>4 DEF A, B, C, G, S

\* One pass, thing by thing.
LEMMA PassRead ==
  ASSUME NEW s, NEW v, NEW n, NEW c, NEW on
  PROVE  /\ on \in RadioThings \ {"agreement"} => SameWord(PassEvents(s, v, n, c), RadioEvents(rs, s, v), on)
         /\ on = "agreement"
              => \A d : /\ Word(PassEvents(s, v, n, c), on, d)
                             = IF v.reacquire THEN "reacquire" ELSE Word(RadioEvents(rs, s, v), on, d)
                        /\ SaysAgain(PassEvents(s, v, n, c), on, d)
                             => \/ SaysAgain(RadioEvents(rs, s, v), on, d)
                                \/ v.reacquire /\ Word(RadioEvents(rs, s, v), on, d) = "reacquire"
         /\ on \in PeerThings => SameWord(PassEvents(s, v, n, c), NtpEvents(ns, n), on)
         /\ on \in ClockThings => SameWord(PassEvents(s, v, n, c), ClockEvents(mon, c), on)
<1> DEFINE S == Sayable(s, n, c)
           A == RadioEvents(rs, s, v)
           B == NtpEvents(ns, n)
           C == When(v.reacquire, Event("agreement", "reacquire"))
           D == ClockEvents(mon, c)
           G == PassEvents(s, v, n, c)
<1>1. G = A \o B \o C \o D
  BY DEF PassEvents
<1>2. MaySay(S, C, "agreement", "reacquire") /\ (C # << >> <=> v.reacquire)
  BY DEF When, Event, MaySay, Sayable, Things
<1>3. /\ Legible(S, A, on) /\ (on \notin RadioThings => Mute(A, on))
      /\ Legible(S, B, on) /\ (on \notin PeerThings => Mute(B, on))
      /\ Legible(S, D, on) /\ (on \notin ClockThings => Mute(D, on))
  BY RadioRead, PeerRead, ClockRead
<1> HIDE DEF S, A, B, C, D, G
<1>4. \A w : /\ Legible(S, C, on)
             /\ Word(C, on, w) = IF C # << >> /\ "agreement" = on THEN "reacquire" ELSE w
             /\ SaysAgain(C, on, w) <=> (C # << >> /\ "agreement" = on /\ "reacquire" = w)
  <2>1. MaySay(S, C, "agreement", "reacquire")
    BY <1>2
  <2> QED
    BY <2>1, ReadOneEvent
<1>5. ASSUME NEW d
      PROVE  /\ Word(G, on, d) = Word(D, on, Word(C, on, Word(B, on, Word(A, on, d))))
             /\ SaysAgain(G, on, d)
                  <=> \/ SaysAgain(A, on, d)
                      \/ SaysAgain(B, on, Word(A, on, d))
                      \/ SaysAgain(C, on, Word(B, on, Word(A, on, d)))
                      \/ SaysAgain(D, on, Word(C, on, Word(B, on, Word(A, on, d))))
  <2>1. Legible(S, A, on) /\ Legible(S, B, on) /\ Legible(S, C, on) /\ Legible(S, D, on)
    BY <1>3, <1>4
  <2>2. /\ Legible(S, A \o B \o C \o D, on)
        /\ Word(A \o B \o C \o D, on, d) = Word(D, on, Word(C, on, Word(B, on, Word(A, on, d))))
        /\ SaysAgain(A \o B \o C \o D, on, d)
             <=> \/ SaysAgain(A, on, d)
                 \/ SaysAgain(B, on, Word(A, on, d))
                 \/ SaysAgain(C, on, Word(B, on, Word(A, on, d)))
                 \/ SaysAgain(D, on, Word(C, on, Word(B, on, Word(A, on, d))))
    BY <2>1, ReadFour
  <2> QED
    BY <1>1, <2>2
<1>6. on \in RadioThings \ {"agreement"} => SameWord(G, A, on)
  BY <1>3, <1>4, <1>5 DEF RadioThings, PeerThings, ClockThings, SameWord, Mute
<1>7. on = "agreement"
        => \A d : /\ Word(G, on, d) = IF C # << >> THEN "reacquire" ELSE Word(A, on, d)
                  /\ SaysAgain(G, on, d) => SaysAgain(A, on, d) \/ (C # << >> /\ Word(A, on, d) = "reacquire")
  BY <1>3, <1>4, <1>5 DEF RadioThings, PeerThings, ClockThings, Mute
<1>8. on \in PeerThings => SameWord(G, B, on)
  BY <1>3, <1>4, <1>5 DEF RadioThings, PeerThings, ClockThings, SameWord, Mute
<1>9. on \in ClockThings => SameWord(G, D, on)
  BY <1>3, <1>4, <1>5 DEF RadioThings, PeerThings, ClockThings, SameWord, Mute
<1> QED
  BY <1>2, <1>6, <1>7, <1>8, <1>9 DEF A, B, D, G

LEMMA Differ ==
  ASSUME NEW a \in BOOLEAN, NEW b \in BOOLEAN
  PROVE  /\ a # b <=> ~(a <=> b)
         /\ a # b => Said(a) # Said(b)
<1>1. a # b <=> ~(a <=> b)
  OBVIOUS
<1>2. Said(TRUE) = "yes" /\ Said(FALSE) = "no"
  BY DEF Said
<1>3. "yes" # "no"
  OBVIOUS
<1>4. CASE a = TRUE
  BY <1>2, <1>3, <1>4, Zenon
<1>5. CASE a = FALSE
  BY <1>2, <1>3, <1>5, Zenon
<1> QED
  BY <1>1, <1>4, <1>5, Zenon

\* What a reader knows after a pass.
LEMMA ToldAfter ==
  ASSUME DOMAIN told = Things, NEW E, told' = Known(Replay(E))
  PROVE  /\ DOMAIN told' = Things
         /\ \A k \in Things \ {"ready", "secondary"} : told'[k] = Word(E, k, told[k])
         /\ told'["ready"] = IF snap'.active \/ snap'.ready THEN Word(E, "ready", told["ready"]) ELSE "unknown"
         /\ told'["secondary"] = IF clock'.active THEN Word(E, "secondary", told["secondary"]) ELSE "unknown"
<1> DEFINE R == Replay(E)
           x == IF snap'.active \/ snap'.ready THEN R["ready"] ELSE "unknown"
           y == IF clock'.active THEN R["secondary"] ELSE "unknown"
<1>1. DOMAIN R = Things /\ \A k \in Things : R[k] = Word(E, k, told[k])
  BY DEF Replay, Word
<1>2. "ready" \in Things /\ "secondary" \in Things
  BY DEF Things
<1>3. told' = [[R EXCEPT !["ready"] = x] EXCEPT !["secondary"] = y]
  BY DEF Known
<1> HIDE DEF R, x, y
<1>4. /\ DOMAIN told' = Things
      /\ \A k \in Things \ {"ready", "secondary"} : told'[k] = R[k]
      /\ told'["ready"] = x /\ told'["secondary"] = y
  BY <1>1, <1>2, <1>3
<1> QED
  BY <1>1, <1>2, <1>4 DEF x, y

\* What a pass of the main loop may show of the radio source, and of the consensus.
RadioMayShow(s, v) ==
  /\ DOMAIN s = SnapFields /\ s.held \in BOOLEAN /\ s.adoptions \in Nat
  /\ s.rejecting => ~(s.adoptions > snap.adoptions)
  /\ v.reacquire => v.refused
PeerMayShow(n) == DOMAIN n = NtpFields /\ n.active
ClockMayShow(c) == Shown(c) /\ (c.serving = "coasting" /\ c.sync => clock.sync)

LEMMA FirstSightFacts ==
  ASSUME DOMAIN rs = SourceFields, NEW s, NEW st, st = FirstSight(rs, s)
  PROVE  /\ st.ready = rs.ready /\ st.link = rs.link /\ st.failReported = rs.failReported
         /\ st.refused = rs.refused /\ st.rejecting = rs.rejecting
         /\ st.adoptions = rs.adoptions /\ st.held = rs.held
         /\ st.station = IF rs.seen THEN rs.station ELSE s.station
<1>1. CASE rs.seen
  BY <1>1 DEF FirstSight
<1>2. CASE ~rs.seen
  <2> DEFINE r == [rs EXCEPT !.seen = TRUE]
  <2>1. st = [r EXCEPT !.station = s.station]
    BY <1>2 DEF FirstSight
  <2>2. DOMAIN r = SourceFields /\ \A k \in SourceFields \ {"seen"} : r[k] = rs[k]
    BY DEF SourceFields
  <2> HIDE DEF r
  <2>3. st.station = s.station /\ \A k \in SourceFields \ {"seen", "station"} : st[k] = rs[k]
    BY <2>1, <2>2 DEF SourceFields
  <2> QED
    BY <1>2, <2>3 DEF SourceFields
<1> QED
  BY <1>1, <1>2

LEMMA VerdictWord ==
  ASSUME NEW st, NEW v, NEW d
  PROVE  Word(AgreementEvents(st, v), "agreement", d)
           = IF v.refused /\ ~st.refused THEN "refused"
             ELSE IF ~v.refused /\ v.judged /\ st.refused THEN "accepted" ELSE d
BY AgreementRead

LEMMA RadioStep ==
  ASSUME RadioKept, RadioTold, DOMAIN told = Things, NEW s, NEW v, NEW n, NEW c,
         RadioMayShow(s, v), Observe(s, v, n, c), told' = Known(Replay(PassEvents(s, v, n, c)))
  PROVE  /\ RadioKept' /\ RadioTold'
         /\ \A on \in RadioThings \ {"time"} : ~SaysAgain(PassEvents(s, v, n, c), on, told[on])
<1> DEFINE st == FirstSight(rs, s)
           P == PassEvents(s, v, n, c)
           R == RadioEvents(rs, s, v)
<1>1. /\ st.ready = rs.ready /\ st.link = rs.link /\ st.failReported = rs.failReported
      /\ st.refused = rs.refused /\ st.rejecting = rs.rejecting
      /\ st.adoptions = rs.adoptions /\ st.held = rs.held
      /\ st.station = IF rs.seen THEN rs.station ELSE s.station
  BY FirstSightFacts DEF RadioKept
<1>2. snap' = s /\ verdict' = v /\ rs' = AfterSource(st, s, v)
  BY DEF Observe
<1>3. /\ rs'.ready = s.ready /\ rs'.link = s.link /\ rs'.rejecting = s.rejecting
      /\ rs'.adoptions = s.adoptions /\ rs'.held = s.held /\ DOMAIN rs' = SourceFields /\ rs'.seen
      /\ rs'.station = IF s.station # "unknown" THEN s.station ELSE st.station
  BY <1>2 DEF AfterSource, SourceFields
<1>4. /\ LinkUp(st, s) => ~rs'.failReported
      /\ ~LinkUp(st, s) /\ (LinkLost(st, s) \/ LinkFails(st, s)) => rs'.failReported
      /\ ~LinkUp(st, s) /\ ~(LinkLost(st, s) \/ LinkFails(st, s)) => rs'.failReported = st.failReported
  <2>1. rs'.failReported = CASE LinkUp(st, s) -> FALSE
                             [] LinkLost(st, s) \/ LinkFails(st, s) -> TRUE
                             [] OTHER -> st.failReported
    BY <1>2 DEF AfterSource
  <2>2. ~(LinkUp(st, s) /\ (LinkLost(st, s) \/ LinkFails(st, s)))
    BY DEF LinkUp, LinkLost, LinkFails
  <2> QED
    BY <2>1, <2>2
<1>5. /\ v.reacquire => ~rs'.refused
      /\ ~v.reacquire /\ v.refused => rs'.refused
      /\ ~v.reacquire /\ ~v.refused /\ v.judged => ~rs'.refused
      /\ ~v.reacquire /\ ~v.refused /\ ~v.judged => (rs'.refused <=> st.refused)
  BY <1>2 DEF AfterSource
<1> HIDE DEF st
<1>6. /\ SameWord(P, R, "ready") /\ SameWord(R, ReadyEvents(st, s, "ready"), "ready")
      /\ SameWord(P, R, "link") /\ SameWord(R, LinkEvents(st, s), "link")
      /\ \A k \in {"station", "time", "held"} : SameWord(P, R, k) /\ SameWord(R, TimingEvents(st, s), k)
      /\ SameWord(R, AgreementEvents(st, v), "agreement")
  BY PassRead, RadioRead DEF RadioThings, st
<1>7. /\ told'["ready"] = IF s.active \/ s.ready THEN Word(P, "ready", told["ready"]) ELSE "unknown"
      /\ \A k \in RadioThings \ {"ready"} : told'[k] = Word(P, k, told[k])
  BY <1>2, ToldAfter DEF RadioThings, Things
<1> HIDE DEF P, R
<1>8. RadioKept'
  BY <1>1, <1>2, <1>3, <1>5 DEF RadioKept, RadioMayShow
\* The lock.
<1>9. (told'.ready = "yes" <=> rs'.ready) /\ ~SaysAgain(P, "ready", told["ready"])
  <2> DEFINE d == told["ready"]
             E == ReadyEvents(st, s, "ready")
  <2>1. /\ Word(E, "ready", d) = IF s.ready /\ ~st.ready THEN "yes"
                                  ELSE IF ~s.ready /\ st.ready /\ s.active THEN "no" ELSE d
        /\ SaysAgain(E, "ready", d) <=> \/ s.ready /\ ~st.ready /\ d = "yes"
                                        \/ ~s.ready /\ st.ready /\ s.active /\ d = "no"
    <3> DEFINE S == Sayable(s, n, c)
    <3>1. [on |-> "ready", is |-> "yes"] \in S /\ [on |-> "ready", is |-> "no"] \in S
      BY DEF Sayable, Things
    <3> HIDE DEF S
    <3> QED
      BY <3>1, ReadReady
  <2>2. Word(P, "ready", d) = Word(E, "ready", d) /\ (SaysAgain(P, "ready", d) => SaysAgain(E, "ready", d))
    BY <1>6 DEF SameWord
  <2> HIDE DEF E
  <2>3. d = "yes" <=> st.ready
    BY <1>1 DEF RadioTold
  <2> HIDE DEF d
  <2>4. ~SaysAgain(P, "ready", d)
    BY <2>1, <2>2, <2>3
  <2>5. told'["ready"] = "yes" <=> s.ready
    BY <1>7, <2>1, <2>2, <2>3 DEF d
  <2> QED
    BY <1>3, <2>4, <2>5 DEF d
\* The link.
<1>10. /\ told'.link = "up" <=> rs'.link = "Streaming"
       /\ told'.link = "down" <=> rs'.failReported
       /\ ~SaysAgain(P, "link", told["link"])
  <2> DEFINE d == told["link"]
             E == LinkEvents(st, s)
  <2>1. /\ Word(E, "link", d) = IF LinkLost(st, s) \/ LinkFails(st, s) THEN "down"
                                ELSE IF LinkUp(st, s) THEN "up" ELSE d
        /\ SaysAgain(E, "link", d) <=> \/ LinkUp(st, s) /\ d = "up"
                                       \/ (LinkLost(st, s) \/ LinkFails(st, s)) /\ ~LinkUp(st, s) /\ d = "down"
    BY LinkRead
  <2>2. told'["link"] = Word(E, "link", d) /\ (SaysAgain(P, "link", d) => SaysAgain(E, "link", d))
    BY <1>6, <1>7 DEF SameWord, RadioThings
  <2> HIDE DEF E
  <2>3. (d = "up" <=> st.link = "Streaming") /\ (d = "down" <=> st.failReported)
    BY <1>1 DEF RadioTold
  <2> HIDE DEF d
  <2>4. ~SaysAgain(P, "link", d)
    BY <2>1, <2>2, <2>3 DEF LinkUp, LinkLost, LinkFails
  <2>5. told'["link"] = "up" <=> s.link = "Streaming"
    BY <2>1, <2>2, <2>3 DEF LinkUp, LinkLost, LinkFails
  <2>6. told'["link"] = "down" <=> rs'.failReported
    BY <1>4, <2>1, <2>2, <2>3 DEF LinkUp, LinkLost, LinkFails
  <2> QED
    BY <1>3, <2>4, <2>5, <2>6 DEF d
\* The station, what is held and what is refused.
<1>11. told'.station \in {rs'.station, "unknown"} /\ ~SaysAgain(P, "station", told["station"])
  <2> DEFINE d == told["station"]
             E == TimingEvents(st, s)
  <2>1. /\ Word(E, "station", d) = IF s.station # st.station /\ s.station # "unknown" THEN s.station ELSE d
        /\ SaysAgain(E, "station", d) => s.station # st.station /\ s.station # "unknown" /\ d = s.station
    BY TimingRead
  <2>2. told'["station"] = Word(E, "station", d) /\ (SaysAgain(P, "station", d) => SaysAgain(E, "station", d))
    BY <1>6, <1>7 DEF SameWord, RadioThings
  <2> HIDE DEF E
  <2>3. d \in {rs.station, "unknown"} /\ (~rs.seen => d = "unknown")
    BY DEF RadioTold
  <2> HIDE DEF d
  <2> QED
    BY <1>1, <1>3, <2>1, <2>2, <2>3 DEF d
<1>12. told'.held = Said(rs'.held) /\ ~SaysAgain(P, "held", told["held"])
  <2> DEFINE d == told["held"]
             E == TimingEvents(st, s)
  <2>1. /\ Word(E, "held", d) = IF s.held # st.held THEN Said(s.held) ELSE d
        /\ SaysAgain(E, "held", d) => s.held # st.held /\ d = Said(s.held)
    BY TimingRead
  <2>2. told'["held"] = Word(E, "held", d) /\ (SaysAgain(P, "held", d) => SaysAgain(E, "held", d))
    BY <1>6, <1>7 DEF SameWord, RadioThings
  <2> HIDE DEF E
  <2>3. d = Said(st.held) /\ st.held = snap.held
    BY <1>1 DEF RadioTold, RadioKept
  <2>4. snap.held \in BOOLEAN /\ s.held \in BOOLEAN
    BY DEF RadioKept, RadioMayShow
  <2>5. s.held # st.held => Said(s.held) # Said(st.held)
    BY <2>3, <2>4, Differ
  <2> HIDE DEF d
  <2>6. ~SaysAgain(P, "held", d)
    BY <2>1, <2>2, <2>3, <2>5
  <2>7. told'["held"] = Said(s.held)
    BY <2>1, <2>2, <2>3
  <2> QED
    BY <1>3, <2>6, <2>7 DEF d
<1>13. rs'.rejecting => told'.time = "refused"
  <2> DEFINE d == told["time"]
             E == TimingEvents(st, s)
  <2>1. Word(E, "time", d) = IF s.adoptions > st.adoptions THEN "adopted"
                             ELSE IF s.rejecting /\ ~st.rejecting THEN "refused" ELSE d
    BY TimingRead
  <2>2. told'["time"] = Word(E, "time", d)
    BY <1>6, <1>7 DEF SameWord, RadioThings
  <2> HIDE DEF E
  <2>3. (st.rejecting => d = "refused") /\ (s.rejecting => ~(s.adoptions > st.adoptions))
    BY <1>1 DEF RadioTold, RadioKept, RadioMayShow
  <2> HIDE DEF d
  <2> QED
    BY <1>3, <2>1, <2>2, <2>3
\* The verdict.
<1>14. (told'.agreement = "refused" <=> rs'.refused) /\ ~SaysAgain(P, "agreement", told["agreement"])
  <2> DEFINE d == told["agreement"]
             E == AgreementEvents(st, v)
  <2>1. Word(E, "agreement", d) = IF v.refused /\ ~st.refused THEN "refused"
                                  ELSE IF ~v.refused /\ v.judged /\ st.refused THEN "accepted" ELSE d
    BY VerdictWord
  <2>0. SaysAgain(E, "agreement", d) => \/ v.refused /\ ~st.refused /\ d = "refused"
                                        \/ ~v.refused /\ v.judged /\ st.refused /\ d = "accepted"
    BY AgreementRead
  <2>2. /\ Word(P, "agreement", d) = IF v.reacquire THEN "reacquire" ELSE Word(R, "agreement", d)
        /\ SaysAgain(P, "agreement", d)
             => SaysAgain(R, "agreement", d) \/ (v.reacquire /\ Word(R, "agreement", d) = "reacquire")
    BY PassRead DEF P, R
  <2>3. Word(R, "agreement", d) = Word(E, "agreement", d) /\ (SaysAgain(R, "agreement", d) => SaysAgain(E, "agreement", d))
    BY <1>6 DEF SameWord
  <2>4. told'["agreement"] = Word(P, "agreement", d)
    BY <1>7 DEF RadioThings
  <2> HIDE DEF E
  <2>5. (d = "refused" <=> st.refused) /\ (v.reacquire => v.refused)
    BY <1>1 DEF RadioTold, RadioMayShow
  <2> HIDE DEF d
  <2>6. ~SaysAgain(P, "agreement", d)
    BY <2>0, <2>1, <2>2, <2>3, <2>5
  <2>7. told'["agreement"] = "refused" <=> rs'.refused
    BY <1>5, <2>1, <2>2, <2>3, <2>4, <2>5
  <2> QED
    BY <2>6, <2>7 DEF d
<1> QED
  BY <1>3, <1>8, <1>9, <1>10, <1>11, <1>12, <1>13, <1>14 DEF RadioTold, RadioThings, P

LEMMA PeerStep ==
  ASSUME PeerKept, PeerTold, DOMAIN told = Things, NEW s, NEW v, NEW n, NEW c,
         PeerMayShow(n), Observe(s, v, n, c), told' = Known(Replay(PassEvents(s, v, n, c)))
  PROVE  /\ PeerKept' /\ PeerTold'
         /\ \A on \in PeerThings \ {"kiss"} : ~SaysAgain(PassEvents(s, v, n, c), on, told[on])
<1> DEFINE st == FirstAnswer(ns, n)
           P == PassEvents(s, v, n, c)
           R == NtpEvents(ns, n)
<1>1. st.ready = ns.ready /\ st.up = IF ns.seen THEN ns.up ELSE n.up
  <2>1. CASE ns.seen
    BY <2>1 DEF FirstAnswer
  <2>2. CASE ~ns.seen
    <3> DEFINE r1 == [ns EXCEPT !.seen = TRUE]
               r2 == [r1 EXCEPT !.kiss = n.kiss]
    <3>1. st = [r2 EXCEPT !.up = n.up]
      BY <2>2 DEF FirstAnswer
    <3>2. DOMAIN r1 = PeerFields /\ r1.ready = ns.ready
      BY DEF PeerKept, PeerFields
    <3> HIDE DEF r1
    <3>3. DOMAIN r2 = PeerFields /\ r2.ready = ns.ready
      BY <3>2 DEF PeerFields
    <3> HIDE DEF r2
    <3> QED
      BY <2>2, <3>1, <3>3 DEF PeerFields
  <2> QED
    BY <2>1, <2>2
<1>2. ntp' = n /\ ns' = AfterPeer(st, n)
  BY DEF Observe
<1>3. /\ ns'.ready = n.ready /\ ns'.seen /\ DOMAIN ns' = PeerFields
      /\ ns'.up = IF n.up # "none" THEN n.up ELSE st.up
  BY <1>2 DEF AfterPeer, PeerFields
<1> HIDE DEF st
<1>4. /\ SameWord(P, R, "peer") /\ SameWord(R, ReadyEvents(st, n, "peer"), "peer")
      /\ SameWord(P, R, "upstream")
  BY PassRead, PeerRead DEF PeerThings, st
<1>5. \A d : /\ Word(R, "upstream", d)
                  = IF n.up # "none" /\ st.up # "none" /\ n.up # st.up THEN n.up ELSE d
             /\ SaysAgain(R, "upstream", d)
                  => n.up # "none" /\ st.up # "none" /\ n.up # st.up /\ n.up = d
  BY PeerRead DEF st
<1>6. \A k \in PeerThings : told'[k] = Word(P, k, told[k])
  BY ToldAfter DEF PeerThings, Things
<1> HIDE DEF P, R
<1>7. PeerKept'
  BY <1>2, <1>3 DEF PeerKept, PeerMayShow
<1>8. (told'.peer = "yes" <=> ns'.ready) /\ ~SaysAgain(P, "peer", told["peer"])
  <2> DEFINE d == told["peer"]
             E == ReadyEvents(st, n, "peer")
  <2>1. /\ Word(E, "peer", d) = IF n.ready /\ ~st.ready THEN "yes"
                                ELSE IF ~n.ready /\ st.ready /\ n.active THEN "no" ELSE d
        /\ SaysAgain(E, "peer", d) <=> \/ n.ready /\ ~st.ready /\ d = "yes"
                                       \/ ~n.ready /\ st.ready /\ n.active /\ d = "no"
    <3> DEFINE S == Sayable(s, n, c)
    <3>1. [on |-> "peer", is |-> "yes"] \in S /\ [on |-> "peer", is |-> "no"] \in S
      BY DEF Sayable, Things
    <3> HIDE DEF S
    <3> QED
      BY <3>1, ReadReady
  <2>2. told'["peer"] = Word(E, "peer", d) /\ (SaysAgain(P, "peer", d) => SaysAgain(E, "peer", d))
    BY <1>4, <1>6 DEF SameWord, PeerThings
  <2> HIDE DEF E
  <2>3. (d = "yes" <=> st.ready) /\ n.active
    BY <1>1 DEF PeerTold, PeerMayShow
  <2> HIDE DEF d
  <2>4. ~SaysAgain(P, "peer", d)
    BY <2>1, <2>2, <2>3
  <2>5. told'["peer"] = "yes" <=> n.ready
    BY <2>1, <2>2, <2>3
  <2> QED
    BY <1>3, <2>4, <2>5 DEF d
<1>9. /\ told'.upstream \in {ns'.up, "none"} /\ ~SaysAgain(P, "upstream", told["upstream"])
  <2> DEFINE d == told["upstream"]
  <2>1. told'["upstream"] = Word(R, "upstream", d) /\ (SaysAgain(P, "upstream", d) => SaysAgain(R, "upstream", d))
    BY <1>4, <1>6 DEF SameWord, PeerThings
  <2>2. d \in {ns.up, "none"} /\ (~ns.seen => d = "none")
    BY DEF PeerTold
  <2> HIDE DEF d
  <2>3. ~SaysAgain(P, "upstream", d)
    BY <1>1, <1>5, <2>1, <2>2
  <2>4. told'["upstream"] \in {ns'.up, "none"}
    BY <1>1, <1>3, <1>5, <2>1, <2>2
  <2> QED
    BY <2>3, <2>4 DEF d
<1> QED
  BY <1>3, <1>7, <1>8, <1>9 DEF PeerTold, PeerThings, P

LEMMA LeapWord ==
  ASSUME NEW m, NEW c, NEW d
  PROVE  /\ Word(ServedEvents(m, c), "leap", d) = IF c.leap # m.leap THEN Said(c.leap) ELSE d
         /\ SaysAgain(ServedEvents(m, c), "leap", d) => c.leap # m.leap /\ d = Said(c.leap)
<1>1. Word(ServedEvents(m, c), "leap", d) = IF c.leap # m.leap THEN Said(c.leap) ELSE d
  <2>1. ASSUME c.leap # m.leap PROVE Word(ServedEvents(m, c), "leap", d) = Said(c.leap)
    BY <2>1, ServedRead
  <2>2. ASSUME c.leap = m.leap PROVE Word(ServedEvents(m, c), "leap", d) = d
    BY <2>2, ServedRead
  <2> QED
    BY <2>1, <2>2
<1>2. SaysAgain(ServedEvents(m, c), "leap", d) => c.leap # m.leap /\ d = Said(c.leap)
  BY ServedRead
<1> QED
  BY <1>1, <1>2

LEMMA SideWord ==
  ASSUME NEW m, NEW c, NEW d
  PROVE  /\ Word(SideEvents(m, c), "side", d)
              = IF OneSide(c) /\ c.serving # m.side /\ (m.side # "none" \/ c.serving = "secondary")
                THEN c.serving ELSE d
         /\ SaysAgain(SideEvents(m, c), "side", d) => OneSide(c) /\ c.serving # m.side /\ d = c.serving
BY SideRead

LEMMA ServedWord ==
  ASSUME NEW m, NEW c, NEW d
  PROVE  Word(ServedEvents(m, c), "served", d)
           = IF Live(c) /\ (~Live(m) \/ c.stratum # m.stratum) THEN Served(c.stratum)
             ELSE IF ~c.sync /\ m.sync THEN Unserved
             ELSE IF c.serving = "coasting" /\ m.serving \notin {"coasting", "none"} THEN Coasting ELSE d
BY ServedRead

LEMMA ServedAgain ==
  ASSUME NEW m, NEW c, NEW d, SaysAgain(ServedEvents(m, c), "served", d)
  PROVE  \/ c.serving = "coasting" /\ m.serving \notin {"coasting", "none"} /\ d = Coasting
         \/ /\ ~c.sync /\ m.sync
            /\ Unserved = IF c.serving = "coasting" /\ m.serving \notin {"coasting", "none"}
                          THEN Coasting ELSE d
         \/ /\ Live(c) /\ (~Live(m) \/ c.stratum # m.stratum)
            /\ Served(c.stratum) = IF ~c.sync /\ m.sync THEN Unserved
                                   ELSE IF c.serving = "coasting" /\ m.serving \notin {"coasting", "none"}
                                   THEN Coasting ELSE d
BY ServedRead

LEMMA ClockStep ==
  ASSUME ClockKept, ClockTold, DOMAIN told = Things, NEW s, NEW v, NEW n, NEW c,
         ClockMayShow(c), Observe(s, v, n, c), told' = Known(Replay(PassEvents(s, v, n, c)))
  PROVE  /\ ClockKept' /\ ClockTold'
         /\ \A on \in ClockThings : ~SaysAgain(PassEvents(s, v, n, c), on, told[on])
<1> DEFINE P == PassEvents(s, v, n, c)
           R == ClockEvents(mon, c)
           A == ClassEvents(mon, c)
           B == SideEvents(mon, c)
           C == ServedEvents(mon, c)
<1>1. clock' = c /\ mon' = AfterPass(mon, c)
  BY DEF Observe
<1>2. /\ mon'.sync = c.sync /\ mon'.serving = c.serving /\ mon'.leap = c.leap
      /\ mon'.primary = c.primary /\ mon'.active = c.active
      /\ mon'.stratum = IF Live(c) THEN c.stratum ELSE mon.stratum
      /\ mon'.side = SideAfter(mon, c)
      /\ mon'.secondary <=> (c.active /\ c.secondary)
  BY <1>1 DEF AfterPass
<1>3. mon'.secondary \in BOOLEAN
  BY <1>1 DEF AfterPass
<1>4. /\ mon.leap = clock.leap /\ mon.primary = clock.primary /\ mon.active = clock.active
      /\ {clock.leap, clock.primary, clock.active, mon.secondary} \subseteq BOOLEAN
      /\ {c.leap, c.primary, c.secondary, c.active} \subseteq BOOLEAN
  BY DEF ClockKept, ClockMayShow, Shown
<1>5. /\ c.leap # mon.leap => Said(c.leap) # Said(mon.leap)
      /\ c.primary # mon.primary => Said(c.primary) # Said(mon.primary)
      /\ c.active # mon.active => Said(c.active) # Said(mon.active)
      /\ c.secondary # mon.secondary <=> ~(c.secondary <=> mon.secondary)
  BY <1>4, Differ
<1>6. /\ \A k \in ClockThings : SameWord(P, R, k)
      /\ \A k \in {"primary", "secondary", "standby"} : SameWord(R, A, k)
      /\ SameWord(R, B, "side")
      /\ \A k \in {"served", "leap"} : SameWord(R, C, k)
  BY PassRead, ClockRead DEF ClockThings
<1>7. /\ told'["secondary"] = IF c.active THEN Word(P, "secondary", told["secondary"]) ELSE "unknown"
      /\ \A k \in ClockThings \ {"secondary"} : told'[k] = Word(P, k, told[k])
  BY <1>1, ToldAfter DEF ClockThings, Things
<1> HIDE DEF P, R, A, B, C
<1>8. /\ Shown(clock') /\ mon'.side \in Sides
      /\ OneSide(clock') => mon'.side = clock'.serving
  BY <1>1, <1>2 DEF ClockMayShow, Shown, SideAfter, OneSide, ClockKept, Sides
<1>9. ClockKept'
  BY <1>1, <1>2, <1>3, <1>8 DEF ClockKept, Live, Shown, OneSide
<1>10. told'.primary = Said(mon'.primary) /\ ~SaysAgain(P, "primary", told["primary"])
  <2> DEFINE d == told["primary"]
  <2>1. /\ Word(A, "primary", d) = IF c.primary # mon.primary THEN Said(c.primary) ELSE d
        /\ SaysAgain(A, "primary", d) => c.primary # mon.primary /\ d = Said(c.primary)
    BY ClassRead DEF A
  <2>2. told'["primary"] = Word(A, "primary", d) /\ (SaysAgain(P, "primary", d) => SaysAgain(A, "primary", d))
    BY <1>6, <1>7 DEF SameWord, ClockThings
  <2>3. d = Said(mon.primary)
    BY DEF ClockTold
  <2> HIDE DEF d
  <2>4. ~SaysAgain(P, "primary", d)
    BY <1>5, <2>1, <2>2, <2>3
  <2>5. told'["primary"] = Said(c.primary)
    BY <2>1, <2>2, <2>3
  <2> QED
    BY <1>2, <2>4, <2>5 DEF d
<1>11. told'.leap = Said(mon'.leap) /\ ~SaysAgain(P, "leap", told["leap"])
  <2> DEFINE d == told["leap"]
  <2>1. /\ Word(C, "leap", d) = IF c.leap # mon.leap THEN Said(c.leap) ELSE d
        /\ SaysAgain(C, "leap", d) => c.leap # mon.leap /\ d = Said(c.leap)
    BY LeapWord DEF C
  <2>2. told'["leap"] = Word(C, "leap", d) /\ (SaysAgain(P, "leap", d) => SaysAgain(C, "leap", d))
    BY <1>6, <1>7 DEF SameWord, ClockThings
  <2>3. d = Said(mon.leap)
    BY DEF ClockTold
  <2> HIDE DEF d
  <2>4. ~SaysAgain(P, "leap", d)
    BY <1>5, <2>1, <2>2, <2>3
  <2>5. told'["leap"] = Said(c.leap)
    BY <2>1, <2>2, <2>3
  <2> QED
    BY <1>2, <2>4, <2>5 DEF d
<1>12. (told'.secondary = "yes" <=> mon'.secondary) /\ ~SaysAgain(P, "secondary", told["secondary"])
  <2> DEFINE d == told["secondary"]
  <2>1. /\ Word(A, "secondary", d) = IF c.active /\ c.secondary # mon.secondary THEN Said(c.secondary) ELSE d
        /\ SaysAgain(A, "secondary", d) => c.active /\ c.secondary # mon.secondary /\ d = Said(c.secondary)
    BY ClassRead DEF A
  <2>2. Word(P, "secondary", d) = Word(A, "secondary", d) /\ (SaysAgain(P, "secondary", d) => SaysAgain(A, "secondary", d))
    BY <1>6 DEF SameWord, ClockThings
  <2>3. d = "yes" <=> mon.secondary
    BY DEF ClockTold
  <2>4. Said(c.secondary) = "yes" <=> c.secondary
    BY DEF Said
  <2>5. told'["secondary"] = IF c.active THEN Word(P, "secondary", d) ELSE "unknown"
    BY <1>7
  <2> HIDE DEF d
  <2>6. ~SaysAgain(P, "secondary", d)
    BY <1>5, <2>1, <2>2, <2>3, <2>4
  <2>7. told'["secondary"] = "yes" <=> (c.active /\ c.secondary)
    BY <1>5, <2>1, <2>2, <2>3, <2>4, <2>5
  <2> QED
    BY <1>2, <2>6, <2>7 DEF d
<1>13. told'.standby \in {Said(mon'.active), "unknown"} /\ ~SaysAgain(P, "standby", told["standby"])
  <2> DEFINE d == told["standby"]
  <2>1. /\ Word(A, "standby", d) = IF c.active # mon.active /\ ~mon.first THEN Said(c.active) ELSE d
        /\ SaysAgain(A, "standby", d) => c.active # mon.active /\ d = Said(c.active)
    BY ClassRead DEF A
  <2>2. told'["standby"] = Word(A, "standby", d) /\ (SaysAgain(P, "standby", d) => SaysAgain(A, "standby", d))
    BY <1>6, <1>7 DEF SameWord, ClockThings
  <2>3. d \in {Said(mon.active), "unknown"} /\ (mon.first => d = "unknown")
    BY DEF ClockTold
  <2>4. Said(c.active) # "unknown"
    BY DEF Said
  <2> HIDE DEF d
  <2>5. ~SaysAgain(P, "standby", d)
    BY <1>5, <2>1, <2>2, <2>3, <2>4
  <2>6. told'["standby"] \in {Said(c.active), "unknown"}
    BY <2>1, <2>2, <2>3
  <2> QED
    BY <1>2, <2>5, <2>6 DEF d
<1>14. told'.side \in {mon'.side, "none"} /\ ~SaysAgain(P, "side", told["side"])
  <2> DEFINE d == told["side"]
  <2>1. /\ Word(B, "side", d)
             = IF OneSide(c) /\ c.serving # mon.side /\ (mon.side # "none" \/ c.serving = "secondary")
               THEN c.serving ELSE d
        /\ SaysAgain(B, "side", d) => OneSide(c) /\ c.serving # mon.side /\ d = c.serving
    BY SideWord DEF B
  <2>2. told'["side"] = Word(B, "side", d) /\ (SaysAgain(P, "side", d) => SaysAgain(B, "side", d))
    BY <1>6, <1>7 DEF SameWord, ClockThings
  <2>3. d \in {mon.side, "none"} /\ mon.side \in Sides
    BY DEF ClockTold, ClockKept
  <2> HIDE DEF d
  <2>4. ~SaysAgain(P, "side", d)
    BY <2>1, <2>2, <2>3 DEF OneSide
  <2>5. told'["side"] \in {SideAfter(mon, c), "none"}
    BY <2>1, <2>2, <2>3 DEF OneSide, SideAfter, Sides
  <2> QED
    BY <1>2, <2>4, <2>5 DEF d
<1>15. /\ told'.served = IF Live(mon') THEN Served(mon'.stratum) ELSE IF mon'.sync THEN Coasting ELSE Unserved
       /\ ~SaysAgain(P, "served", told["served"])
  <2> DEFINE d == told["served"]
             coasts == c.serving = "coasting" /\ mon.serving \notin {"coasting", "none"}
             lives == Live(c) /\ (~Live(mon) \/ c.stratum # mon.stratum)
  <2>1. Word(C, "served", d) = IF lives THEN Served(c.stratum)
                               ELSE IF ~c.sync /\ mon.sync THEN Unserved
                               ELSE IF coasts THEN Coasting ELSE d
    BY ServedWord DEF C
  <2>2. SaysAgain(C, "served", d)
          => \/ coasts /\ d = Coasting
             \/ ~c.sync /\ mon.sync /\ Unserved = IF coasts THEN Coasting ELSE d
             \/ lives /\ Served(c.stratum) = IF ~c.sync /\ mon.sync THEN Unserved ELSE IF coasts THEN Coasting ELSE d
    BY ServedAgain DEF C
  <2>3. told'["served"] = Word(C, "served", d) /\ (SaysAgain(P, "served", d) => SaysAgain(C, "served", d))
    BY <1>6, <1>7 DEF SameWord, ClockThings
  <2>4. d = IF Live(mon) THEN Served(mon.stratum) ELSE IF mon.sync THEN Coasting ELSE Unserved
    BY DEF ClockTold
  <2>5. /\ Coasting # Unserved
        /\ \A x : Served(x) # Coasting /\ Served(x) # Unserved
        /\ \A x, y : Served(x) = Served(y) => x = y
    BY DEF Coasting, Unserved, Served
  <2>6. /\ Live(c) <=> c.sync /\ c.serving # "coasting"
        /\ Live(mon) <=> mon.sync /\ mon.serving # "coasting"
        /\ mon.serving \in Servings /\ (mon.serving = "none" => ~mon.sync)
        /\ mon.serving \in {"primary", "secondary", "both"} => mon.sync
        /\ c.serving \in Servings /\ (c.serving = "none" => ~c.sync)
        /\ c.serving \in {"primary", "secondary", "both"} => c.sync
        /\ c.serving = "coasting" /\ c.sync => mon.sync
    BY DEF Live, ClockKept, ClockMayShow, Shown
  <2> HIDE DEF d
  <2>7. ~SaysAgain(P, "served", d)
    BY <2>2, <2>3, <2>4, <2>5, <2>6 DEF Servings
  <2>8. told'["served"] = IF Live(c) THEN Served(c.stratum) ELSE IF c.sync THEN Coasting ELSE Unserved
    BY <2>1, <2>3, <2>4, <2>6 DEF Servings
  <2>9. (Live(mon') <=> Live(c)) /\ (Live(c) => mon'.stratum = c.stratum) /\ mon'.sync = c.sync
    BY <1>2 DEF Live
  <2> QED
    BY <2>7, <2>8, <2>9 DEF d
<1>16. ~mon'.first
  BY <1>1 DEF AfterPass
<1> QED
  BY <1>9, <1>10, <1>11, <1>12, <1>13, <1>14, <1>15, <1>16 DEF ClockTold, ClockThings, P

LEMMA LogInvInit == Init => LogInv
<1> SUFFICES ASSUME Init PROVE LogInv
  OBVIOUS
<1>1. told = Untold /\ repeats = FALSE /\ MonitorInit
  BY DEF Init
<1>2. RadioKept /\ RadioTold
  BY <1>1 DEF MonitorInit, Untold, UnseenSource, NoVerdict, RadioKept, RadioTold, SnapFields, SourceFields, Said
<1>3. PeerKept /\ PeerTold
  BY <1>1 DEF MonitorInit, Untold, UnseenPeer, PeerKept, PeerTold, NtpFields, PeerFields
<1>4. Shown(clock)
  BY <1>1 DEF MonitorInit, Shown, Servings
<1>5. ClockKept
  BY <1>1, <1>4 DEF MonitorInit, NewMonitor, ClockKept, Live, OneSide, Sides
<1>6. ClockTold
  BY <1>1 DEF MonitorInit, Untold, NewMonitor, ClockTold, Live, Said
<1>7. DOMAIN told = Things
  BY <1>1 DEF Untold, Things
<1> QED
  BY <1>1, <1>2, <1>3, <1>5, <1>6, <1>7 DEF LogInv

\* One pass, whatever it shows.
LEMMA PassKeeps ==
  ASSUME LogInv, NEW s, NEW v, NEW n, NEW c, Observe(s, v, n, c),
         RadioMayShow(s, v), PeerMayShow(n), ClockMayShow(c),
         told' = Known(Replay(PassEvents(s, v, n, c))), repeats' = Repetitive(PassEvents(s, v, n, c))
  PROVE  LogInv'
<1> DEFINE P == PassEvents(s, v, n, c)
<1>1. RadioKept' /\ RadioTold' /\ \A on \in RadioThings \ {"time"} : ~SaysAgain(P, on, told[on])
  BY RadioStep DEF LogInv
<1>2. PeerKept' /\ PeerTold' /\ \A on \in PeerThings \ {"kiss"} : ~SaysAgain(P, on, told[on])
  BY PeerStep DEF LogInv
<1>3. ClockKept' /\ ClockTold' /\ \A on \in ClockThings : ~SaysAgain(P, on, told[on])
  BY ClockStep DEF LogInv
<1>4. DOMAIN told' = Things
  BY ToldAfter DEF LogInv
<1> HIDE DEF P
<1>5. ~Repetitive(P)
  <2>1. DOMAIN told = Things
    BY DEF LogInv
  <2>2. \A on \in Things \ Occurrences :
          on \in RadioThings \ {"time"} \/ on \in PeerThings \ {"kiss"} \/ on \in ClockThings
    BY DEF Things, Occurrences, RadioThings, PeerThings, ClockThings
  <2> QED
    BY <1>1, <1>2, <1>3, <2>1, <2>2 DEF Repetitive
<1> QED
  BY <1>1, <1>2, <1>3, <1>4, <1>5 DEF LogInv, P

LEMMA SourceTurnsKeep ==
  ASSUME LogInv, SourceTurns
  PROVE  \E s, v : Observe(s, v, ntp, clock) /\ RadioMayShow(s, v)
<1>1. RadioKept
  BY DEF LogInv
<1>2. RadioMayShow(snap, verdict)
  BY <1>1 DEF RadioKept, RadioMayShow
<1>3. ASSUME NEW r \in BOOLEAN, NEW a \in BOOLEAN, NEW l \in Links
      PROVE  RadioMayShow([snap EXCEPT !.ready = r, !.active = a, !.link = l], verdict)
  <2> DEFINE s1 == [snap EXCEPT !.ready = r]
             s2 == [s1 EXCEPT !.active = a]
             s3 == [s2 EXCEPT !.link = l]
  <2>1. /\ DOMAIN s1 = SnapFields /\ s1.held = snap.held /\ s1.adoptions = snap.adoptions
        /\ s1.rejecting = snap.rejecting
    BY <1>1 DEF RadioKept, SnapFields
  <2> HIDE DEF s1
  <2>2. /\ DOMAIN s2 = SnapFields /\ s2.held = snap.held /\ s2.adoptions = snap.adoptions
        /\ s2.rejecting = snap.rejecting
    BY <2>1 DEF SnapFields
  <2> HIDE DEF s2
  <2>3. /\ DOMAIN s3 = SnapFields /\ s3.held = snap.held /\ s3.adoptions = snap.adoptions
        /\ s3.rejecting = snap.rejecting
    BY <2>2 DEF SnapFields
  <2> HIDE DEF s3
  <2>4. RadioMayShow(s3, verdict)
    BY <1>2, <2>3 DEF RadioMayShow
  <2> QED
    BY <2>4 DEF s1, s2, s3
<1>4. ASSUME NEW st, NEW h \in BOOLEAN, NEW j \in BOOLEAN, NEW k \in {0, 1}, k > snap.adoptions => ~j
      PROVE  RadioMayShow([snap EXCEPT !.station = st, !.held = h, !.rejecting = j, !.adoptions = k], verdict)
  <2> DEFINE s1 == [snap EXCEPT !.station = st]
             s2 == [s1 EXCEPT !.held = h]
             s3 == [s2 EXCEPT !.rejecting = j]
             s4 == [s3 EXCEPT !.adoptions = k]
  <2>1. DOMAIN s1 = SnapFields
    BY <1>1 DEF RadioKept
  <2> HIDE DEF s1
  <2>2. DOMAIN s2 = SnapFields /\ s2.held = h
    BY <2>1 DEF SnapFields
  <2> HIDE DEF s2
  <2>3. DOMAIN s3 = SnapFields /\ s3.held = h /\ s3.rejecting = j
    BY <2>2 DEF SnapFields
  <2> HIDE DEF s3
  <2>4. DOMAIN s4 = SnapFields /\ s4.held = h /\ s4.rejecting = j /\ s4.adoptions = k
    BY <2>3 DEF SnapFields
  <2> HIDE DEF s4
  <2>5. RadioMayShow(s4, verdict)
    BY <1>2, <1>4, <2>4 DEF RadioMayShow
  <2> QED
    BY <2>5 DEF s1, s2, s3, s4
<1>5. ASSUME NEW f \in BOOLEAN, NEW j \in BOOLEAN, NEW q \in BOOLEAN, q => f
      PROVE  RadioMayShow(snap, [refused |-> f, judged |-> j, reacquire |-> q])
  BY <1>2, <1>5 DEF RadioMayShow
<1>6. CASE \E r, a \in BOOLEAN, l \in Links :
             Observe([snap EXCEPT !.ready = r, !.active = a, !.link = l], verdict, ntp, clock)
  BY <1>3, <1>6
<1>7. CASE \E st \in {"unknown", "wwv", "wwvh"}, h, j \in BOOLEAN, k \in {0, 1} :
             /\ k >= snap.adoptions /\ (k > snap.adoptions => ~j)
             /\ Observe([snap EXCEPT !.station = st, !.held = h, !.rejecting = j, !.adoptions = k],
                        verdict, ntp, clock)
  BY <1>4, <1>7
<1>8. CASE \E f, j, q \in BOOLEAN :
             /\ q => f
             /\ Observe(snap, [refused |-> f, judged |-> j, reacquire |-> q], ntp, clock)
  BY <1>5, <1>8
<1> QED
  BY <1>6, <1>7, <1>8 DEF SourceTurns

LEMMA PeerTurnsKeep ==
  ASSUME LogInv, PeerTurns
  PROVE  \E n : Observe(snap, verdict, n, clock) /\ PeerMayShow(n)
<1>1. PICK r \in BOOLEAN, k \in {"", "RATE", "DENY"}, u \in {"none", "a", "b"} :
        Observe(snap, verdict, [ntp EXCEPT !.ready = r, !.kiss = k, !.up = u], clock)
  BY DEF PeerTurns
<1> DEFINE n1 == [ntp EXCEPT !.ready = r]
           n2 == [n1 EXCEPT !.kiss = k]
           n3 == [n2 EXCEPT !.up = u]
<1>2. DOMAIN n1 = NtpFields /\ n1.active
  BY DEF LogInv, PeerKept, NtpFields
<1> HIDE DEF n1
<1>3. DOMAIN n2 = NtpFields /\ n2.active
  BY <1>2 DEF NtpFields
<1> HIDE DEF n2
<1>4. DOMAIN n3 = NtpFields /\ n3.active
  BY <1>3 DEF NtpFields
<1>5. n3 = [ntp EXCEPT !.ready = r, !.kiss = k, !.up = u]
  BY DEF n1, n2
<1> HIDE DEF n3
<1> QED
  BY <1>1, <1>4, <1>5 DEF PeerMayShow

LEMMA ClockTurnsKeep ==
  ASSUME LogInv, ClockTurns
  PROVE  \E c : Observe(snap, verdict, ntp, c) /\ ClockMayShow(c)
<1>1. PICK w \in ServedAfter(clock), z \in {1, 2}, l \in BOOLEAN, p \in BOOLEAN, q \in BOOLEAN, a \in BOOLEAN :
        Observe(snap, verdict, ntp,
                [serving |-> w.serving, sync |-> w.sync,
                 stratum |-> IF w.serving = "coasting" THEN clock.stratum ELSE z,
                 leap |-> l, primary |-> p, secondary |-> q, active |-> a])
  BY DEF ClockTurns
<1> DEFINE c == [serving |-> w.serving, sync |-> w.sync,
                 stratum |-> IF w.serving = "coasting" THEN clock.stratum ELSE z,
                 leap |-> l, primary |-> p, secondary |-> q, active |-> a]
<1>2. /\ c.serving = w.serving /\ c.sync = w.sync
      /\ {c.leap, c.primary, c.secondary, c.active} \subseteq BOOLEAN
  OBVIOUS
<1> HIDE DEF c
<1>3. \/ w \in [serving : {"primary", "secondary", "both"}, sync : {TRUE}]
      \/ w \in [serving : {"none"}, sync : {FALSE}]
      \/ w \in [serving : {"coasting"}, sync : {clock.sync, FALSE}]
  BY DEF ServedAfter
<1>4. /\ w.serving \in Servings
      /\ w.serving = "none" => ~w.sync
      /\ w.serving \in {"primary", "secondary", "both"} => w.sync
      /\ w.serving = "coasting" /\ w.sync => clock.sync
  BY <1>3 DEF Servings
<1>5. ClockMayShow(c)
  BY <1>2, <1>4 DEF ClockMayShow, Shown
<1> QED
  BY <1>1, <1>5 DEF c

LEMMA LogInvStep ==
  ASSUME LogInv, [Next]_vars
  PROVE  LogInv'
<1>1. RadioMayShow(snap, verdict) /\ PeerMayShow(ntp) /\ ClockMayShow(clock)
  BY DEF LogInv, RadioKept, RadioMayShow, PeerKept, PeerMayShow, ClockKept, ClockMayShow
<1>2. CASE UNCHANGED <<told, repeats, monitorVars>>
  BY <1>2 DEF monitorVars, LogInv, RadioKept, RadioTold, PeerKept, PeerTold, ClockKept, ClockTold,
              Shown, Live, OneSide
<1>3. ASSUME SourceTurns \/ PeerTurns \/ ClockTurns,
             told' = Known(Replay(PassEvents(snap', verdict', ntp', clock'))),
             repeats' = Repetitive(PassEvents(snap', verdict', ntp', clock'))
      PROVE  LogInv'
  <2>1. PICK s, v, n, c : /\ Observe(s, v, n, c)
                          /\ RadioMayShow(s, v) /\ PeerMayShow(n) /\ ClockMayShow(c)
    BY <1>1, <1>3, SourceTurnsKeep, PeerTurnsKeep, ClockTurnsKeep
  <2>2. snap' = s /\ verdict' = v /\ ntp' = n /\ clock' = c
    BY <2>1 DEF Observe
  <2>3. /\ told' = Known(Replay(PassEvents(s, v, n, c)))
        /\ repeats' = Repetitive(PassEvents(s, v, n, c))
    BY <1>3, <2>2
  <2> QED
    BY <2>1, <2>3, PassKeeps
<1>4. CASE MonitorStep
  BY <1>3, <1>4 DEF MonitorStep
<1> QED
  BY <1>2, <1>4 DEF Next, PublishStep, ThreadsStep, TicksStep, DriftStep, ChartStep, vars

LEMMA LogInvTells == LogInv => LogTellsState
<1> SUFFICES ASSUME LogInv PROVE LogTellsState
  OBVIOUS
<1>1. Live(clock) <=> Live(mon)
  BY DEF LogInv, ClockKept, Live
<1>2. told.served = IF Live(clock) THEN Served(clock.stratum)
                    ELSE IF clock.sync THEN Coasting ELSE Unserved
  BY <1>1 DEF LogInv, ClockKept, ClockTold
<1>3. /\ told.link = "up" <=> snap.link = "Streaming"
      /\ snap.ready => told.ready = "yes"
      /\ snap.active /\ told.ready = "yes" => snap.ready
      /\ snap.station # "unknown" => told.station \in {snap.station, "unknown"}
      /\ told.held = Said(snap.held)
      /\ snap.rejecting => told.time = "refused"
      /\ verdict.refused /\ ~verdict.reacquire => told.agreement = "refused"
      /\ verdict.judged /\ ~verdict.refused => told.agreement # "refused"
  BY DEF LogInv, RadioKept, RadioTold
<1>4. /\ told.peer = "yes" <=> ntp.ready
      /\ ntp.up # "none" => told.upstream \in {ntp.up, "none"}
  BY DEF LogInv, PeerKept, PeerTold
<1>5. /\ told.primary = Said(clock.primary) /\ told.leap = Said(clock.leap)
      /\ clock.active /\ clock.secondary => told.secondary = "yes"
      /\ clock.active /\ told.secondary = "yes" => clock.secondary
      /\ told.standby \in {Said(clock.active), "unknown"}
      /\ OneSide(clock) => told.side \in {clock.serving, "none"}
  BY DEF LogInv, ClockKept, ClockTold
<1>6. ~repeats
  BY DEF LogInv
<1> QED
  BY <1>2, <1>3, <1>4, <1>5, <1>6 DEF LogTellsState

(* A reader who replays the event log knows the state the daemon is in,    *)
(* whatever the passes of the main loop show and in whatever order         *)
(* (EventMonitor::observe).                                                *)
THEOREM LogTells == Spec => []LogTellsState
<1>1. Init => LogInv
  BY LogInvInit
<1>2. LogInv /\ [Next]_vars => LogInv'
  BY LogInvStep
<1> QED
  BY <1>1, <1>2, LogInvTells, PTL DEF Spec
-----------------------------------------------------------------------------
(* Every non-empty set of numbers has a least one.                         *)
LEMMA NatMin == ASSUME NEW T \in SUBSET Nat, T # {} PROVE \E x \in T : \A y \in T : x <= y
<1> DEFINE R == OpToRel(<, Nat)
<1>1. IsWellFoundedOn(R, Nat)
  BY NatLessThanWellFounded
<1>3. \A x, y \in Nat : <<y, x>> \in R <=> y < x
  BY DEF OpToRel
<1> HIDE DEF R
<1>2. PICK x \in T : \A y \in T : ~(<<y, x>> \in R)
  BY <1>1, WFMin
<1>4. \A y \in T : x <= y
  <2> TAKE y \in T
  <2>1. x \in Nat /\ y \in Nat /\ ~(y < x)
    BY <1>2, <1>3
  <2> QED BY <2>1
<1> QED BY <1>4

(* What Min and Max are, of numbers.                                       *)
LEMMA LeastIs ==
  ASSUME NEW T \in SUBSET Nat, T # {}
  PROVE  Min(T) \in T /\ \A x \in T : Min(T) <= x
  BY NatMin DEF Min

LEMMA GreatestIs ==
  ASSUME NEW n \in Nat, NEW T \in SUBSET (0..n), T # {}
  PROVE  Max(T) \in T /\ \A x \in T : Max(T) >= x
<1> DEFINE U == {n - x : x \in T}
<1>0. \A x \in T : x \in Nat /\ n - x \in Nat /\ n - x \in U
  <2> TAKE x \in T
  <2>1. x \in 0..n
    OBVIOUS
  <2>2. x \in Nat /\ n - x \in Nat
    BY <2>1
  <2>3. n - x \in U
    OBVIOUS
  <2> QED BY <2>2, <2>3
<1>1. U \in SUBSET Nat /\ U # {}
  BY <1>0
<1>2. \A u \in U : \E x \in T : u = n - x
  OBVIOUS
<1> HIDE DEF U
<1>3. PICK u \in U : \A y \in U : u <= y
  BY <1>1, NatMin
<1>4. PICK x \in T : u = n - x
  BY <1>2
<1>5. ASSUME NEW y \in T PROVE x >= y
  <2>1. u <= n - y /\ x \in Nat /\ y \in Nat
    BY <1>0, <1>3
  <2> QED BY <1>4, <2>1
<1>6. \E z \in T : \A y \in T : z >= y
  BY <1>5
<1> QED BY <1>6 DEF Max

(* A change of the serving class, and how many of the changes there were   *)
(* have been dropped: the first d, and those only because kMaxChanges was  *)
(* reached or because the one that follows them is older than what is kept.*)
Turn == [start : Nat, state : {"primary", "secondary"}]
Gone(d) ==
  /\ d \in 0..Len(turns) /\ (turns # <<>> => d < Len(turns))
  /\ changes = SubSeq(turns, d + 1, Len(turns))
  /\ trimmed \/ d = 0 \/ turns[d + 1].start < Last(turns).start - KeepFor

(* The changes kept are the last of those there were, which were stamped in*)
(* order.                                                                  *)
BarInv ==
  /\ stamp \in Nat /\ turns \in Seq(Turn)
  /\ \A i, j \in DOMAIN turns : i <= j => turns[i].start <= turns[j].start
  /\ \E d : Gone(d)

(* The end of the changes, the end of an end, and that both are suffixes.  *)
LEMMA Kept ==
  ASSUME NEW t \in Seq(Turn), NEW d \in 0..Len(t)
  PROVE  /\ SubSeq(t, d + 1, Len(t)) \in Seq(Turn)
         /\ Len(SubSeq(t, d + 1, Len(t))) = Len(t) - d
         /\ \A i \in 1..(Len(t) - d) : SubSeq(t, d + 1, Len(t))[i] = t[d + i]
<1> DEFINE n == Len(t)
<1>1. n \in Nat /\ d \in Nat /\ d <= n
  OBVIOUS
<1> HIDE DEF n
<1>2. SubSeq(t, d + 1, n) \in Seq(Turn) /\ Len(SubSeq(t, d + 1, n)) = n - d
  BY <1>1 DEF n
<1>3. ASSUME NEW i \in 1..(n - d) PROVE SubSeq(t, d + 1, n)[i] = t[d + i]
  BY <1>1, <1>3 DEF n
<1> QED BY <1>2, <1>3 DEF n

LEMMA LaterKept ==
  ASSUME NEW t \in Seq(Turn), NEW d \in 0..Len(t), NEW e \in 0..(Len(t) - d)
  PROVE  SubSeq(SubSeq(t, d + 1, Len(t)), e + 1, Len(t) - d) = SubSeq(t, d + e + 1, Len(t))
<1> DEFINE u == SubSeq(t, d + 1, Len(t))
           n == Len(t)
           v == SubSeq(u, e + 1, n - d)
           w == SubSeq(t, d + e + 1, n)
<1>1. n \in Nat /\ d \in Nat /\ e \in Nat /\ d + e <= n /\ d + e \in 0..n
  OBVIOUS
<1>2. u \in Seq(Turn) /\ Len(u) = n - d /\ \A i \in 1..(n - d) : u[i] = t[d + i]
  BY Kept
<1> HIDE DEF u
<1>3. v \in Seq(Turn) /\ Len(v) = n - d - e /\ \A i \in 1..(n - d - e) : v[i] = u[e + i]
  <2>1. e \in 0..Len(u) /\ Len(u) - e = n - d - e
    BY <1>1, <1>2
  <2> HIDE DEF n
  <2> QED BY <1>1, <1>2, <2>1, Kept
<1>4. w \in Seq(Turn) /\ Len(w) = n - (d + e) /\ \A i \in 1..(n - (d + e)) : w[i] = t[d + e + i]
  BY <1>1, Kept
<1> HIDE DEF v, w, n
<1>5. \A i \in 1..(n - d - e) : v[i] = w[i]
  <2> TAKE i \in 1..(n - d - e)
  <2>1. e + i \in 1..(n - d) /\ d + (e + i) = d + e + i /\ i \in 1..(n - (d + e))
    BY <1>1
  <2> QED BY <1>2, <1>3, <1>4, <2>1
<1>6. Len(v) = Len(w)
  BY <1>1, <1>3, <1>4
<1>7. v = w
  BY <1>1, <1>3, <1>4, <1>5, <1>6
<1> QED BY <1>7 DEF u, v, w, n

LEMMA SuffixIs ==
  ASSUME NEW t \in Seq(Turn), NEW d \in 0..Len(t)
  PROVE  IsSuffix(SubSeq(t, d + 1, Len(t)), t)
<1> DEFINE u == SubSeq(t, d + 1, Len(t))
           n == Len(t)
           r == Reverse(u)
           q == Reverse(t)
           m == n - d
<1>1. n \in Nat /\ d \in Nat /\ m \in Nat /\ m = n - d /\ n = Len(t) /\ d <= n /\ m <= n
  OBVIOUS
<1>2. u \in Seq(Turn) /\ Len(u) = m /\ \A i \in 1..m : u[i] = t[d + i]
  BY Kept
<1> HIDE DEF u, n, m
<1>3. r \in Seq(Turn) /\ Len(r) = m /\ \A i \in 1..m : r[i] = u[(m - i) + 1]
  <2>1. r = [i \in 1..m |-> u[(m - i) + 1]]
    BY <1>2 DEF Reverse
  <2>2. \A i \in 1..m : (m - i) + 1 \in 1..m
    BY <1>1
  <2>3. \A i \in 1..m : u[i] \in Turn
    BY <1>2
  <2> QED BY <1>1, <2>1, <2>2, <2>3
<1>4. q \in Seq(Turn) /\ Len(q) = n /\ \A i \in 1..n : q[i] = t[(n - i) + 1]
  <2>1. q = [i \in 1..n |-> t[(n - i) + 1]]
    BY <1>1 DEF Reverse
  <2>2. \A i \in 1..n : (n - i) + 1 \in 1..n
    BY <1>1
  <2>3. \A i \in 1..n : t[i] \in Turn
    BY <1>1
  <2> QED BY <1>1, <2>1, <2>2, <2>3
<1> HIDE DEF r, q
<1>5. \A i \in 1..m : r[i] = q[i]
  <2> TAKE i \in 1..m
  <2>1. (m - i) + 1 \in 1..m /\ d + ((m - i) + 1) = (n - i) + 1 /\ i \in 1..n
    BY <1>1
  <2> QED BY <1>2, <1>3, <1>4, <2>1
<1>6. SubSeq(r, 1, m) = SubSeq(q, 1, m)
  <2>1. SubSeq(r, 1, m) = [i \in 1..m |-> r[i]]
    BY <1>1, <1>3
  <2>2. SubSeq(q, 1, m) = [i \in 1..m |-> q[i]]
    BY <1>1, <1>4
  <2> QED BY <1>5, <2>1, <2>2
<1> QED BY <1>1, <1>3, <1>4, <1>6 DEF IsSuffix, IsPrefix, r, q, u, n

(* A change is stamped no earlier than the one before it, and those it     *)
(* drops are of the front.                                                 *)
LEMMA ServingKeepsBar ==
  ASSUME BarInv, NEW t \in Nat, NEW st \in {"primary", "secondary"}, SetServing(t, st)
  PROVE  BarInv'
<1>1. /\ turns \in Seq(Turn) /\ stamp' \in Nat
      /\ \A i, j \in DOMAIN turns : i <= j => turns[i].start <= turns[j].start
  BY DEF BarInv, SetServing
<1>2. PICK d : Gone(d)
  BY DEF BarInv
<1>3. KeepFor \in Nat /\ MaxChanges \in Nat /\ MaxChanges >= 1
  BY MetricAssumption
<1> DEFINE n == Len(turns)
<1>4. n \in Nat /\ d \in Nat /\ d <= n /\ (n > 0 => d < n) /\ DOMAIN turns = 1..n /\ d \in 0..n
      /\ (n = 0 <=> turns = <<>>)
  BY <1>1, <1>2 DEF Gone
<1>5. CASE UNCHANGED <<changes, turns, trimmed>>
  <2>1. Gone(d)'
    BY <1>2, <1>5 DEF Gone
  <2> QED BY <1>1, <1>5, <2>1 DEF BarInv
<1>6. CASE ~UNCHANGED <<changes, turns, trimmed>>
  <2> DEFINE at == IF changes = <<>> \/ t > Last(changes).start THEN t ELSE Last(changes).start
             x == [start |-> at, state |-> st]
             all == Append(changes, x)
             kept == DropUnreached(all, at)
             T == Append(turns, x)
  <2>1. /\ turns' = T /\ changes' = Capped(kept)
        /\ trimmed' = (trimmed \/ Len(kept) > MaxChanges)
    BY <1>6 DEF SetServing
  <2>2. /\ changes \in Seq(Turn) /\ Len(changes) = n - d /\ \A i \in 1..(n - d) : changes[i] = turns[d + i]
    BY <1>1, <1>2, <1>4, Kept DEF Gone
  <2>3. n > 0 => changes # <<>> /\ Last(changes) = turns[n]
    <3> SUFFICES ASSUME n > 0 PROVE changes # <<>> /\ Last(changes) = turns[n]
      OBVIOUS
    <3> HIDE DEF n
    <3>1. n - d \in 1..(n - d) /\ d + (n - d) = n
      BY <1>4
    <3>2. Len(changes) # 0
      BY <1>4, <2>2
    <3>3. changes # <<>>
      BY <3>2
    <3> QED BY <2>2, <3>1, <3>3 DEF Last
  <2>4. n = 0 => changes = <<>>
    <3> HIDE DEF n
    <3> QED BY <1>4, <2>2
  <2>5. at \in Nat /\ \A i \in 1..n : turns[i].start \in Nat /\ turns[i].start <= at
    <3>1. \A i \in 1..n : turns[i].start \in Nat
      <4>1. \A i \in 1..n : turns[i] \in Turn
        BY <1>1
      <4> QED BY <4>1 DEF Turn
    <3> HIDE DEF n
    <3>2. CASE n = 0
      BY <2>4, <3>2
    <3>3. CASE n > 0
      <4> DEFINE b == turns[n].start
      <4>1. b \in Nat /\ \A i \in 1..n : turns[i].start <= b
        BY <1>1, <1>4, <3>1, <3>3
      <4>2. at = IF t > b THEN t ELSE b
        BY <2>3, <3>3
      <4> HIDE DEF at, b
      <4>3. at \in Nat /\ at >= b
        BY <4>1, <4>2
      <4> QED BY <3>1, <4>1, <4>3
    <3> QED BY <1>4, <3>2, <3>3
  <2> HIDE DEF at
  <2>6. x \in Turn /\ x.start = at
    BY <2>5 DEF Turn
  <2> HIDE DEF x
  <2>7. /\ T \in Seq(Turn) /\ Len(T) = n + 1 /\ T[n + 1] = x
        /\ \A i \in 1..n : T[i] = turns[i]
    BY <1>1, <2>6
  <2>8. all = SubSeq(T, d + 1, n + 1)
    <3> DEFINE w == SubSeq(T, d + 1, n + 1)
    <3>1. w \in Seq(Turn) /\ Len(w) = n + 1 - d /\ \A i \in 1..(n + 1 - d) : w[i] = T[d + i]
      <4> HIDE DEF T, n
      <4>1. d \in 0..Len(T)
        BY <1>4, <2>7
      <4>2. /\ SubSeq(T, d + 1, Len(T)) \in Seq(Turn) /\ Len(SubSeq(T, d + 1, Len(T))) = Len(T) - d
            /\ \A i \in 1..(Len(T) - d) : SubSeq(T, d + 1, Len(T))[i] = T[d + i]
        BY <2>7, <4>1, Kept
      <4>3. Len(T) = n + 1 /\ Len(T) - d = n + 1 - d
        BY <1>4, <2>7
      <4> QED BY <4>2, <4>3, Zenon
    <3>2. all \in Seq(Turn) /\ Len(all) = n - d + 1 /\ all[n - d + 1] = x
          /\ \A i \in 1..(n - d) : all[i] = changes[i]
      <4> HIDE DEF n
      <4> QED BY <2>2, <2>6
    <3> HIDE DEF all, w, T, n
    <3>3. \A i \in 1..(n - d + 1) : all[i] = w[i]
      <4> TAKE i \in 1..(n - d + 1)
      <4>1. CASE i = n - d + 1
        <5>1. d + i = n + 1 /\ i \in 1..(n + 1 - d)
          BY <1>4, <4>1
        <5> QED BY <2>7, <3>1, <3>2, <4>1, <5>1
      <4>2. CASE i # n - d + 1
        <5>1. i \in 1..(n - d) /\ d + i \in 1..n /\ i \in 1..(n + 1 - d)
          BY <1>4, <4>2
        <5> QED BY <2>2, <2>7, <3>1, <3>2, <5>1
      <4> QED BY <4>1, <4>2
    <3>4. Len(all) = Len(w) /\ Len(all) = n - d + 1
      BY <1>4, <3>1, <3>2
    <3>5. all = w
      BY <3>1, <3>2, <3>3, <3>4
    <3> QED BY <3>5 DEF w
  <2> DEFINE m == n + 1 - d
  <2>9. m \in Nat /\ m >= 1 /\ Len(all) = m /\ all \in Seq(Turn) /\ \A i \in 1..m : all[i] = T[d + i]
    <3> HIDE DEF T, n, all
    <3>1. d \in 0..Len(T)
      BY <1>4, <2>7
    <3> QED BY <1>4, <2>7, <2>8, <3>1, Kept
  <2> DEFINE S == {i \in DOMAIN all : i = 1 \/ all[i].start < at - KeepFor}
             k == Max(S)
  <2>10. kept = SubSeq(all, k, m)
    BY <2>9 DEF DropUnreached
  <2> HIDE DEF all, m, kept, T, n
  <2>11. k \in 1..m /\ (k = 1 \/ all[k].start < at - KeepFor)
    <3>1. DOMAIN all = 1..m
      BY <2>9
    <3>2. S \in SUBSET (0..m) /\ 1 \in S
      BY <2>9, <3>1
    <3> HIDE DEF S
    <3>3. k \in S
      BY <2>9, <3>2, GreatestIs
    <3> QED BY <3>1, <3>3 DEF S
  <2> HIDE DEF k
  <2> DEFINE d2 == d + (k - 1)
  <2>12. d2 \in Nat /\ d2 <= n /\ kept = SubSeq(T, d2 + 1, n + 1)
    <3>1. d2 \in Nat /\ d2 <= n
      BY <1>4, <2>11 DEF m
    <3>2. k - 1 \in 0..(Len(T) - d) /\ d \in 0..Len(T)
      BY <1>4, <2>7, <2>11 DEF m
    <3>3. (k - 1) + 1 = k /\ d + (k - 1) + 1 = d2 + 1 /\ Len(T) - d = m /\ Len(T) = n + 1
      BY <1>4, <2>7, <2>11 DEF m
    <3>4. SubSeq(SubSeq(T, d + 1, Len(T)), (k - 1) + 1, Len(T) - d) = SubSeq(T, d + (k - 1) + 1, Len(T))
      BY <2>7, <3>2, LaterKept
    <3> HIDE DEF d2
    <3> QED BY <2>8, <2>10, <3>1, <3>3, <3>4
  <2>13. trimmed \/ d2 = 0 \/ T[d2 + 1].start < at - KeepFor
    <3>1. CASE k = 1
      <4>1. d2 = d
        BY <1>4, <3>1
      <4>2. CASE d > 0 /\ ~trimmed
        <5>1. turns[d + 1].start < Last(turns).start - KeepFor /\ n > 0 /\ d + 1 \in 1..n /\ n \in 1..n
          BY <1>2, <1>4, <4>2 DEF Gone
        <5>2. turns[d + 1].start \in Nat /\ turns[n].start \in Nat /\ turns[n].start <= at
          BY <2>5, <5>1
        <5>3. Last(turns) = turns[n]
          BY DEF Last, n
        <5>4. turns[d + 1].start < at - KeepFor
          BY <1>3, <2>5, <5>1, <5>2, <5>3
        <5> QED BY <2>7, <4>1, <5>1, <5>4
      <4> QED BY <1>4, <4>1, <4>2
    <3>2. CASE k # 1
      <4>1. d + k = d2 + 1
        BY <1>4, <2>11
      <4> QED BY <2>9, <2>11, <3>2, <4>1
    <3> QED BY <3>1, <3>2
  <2> HIDE DEF d2
  <2>14. kept \in Seq(Turn) /\ Len(kept) = n + 1 - d2
    <3>1. d2 \in 0..Len(T)
      BY <1>4, <2>7, <2>12
    <3>2. SubSeq(T, d2 + 1, Len(T)) \in Seq(Turn) /\ Len(SubSeq(T, d2 + 1, Len(T))) = Len(T) - d2
      BY <2>7, <3>1, Kept
    <3>3. Len(T) = n + 1 /\ kept = SubSeq(T, d2 + 1, n + 1) /\ Len(T) - d2 = n + 1 - d2
      BY <1>4, <2>7, <2>12
    <3> QED BY <3>2, <3>3, Zenon
  <2> DEFINE d3 == IF Len(kept) > MaxChanges THEN n + 1 - MaxChanges ELSE d2
  <2>15. d3 \in Nat /\ d3 <= n /\ d2 <= d3 /\ changes' = SubSeq(T, d3 + 1, n + 1)
    <3>1. CASE Len(kept) > MaxChanges
      <4> DEFINE e == n + 1 - d2 - MaxChanges
      <4>1. d3 = n + 1 - MaxChanges
        BY <3>1
      <4> HIDE DEF d3
      <4>2. d3 \in Nat /\ d3 <= n /\ d2 <= d3 /\ e \in 0..(Len(T) - d2) /\ d2 + e + 1 = d3 + 1 /\ d2 \in 0..Len(T)
        BY <1>3, <1>4, <2>7, <2>12, <2>14, <3>1, <4>1
      <4>3. changes' = SubSeq(kept, e + 1, Len(kept)) /\ Len(kept) = Len(T) - d2
        <5>1. changes' = SubSeq(kept, Len(kept) - MaxChanges + 1, Len(kept))
          BY <2>1, <3>1 DEF Capped
        <5>2. Len(kept) - MaxChanges + 1 = e + 1 /\ Len(kept) = Len(T) - d2
          BY <1>3, <1>4, <2>7, <2>12, <2>14
        <5> QED BY <5>1, <5>2
      <4> HIDE DEF e
      <4>4. SubSeq(SubSeq(T, d2 + 1, Len(T)), e + 1, Len(T) - d2) = SubSeq(T, d2 + e + 1, Len(T))
        BY <2>7, <4>2, LaterKept
      <4> QED BY <2>7, <2>12, <4>2, <4>3, <4>4
    <3>2. CASE ~(Len(kept) > MaxChanges)
      <4>1. d3 = d2 /\ changes' = kept
        BY <2>1, <3>2 DEF Capped
      <4> HIDE DEF d3
      <4> QED BY <2>12, <4>1
    <3> QED BY <3>1, <3>2
  <2>16. trimmed' \/ d3 = 0 \/ T[d3 + 1].start < at - KeepFor
    <3>1. CASE Len(kept) > MaxChanges
      BY <2>1, <3>1
    <3>2. CASE ~(Len(kept) > MaxChanges)
      <4>1. d3 = d2 /\ (trimmed => trimmed')
        BY <2>1, <3>2
      <4> QED BY <2>13, <4>1
    <3> QED BY <3>1, <3>2
  <2> HIDE DEF d3
  <2>17. \E z : Gone(z)'
    <3>1. PICK z : z = d3
      OBVIOUS
    <3>2. Len(turns') = n + 1 /\ Last(turns') = x /\ z \in 0..(n + 1) /\ z < n + 1
      BY <1>4, <2>1, <2>7, <2>15, <3>1 DEF Last
    <3>3. changes' = SubSeq(turns', z + 1, Len(turns'))
      BY <2>1, <2>15, <3>1, <3>2
    <3>4. trimmed' \/ z = 0 \/ turns'[z + 1].start < Last(turns').start - KeepFor
      BY <2>1, <2>6, <2>16, <3>1, <3>2
    <3>5. Gone(z)'
      BY <3>2, <3>3, <3>4 DEF Gone
    <3> QED BY <3>5
  <2>18. \A i, j \in DOMAIN turns' : i <= j => turns'[i].start <= turns'[j].start
    <3> SUFFICES ASSUME NEW i \in 1..(n + 1), NEW j \in 1..(n + 1), i <= j PROVE T[i].start <= T[j].start
      BY <1>4, <2>1, <2>7
    <3>1. CASE j # n + 1
      <4>1. i \in 1..n /\ j \in 1..n
        BY <1>4, <3>1
      <4> QED BY <1>1, <1>4, <2>7, <4>1
    <3>2. CASE j = n + 1 /\ i # n + 1
      <4>1. i \in 1..n
        BY <1>4, <3>2
      <4> QED BY <2>5, <2>6, <2>7, <3>2, <4>1
    <3>3. CASE j = n + 1 /\ i = n + 1
      BY <2>5, <2>6, <2>7, <3>3
    <3> QED BY <3>1, <3>2, <3>3
  <2> QED BY <1>1, <2>1, <2>7, <2>17, <2>18 DEF BarInv
<1> QED BY <1>5, <1>6

(* A bar that begins within what is kept finds the change in effect there. *)
LEMMA BarInvTells == BarInv => BarTells
<1> SUFFICES ASSUME BarInv, changes # <<>>, NEW from \in 0..MaxStamp
             PROVE  LET shown == Since(changes, from)
                        then  == {i \in DOMAIN turns : turns[i].start <= from}
                        entire == IF then = {} THEN turns ELSE SubSeq(turns, Max(then), Len(turns))
                    IN /\ IsSuffix(shown, turns)
                       /\ ~trimmed /\ from >= Last(turns).start - KeepFor => IsSuffix(entire, shown)
  BY DEF BarTells
<1>1. /\ turns \in Seq(Turn) /\ MaxStamp \in Nat /\ from \in Nat /\ KeepFor \in Nat
      /\ \A i, j \in DOMAIN turns : i <= j => turns[i].start <= turns[j].start
  BY MetricAssumption DEF BarInv
<1>2. PICK d : Gone(d)
  BY DEF BarInv
<1> DEFINE n == Len(turns)
           shown == Since(changes, from)
           then  == {i \in DOMAIN turns : turns[i].start <= from}
           entire == IF then = {} THEN turns ELSE SubSeq(turns, Max(then), Len(turns))
           Seen(i) == \/ changes[i].start >= from
                      \/ i < Len(changes) /\ changes[i + 1].start > from
                      \/ i = Len(changes)
           S == {i \in DOMAIN changes : Seen(i)}
           f == Min(S)
<1>3. /\ n \in Nat /\ n > 0 /\ d \in Nat /\ d < n /\ DOMAIN turns = 1..n /\ d \in 0..n
      /\ changes = SubSeq(turns, d + 1, n)
  <2>1. changes = SubSeq(turns, d + 1, n) /\ d \in 0..n /\ n \in Nat /\ DOMAIN turns = 1..n
    BY <1>1, <1>2 DEF Gone
  <2>2. turns # <<>>
    <3> SUFFICES ASSUME turns = <<>> PROVE FALSE
      OBVIOUS
    <3>1. n = 0 /\ d = 0
      BY <2>1
    <3>2. Len(changes) = 0 /\ changes \in Seq(Turn)
      BY <1>1, <2>1, <3>1, Kept
    <3> QED BY <3>2
  <2> QED BY <1>1, <1>2, <2>1, <2>2 DEF Gone
<1>4. changes \in Seq(Turn) /\ Len(changes) = n - d /\ \A i \in 1..(n - d) : changes[i] = turns[d + i]
  BY <1>1, <1>3, Kept
<1>5. \A i \in 1..n : turns[i].start \in Nat
  <2>1. \A i \in 1..n : turns[i] \in Turn
    BY <1>1
  <2> QED BY <2>1 DEF Turn
<1>6. shown = SubSeq(changes, f, n - d)
  BY <1>4 DEF Since
<1> HIDE DEF n, shown
<1>7. DOMAIN changes = 1..(n - d)
  BY <1>3, <1>4
<1>8. n - d \in S /\ S \in SUBSET Nat
  BY <1>3, <1>4, <1>7
<1> HIDE DEF S
<1>9. f \in S /\ \A i \in S : f <= i
  BY <1>8, LeastIs
<1>10. f \in 1..(n - d)
  BY <1>7, <1>9 DEF S
<1> HIDE DEF f
<1> DEFINE d2 == d + (f - 1)
<1>11. d2 \in 0..n /\ d2 < n /\ shown = SubSeq(turns, d2 + 1, n)
  <2>1. f - 1 \in 0..(n - d) /\ (f - 1) + 1 = f /\ d + (f - 1) + 1 = d2 + 1 /\ d2 \in 0..n /\ d2 < n
    BY <1>3, <1>10
  <2>2. SubSeq(SubSeq(turns, d + 1, n), (f - 1) + 1, n - d) = SubSeq(turns, d + (f - 1) + 1, n)
    <3>1. f - 1 \in 0..(Len(turns) - d) /\ d \in 0..Len(turns)
      BY <1>3, <2>1 DEF n
    <3> QED BY <1>1, <3>1, LaterKept DEF n
  <2> HIDE DEF d2
  <2> QED BY <1>3, <1>6, <2>1, <2>2
<1>12. IsSuffix(shown, turns)
  <2> HIDE DEF d2
  <2>1. d2 \in 0..Len(turns)
    BY <1>11 DEF n
  <2> QED BY <1>1, <1>11, <2>1, SuffixIs DEF n
<1>13. ASSUME ~trimmed, from >= Last(turns).start - KeepFor
       PROVE  IsSuffix(entire, shown)
  <2>1. d = 0 \/ turns[d + 1].start < from
    <3> SUFFICES ASSUME d # 0 PROVE turns[d + 1].start < from
      OBVIOUS
    <3>1. turns[d + 1].start < turns[n].start - KeepFor /\ from >= turns[n].start - KeepFor
      BY <1>2, <1>13 DEF Gone, Last, n
    <3>2. d + 1 \in 1..n /\ n \in 1..n
      BY <1>3
    <3>3. turns[d + 1].start \in Nat /\ turns[n].start \in Nat
      BY <1>5, <3>2
    <3> QED BY <1>1, <3>1, <3>3
  <2>2. CASE then = {}
    <3>1. d = 0
      <4> SUFFICES ASSUME d # 0 PROVE FALSE
        OBVIOUS
      <4>1. d + 1 \in 1..n
        BY <1>3
      <4>2. turns[d + 1].start \in Nat /\ turns[d + 1].start < from
        BY <1>5, <2>1, <4>1
      <4>3. d + 1 \in then
        BY <1>1, <1>3, <4>1, <4>2
      <4> QED BY <2>2, <4>3
    <3>2. 1 \in DOMAIN changes /\ changes[1] = turns[1] /\ 1 \in 1..n
      BY <1>3, <1>4, <1>7, <3>1
    <3>3. changes[1].start >= from
      BY <1>1, <1>3, <1>5, <2>2, <3>2
    <3>4. 1 \in S
      BY <3>2, <3>3 DEF S
    <3>5. f = 1 /\ d2 = 0
      BY <1>9, <1>10, <3>1, <3>4
    <3>6. shown = SubSeq(turns, 0 + 1, n) /\ entire = turns
      BY <1>11, <2>2, <3>5
    <3>7. shown = turns
      BY <1>1, <1>3, <3>6 DEF n
    <3>8. SubSeq(turns, 0 + 1, Len(turns)) = turns /\ 0 \in 0..Len(turns)
      BY <1>1, <1>3, <3>6, <3>7 DEF n
    <3>9. IsSuffix(SubSeq(turns, 0 + 1, Len(turns)), turns)
      BY <1>1, <3>8, SuffixIs
    <3> QED BY <3>6, <3>7, <3>8, <3>9
  <2>3. CASE then # {}
    <3> DEFINE m == Max(then)
    <3>1. then \in SUBSET (0..n)
      BY <1>3
    <3>2. entire = SubSeq(turns, m, n)
      BY <2>3 DEF n
    <3> HIDE DEF then
    <3>3. m \in then /\ \A i \in then : m >= i
      BY <1>3, <2>3, <3>1, GreatestIs
    <3> HIDE DEF m
    <3>4. m \in 1..n /\ turns[m].start <= from
      BY <1>3, <3>3 DEF then
    <3>5. m < n => turns[m + 1].start > from
      <4> SUFFICES ASSUME m < n, ~(turns[m + 1].start > from) PROVE FALSE
        OBVIOUS
      <4>1. m + 1 \in 1..n
        BY <1>3, <3>4
      <4>2. m + 1 \in then
        BY <1>1, <1>3, <1>5, <4>1 DEF then
      <4> QED BY <3>3, <3>4, <4>2
    <3>6. d + 1 <= m
      <4>1. CASE d = 0
        BY <3>4, <4>1
      <4>2. CASE d # 0
        <5>1. d + 1 \in 1..n
          BY <1>3
        <5>2. turns[d + 1].start \in Nat /\ turns[d + 1].start < from
          BY <1>5, <2>1, <4>2, <5>1
        <5>3. d + 1 \in then
          BY <1>1, <1>3, <5>1, <5>2 DEF then
        <5> QED BY <1>3, <3>3, <3>4, <5>3
      <4> QED BY <4>1, <4>2
    <3>7. m - d \in S
      <4>1. m - d \in 1..(n - d) /\ d + (m - d) = m /\ d + (m - d + 1) = m + 1
        BY <1>3, <3>4, <3>6
      <4>2. CASE m = n
        BY <1>4, <1>7, <4>1, <4>2 DEF S
      <4>3. CASE m # n
        <5>1. m < n /\ m - d < n - d /\ m - d + 1 \in 1..(n - d)
          BY <1>3, <3>4, <4>1, <4>3
        <5>2. changes[m - d + 1].start > from
          BY <1>4, <3>5, <4>1, <5>1
        <5> QED BY <1>4, <1>7, <4>1, <5>1, <5>2 DEF S
      <4> QED BY <4>2, <4>3
    <3>8. d2 + 1 <= m
      BY <1>3, <1>9, <1>10, <3>4, <3>7
    <3> DEFINE e == m - 1 - d2
    <3>9. e \in 0..(n - d2) /\ d2 + e + 1 = m
      BY <1>3, <1>11, <3>4, <3>8
    <3> HIDE DEF e, d2
    <3>10. entire = SubSeq(shown, e + 1, n - d2) /\ shown \in Seq(Turn) /\ Len(shown) = n - d2
      <4>1. d2 \in 0..Len(turns) /\ e \in 0..(Len(turns) - d2)
        BY <1>11, <3>9 DEF n
      <4>2. SubSeq(SubSeq(turns, d2 + 1, Len(turns)), e + 1, Len(turns) - d2) = SubSeq(turns, d2 + e + 1, Len(turns))
        BY <1>1, <4>1, LaterKept
      <4>3. shown \in Seq(Turn) /\ Len(shown) = n - d2
        BY <1>1, <1>11, <4>1, Kept DEF n
      <4> HIDE DEF entire
      <4> QED BY <1>11, <3>2, <3>9, <4>2, <4>3 DEF n
    <3>11. e \in 0..Len(shown)
      BY <3>9, <3>10
    <3> HIDE DEF entire
    <3> QED BY <3>10, <3>11, SuffixIs
  <2> QED BY <2>2, <2>3
<1> QED BY <1>12, <1>13 DEF shown, n

(* Of the subsets of a finite set that lack a property, one lacks it with  *)
(* none of its own members removed: an induction over finite sets.         *)
LEMMA SmallestSubset ==
  ASSUME NEW S, IsFiniteSet(S), NEW B \in SUBSET SUBSET S, B # {}
  PROVE  \E s \in B : IsFiniteSet(s) /\ \A x \in s : s \ {x} \notin B
<1>1. \A s \in B : IsFiniteSet(s) /\ Cardinality(s) \in Nat
  BY FS_Subset, FS_CardinalityType
<1> DEFINE T == {Cardinality(s) : s \in B}
<1>2. T \in SUBSET Nat /\ T # {}
  BY <1>1
<1>3. PICK n \in T : \A m \in T : n <= m
  BY <1>2, NatMin
<1>4. PICK s \in B : n = Cardinality(s)
  BY <1>3
<1>5. ASSUME NEW x \in s PROVE s \ {x} \notin B
  <2>1. Cardinality(s \ {x}) = Cardinality(s) - 1
    BY <1>1, <1>4, FS_RemoveElement
  <2>2. ASSUME s \ {x} \in B PROVE FALSE
    <3>1. n <= Cardinality(s \ {x})
      BY <1>3, <2>2
    <3> QED BY <1>1, <1>4, <2>1, <3>1
  <2> QED BY <2>2
<1> QED BY <1>1, <1>4, <1>5

(* A sum over a set is taken one element at a time.                        *)
AnyOf(s) == CHOOSE x \in s : TRUE
Others(s) == s \ {AnyOf(s)}
SumOf(g, f, s) == IF s = {} THEN 0 ELSE f[AnyOf(s)] + g[Others(s)]

(* The element taken is of the set, and so are the others.                 *)
LEMMA AnyAndOthers ==
  ASSUME NEW S, NEW s \in SUBSET S, s # {}
  PROVE  AnyOf(s) \in s /\ AnyOf(s) \in S /\ Others(s) \in SUBSET S /\ Others(s) = s \ {AnyOf(s)}
<1>1. AnyOf(s) \in s
  BY DEF AnyOf
<1> QED BY <1>1 DEF Others

(* The recursion has a solution, so the choice that defines the fold makes *)
(* one.                                                                    *)
LEMMA SumExists ==
  ASSUME NEW S, IsFiniteSet(S), NEW f \in [S -> Int]
  PROVE  \E g \in [SUBSET S -> Int] : \A s \in SUBSET S : g[s] = SumOf(g, f, s)
<1> DEFINE W(n) == {s \in SUBSET S : Cardinality(s) <= n}
           Good(n, g) == g \in [W(n) -> Int] /\ \A s \in W(n) : g[s] = SumOf(g, f, s)
           Bad == {n \in Nat : ~\E g : Good(n, g)}
<1>1. \A s \in SUBSET S : IsFiniteSet(s) /\ Cardinality(s) \in Nat /\ (Cardinality(s) = 0 <=> s = {})
  BY FS_Subset, FS_CardinalityType, FS_EmptySet
<1>2. \A s \in SUBSET S : s # {} => Cardinality(Others(s)) = Cardinality(s) - 1
  <2> SUFFICES ASSUME NEW s \in SUBSET S, s # {} PROVE Cardinality(Others(s)) = Cardinality(s) - 1
    OBVIOUS
  <2>1. AnyOf(s) \in s /\ Others(s) = s \ {AnyOf(s)} /\ IsFiniteSet(s)
    BY <1>1, AnyAndOthers
  <2> QED BY <2>1, FS_RemoveElement
<1>3. \E g : Good(0, g)
  <2> DEFINE g == [s \in W(0) |-> 0]
  <2>1. g \in [W(0) -> Int]
    OBVIOUS
  <2>2. ASSUME NEW s \in W(0) PROVE g[s] = SumOf(g, f, s)
    <3>1. s = {}
      BY <1>1
    <3> QED BY <3>1 DEF SumOf
  <2>3. Good(0, g)
    BY <2>1, <2>2
  <2> QED BY <2>3
<1>4. ASSUME NEW n \in Nat, \E g : Good(n, g) PROVE \E g : Good(n + 1, g)
  <2>1. PICK h : Good(n, h)
    BY <1>4
  <2> DEFINE g == [s \in W(n + 1) |-> SumOf(h, f, s)]
  <2>2. ASSUME NEW s \in W(n + 1), s # {}
        PROVE  Others(s) \in W(n) /\ AnyOf(s) \in S
    <3>1. AnyOf(s) \in S /\ Others(s) \in SUBSET S /\ s \in SUBSET S
      BY <2>2, AnyAndOthers
    <3>2. Cardinality(Others(s)) = Cardinality(s) - 1 /\ Cardinality(s) \in Nat /\ Cardinality(s) <= n + 1
      BY <1>1, <1>2, <2>2
    <3>3. Cardinality(Others(s)) \in Nat
      BY <1>1, <3>1
    <3> QED BY <3>1, <3>2, <3>3
  <2>3. ASSUME NEW s \in W(n + 1) PROVE SumOf(h, f, s) \in Int
    <3>1. CASE s = {}
      BY <3>1 DEF SumOf
    <3>2. CASE s # {}
      <4>1. h[Others(s)] \in Int /\ f[AnyOf(s)] \in Int
        BY <2>1, <2>2, <3>2
      <4> QED BY <3>2, <4>1 DEF SumOf
    <3> QED BY <3>1, <3>2
  <2>4. ASSUME NEW s \in W(n) PROVE s \in W(n + 1) /\ g[s] = h[s]
    <3>1. s \in W(n + 1)
      BY <1>1
    <3> QED BY <3>1, <2>1
  <2>5. ASSUME NEW s \in W(n + 1) PROVE g[s] = SumOf(g, f, s)
    <3>1. CASE s = {}
      BY <3>1 DEF SumOf
    <3>2. CASE s # {}
      <4>1. g[Others(s)] = h[Others(s)]
        BY <2>2, <2>4, <3>2
      <4> QED BY <4>1, <3>2 DEF SumOf
    <3> QED BY <3>1, <3>2
  <2>6. g \in [W(n + 1) -> Int]
    BY <2>3
  <2> HIDE DEF g
  <2> QED BY <2>5, <2>6
<1> HIDE DEF Good
<1>5. Bad = {}
  <2> SUFFICES ASSUME Bad # {} PROVE FALSE
    OBVIOUS
  <2>1. PICK n \in Bad : \A m \in Bad : n <= m
    BY NatMin
  <2>2. n # 0
    BY <1>3, <2>1
  <2>3. n - 1 \in Nat /\ n - 1 \notin Bad /\ (n - 1) + 1 = n
    BY <2>1, <2>2
  <2>4. \E g : Good(n - 1, g)
    BY <2>3
  <2>5. \E g : Good((n - 1) + 1, g)
    BY <1>4, <2>3, <2>4
  <2> QED BY <2>1, <2>3, <2>5
<1>6. Cardinality(S) \in Nat
  BY FS_CardinalityType
<1>7. PICK g : Good(Cardinality(S), g)
  BY <1>5, <1>6
<1>8. W(Cardinality(S)) = SUBSET S
  BY FS_Subset, <1>1, <1>6
<1> QED BY <1>7, <1>8 DEF Good

(* A sum over a finite set obeys the recursion.                            *)
LEMMA SumRec ==
  ASSUME NEW S, IsFiniteSet(S), NEW f \in [S -> Int]
  PROVE  \E g \in [SUBSET S -> Int] :
           g[S] = SumFunction(f) /\ \A s \in SUBSET S : g[s] = SumOf(g, f, s)
<1> DEFINE Def(h) == [s \in SUBSET S |-> IF s = {} THEN 0
                          ELSE f[CHOOSE x \in s : TRUE] + h[s \ {CHOOSE x \in s : TRUE}]]
           iter == CHOOSE h : h = Def(h)
<1>1. DOMAIN f = S
  OBVIOUS
<1>2. SumFunction(f) = iter[S]
  BY <1>1 DEF SumFunction, SumFunctionOnSet, FoldFunctionOnSet, MapThenFoldSet
<1>3. PICK g \in [SUBSET S -> Int] : \A s \in SUBSET S : g[s] = SumOf(g, f, s)
  BY SumExists
<1>4. g = Def(g)
  BY <1>3 DEF SumOf, AnyOf, Others
<1>5. iter = Def(iter)
  BY <1>4
<1> HIDE DEF iter
<1>6. iter = [s \in SUBSET S |-> iter[s]]
  BY <1>5
<1>7. \A s \in SUBSET S : iter[s] = SumOf(iter, f, s)
  BY <1>5 DEF SumOf, AnyOf, Others
<1>8. \A s \in SUBSET S : iter[s] \in Int
  <2> DEFINE B == {s \in SUBSET S : iter[s] \notin Int}
  <2> SUFFICES ASSUME B # {} PROVE FALSE
    OBVIOUS
  <2>1. B \in SUBSET SUBSET S
    OBVIOUS
  <2>2. PICK s \in B : \A x \in s : s \ {x} \notin B
    BY <2>1, SmallestSubset
  <2>3. s \in SUBSET S /\ iter[s] \notin Int /\ iter[s] = SumOf(iter, f, s)
    BY <1>7, <2>2
  <2>4. s # {}
    BY <2>3 DEF SumOf
  <2>5. AnyOf(s) \in s /\ AnyOf(s) \in S /\ Others(s) \in SUBSET S /\ Others(s) = s \ {AnyOf(s)}
    BY <2>3, <2>4, AnyAndOthers
  <2>6. Others(s) \notin B
    BY <2>2, <2>5
  <2>7. iter[Others(s)] \in Int /\ f[AnyOf(s)] \in Int
    BY <2>5, <2>6
  <2> QED BY <2>3, <2>4, <2>7 DEF SumOf
<1> QED BY <1>2, <1>6, <1>7, <1>8

(* A function that obeys the recursion, and one from which any element may *)
(* be taken first.                                                         *)
SumsUp(g, f, S) == g \in [SUBSET S -> Int] /\ \A s \in SUBSET S : g[s] = SumOf(g, f, s)
TakesOut(g, f, S) == \A s \in SUBSET S : \A x \in s : g[s] = f[x] + g[s \ {x}]

(* The order in which a sum takes its elements does not matter.            *)
LEMMA SumTakesOut ==
  ASSUME NEW S, IsFiniteSet(S), NEW f \in [S -> Int], NEW g, SumsUp(g, f, S)
  PROVE  TakesOut(g, f, S)
<1> USE DEF SumsUp, TakesOut
<1> DEFINE B == {s \in SUBSET S : ~\A x \in s : g[s] = f[x] + g[s \ {x}]}
<1> SUFFICES ASSUME B # {} PROVE FALSE
  OBVIOUS
<1>1. PICK s \in B : \A x \in s : s \ {x} \notin B
  <2>1. B \in SUBSET SUBSET S
    OBVIOUS
  <2> QED BY <2>1, SmallestSubset
<1>2. PICK x \in s : g[s] # f[x] + g[s \ {x}]
  BY <1>1
<1>3. s \in SUBSET S /\ s # {}
  BY <1>1, <1>2
<1> DEFINE a == AnyOf(s)
<1>4. a \in s /\ g[s] = f[a] + g[s \ {a}]
  <2>1. a \in s /\ Others(s) = s \ {a}
    BY <1>3, AnyAndOthers
  <2> QED BY <1>3, <2>1 DEF SumOf
<1> HIDE DEF a
<1>5. a # x
  BY <1>2, <1>4
<1>6. g[s \ {a}] = f[x] + g[(s \ {a}) \ {x}]
  <2>1. s \ {a} \notin B /\ s \ {a} \in SUBSET S /\ x \in s \ {a}
    BY <1>1, <1>3, <1>4, <1>5
  <2> QED BY <2>1
<1>7. g[s \ {x}] = f[a] + g[(s \ {x}) \ {a}]
  <2>1. s \ {x} \notin B /\ s \ {x} \in SUBSET S /\ a \in s \ {x}
    BY <1>1, <1>3, <1>4, <1>5
  <2> QED BY <2>1
<1>8. (s \ {a}) \ {x} = (s \ {x}) \ {a}
  OBVIOUS
<1>9. (s \ {x}) \ {a} \in SUBSET S /\ a \in S /\ x \in S
  BY <1>3, <1>4
<1>10. f[a] \in Int /\ f[x] \in Int /\ g[(s \ {x}) \ {a}] \in Int
  BY <1>9
<1> HIDE DEF B
<1>11. g[s] = f[a] + (f[x] + g[(s \ {x}) \ {a}]) /\ g[s] # f[x] + (f[a] + g[(s \ {x}) \ {a}])
  BY <1>2, <1>4, <1>6, <1>7, <1>8, Zenon
<1> DEFINE u == f[a]
           v == f[x]
           w == g[(s \ {x}) \ {a}]
           y == g[s]
<1>12. u \in Int /\ v \in Int /\ w \in Int /\ y = u + (v + w) /\ y # v + (u + w)
  BY <1>10, <1>11
<1> HIDE DEF u, v, w, y
<1> QED BY <1>12

(* A sum is that of all but one of its terms, and that one.                *)
LEMMA SumAdds ==
  ASSUME NEW S, IsFiniteSet(S), NEW f \in [S -> Int], NEW x \in S
  PROVE  SumFunction(f) = SumFunction([y \in S \ {x} |-> f[y]]) + f[x] /\ SumFunction(f) \in Int
<1> DEFINE T == S \ {x}
           h == [y \in T |-> f[y]]
<1>1. IsFiniteSet(T) /\ h \in [T -> Int] /\ T \in SUBSET S /\ S \in SUBSET S /\ T \in SUBSET T
  BY FS_Subset
<1>2. PICK g \in [SUBSET S -> Int] :
        g[S] = SumFunction(f) /\ \A s \in SUBSET S : g[s] = SumOf(g, f, s)
  BY SumRec
<1> HIDE DEF T, h
<1>3. PICK k \in [SUBSET T -> Int] :
        k[T] = SumFunction(h) /\ \A s \in SUBSET T : k[s] = SumOf(k, h, s)
  BY <1>1, SumRec
<1>4. g[S] = f[x] + g[T]
  <2>1. SumsUp(g, f, S)
    BY <1>2 DEF SumsUp
  <2>2. TakesOut(g, f, S)
    BY <2>1, SumTakesOut
  <2> QED BY <1>1, <2>2 DEF T, TakesOut
<1>5. \A s \in SUBSET T : k[s] = g[s]
  <2> DEFINE B == {s \in SUBSET T : k[s] # g[s]}
  <2> SUFFICES ASSUME B # {} PROVE FALSE
    OBVIOUS
  <2>1. PICK s \in B : \A y \in s : s \ {y} \notin B
    <3>1. B \in SUBSET SUBSET T
      OBVIOUS
    <3> HIDE DEF B
    <3>2. \E s \in B : IsFiniteSet(s) /\ \A y \in s : s \ {y} \notin B
      BY <1>1, <3>1, SmallestSubset
    <3> QED BY <3>2
  <2>2. s \in SUBSET T /\ s \in SUBSET S /\ k[s] # g[s]
    BY <1>1, <2>1
  <2>3. k[s] = SumOf(k, h, s) /\ g[s] = SumOf(g, f, s)
    BY <1>2, <1>3, <2>2
  <2>4. s # {}
    BY <2>2, <2>3 DEF SumOf
  <2>5. AnyOf(s) \in s /\ AnyOf(s) \in T /\ Others(s) \in SUBSET T /\ Others(s) = s \ {AnyOf(s)}
    BY <2>2, <2>4, AnyAndOthers
  <2>6. Others(s) \notin B
    BY <2>1, <2>5
  <2>7. k[Others(s)] = g[Others(s)] /\ h[AnyOf(s)] = f[AnyOf(s)]
    BY <2>5, <2>6 DEF h
  <2> QED BY <2>2, <2>3, <2>4, <2>7 DEF SumOf
<1>6. SumFunction(h) = g[T] /\ g[T] \in Int /\ f[x] \in Int
  BY <1>1, <1>2, <1>3, <1>5
<1>7. f[x] + g[T] = g[T] + f[x] /\ f[x] + g[T] \in Int
  BY <1>6
<1> QED BY <1>2, <1>4, <1>6, <1>7 DEF h, T

LEMMA SumOfOne ==
  ASSUME NEW x, NEW f \in [{x} -> Int]
  PROVE  SumFunction(f) = f[x]
<1> DEFINE h == [y \in {x} \ {x} |-> f[y]]
<1>1. SumFunction(f) = SumFunction(h) + f[x]
  <2>1. IsFiniteSet({x}) /\ x \in {x}
    BY FS_Singleton
  <2> HIDE DEF h
  <2> QED BY <2>1, SumAdds DEF h
<1>2. SumFunction(h) = 0
  <2>1. h \in [{} -> Int] /\ IsFiniteSet({})
    BY FS_EmptySet
  <2> HIDE DEF h
  <2>2. PICK g \in [SUBSET {} -> Int] :
          g[{}] = SumFunction(h) /\ \A s \in SUBSET {} : g[s] = SumOf(g, h, s)
    BY <2>1, SumRec
  <2>3. g[{}] = SumOf(g, h, {})
    BY <2>2
  <2> QED BY <2>2, <2>3 DEF SumOf
<1>3. f[x] \in Int
  OBVIOUS
<1> HIDE DEF h
<1> QED BY <1>1, <1>2, <1>3

(* A sample of a series, and where it falls in time.                       *)
Smp == [id : SeriesIds, at : 0..MaxStamp, value : {0, 1}]

LEMMA BucketIs ==
  ASSUME NEW t \in Nat
  PROVE  /\ t \div BucketWidth \in Nat /\ Bucket(t) = (t \div BucketWidth) * BucketWidth
         /\ Bucket(t) \in Nat /\ Bucket(t) <= t /\ t < Bucket(t) + BucketWidth
<1>1. BucketWidth \in Nat /\ BucketWidth > 0
  BY MetricAssumption
<1> DEFINE q == t \div BucketWidth
           r == t % BucketWidth
<1>2. q \in Nat /\ r \in Nat /\ r < BucketWidth /\ t = BucketWidth * q + r
  BY <1>1
<1>3. Bucket(t) = q * BucketWidth
  BY DEF Bucket
<1> HIDE DEF q, r
<1>4. BucketWidth * q = q * BucketWidth /\ q * BucketWidth \in Nat
  BY <1>1, <1>2
<1> DEFINE z == q * BucketWidth
<1> HIDE DEF z
<1>5. z \in Nat /\ t = z + r
  BY <1>2, <1>4 DEF z
<1>6. z <= t /\ t < z + BucketWidth
  BY <1>1, <1>2, <1>5
<1> QED BY <1>2, <1>3, <1>5, <1>6 DEF z, q

(* A sample belongs in the latest of the buckets its series has reached    *)
(* with it.                                                                *)
LEMMA BelongsIs ==
  ASSUME NEW s \in Seq(Smp), NEW i \in 1..Len(s)
  PROVE  /\ Belongs(s, i) \in 0..MaxStamp
         /\ \E j \in 1..i : s[j].id = s[i].id /\ Belongs(s, i) = Bucket(s[j].at)
         /\ \A j \in 1..i : s[j].id = s[i].id => Bucket(s[j].at) <= Belongs(s, i)
<1> DEFINE J == {k \in 1..i : s[k].id = s[i].id}
           T == {Bucket(s[j].at) : j \in J}
<1>1. MaxStamp \in Nat /\ i \in Nat
  BY MetricAssumption
<1>2. i \in J /\ Bucket(s[i].at) \in T
  BY <1>1
<1>3. ASSUME NEW j \in J PROVE Bucket(s[j].at) \in 0..MaxStamp
  <2>1. j \in 1..Len(s)
    BY <1>1
  <2>2. s[j].at \in 0..MaxStamp
    <3>1. s[j] \in Smp
      BY <2>1
    <3> QED BY <3>1 DEF Smp
  <2>3. s[j].at \in Nat /\ s[j].at <= MaxStamp
    BY <1>1, <2>2
  <2> DEFINE u == s[j].at
  <2> HIDE DEF u
  <2>4. u \in Nat /\ u <= MaxStamp
    BY <2>3 DEF u
  <2>5. Bucket(u) \in Nat /\ Bucket(u) <= u
    BY <2>4, BucketIs
  <2> QED BY <1>1, <2>4, <2>5 DEF u
<1>4. T \in SUBSET (0..MaxStamp) /\ T # {}
  BY <1>2, <1>3
<1>5. Belongs(s, i) = Max(T)
  BY DEF Belongs
<1> HIDE DEF T
<1>6. Max(T) \in T /\ \A y \in T : Max(T) >= y
  BY <1>1, <1>4, GreatestIs
<1>7. \A j \in J : Bucket(s[j].at) \in T
  BY DEF T
<1>8. \E j \in J : Max(T) = Bucket(s[j].at)
  BY <1>6 DEF T
<1>9. Max(T) \in 0..MaxStamp
  BY <1>4, <1>6
<1>10. ASSUME NEW j \in 1..i, s[j].id = s[i].id PROVE Bucket(s[j].at) <= Max(T)
  <2>1. j \in J
    BY <1>10
  <2>2. Bucket(s[j].at) \in 0..MaxStamp /\ Max(T) >= Bucket(s[j].at)
    BY <1>3, <1>6, <1>7, <2>1
  <2> QED BY <1>9, <2>2
<1> HIDE DEF J
<1>11. \E j \in 1..i : s[j].id = s[i].id /\ Max(T) = Bucket(s[j].at)
  BY <1>8 DEF J
<1> QED BY <1>5, <1>9, <1>10, <1>11

(* A sample added leaves those before it, and where they belong, alone.    *)
LEMMA Appended ==
  ASSUME NEW s \in Seq(Smp), NEW x \in Smp
  PROVE  /\ Append(s, x) \in Seq(Smp) /\ Len(Append(s, x)) = Len(s) + 1
         /\ Append(s, x)[Len(s) + 1] = x
         /\ \A i \in 1..Len(s) : Append(s, x)[i] = s[i]
         /\ Len(s) \in Nat /\ DOMAIN s = 1..Len(s) /\ DOMAIN Append(s, x) = 1..(Len(s) + 1)
  OBVIOUS

LEMMA BelongsKept ==
  ASSUME NEW s \in Seq(Smp), NEW x \in Smp, NEW i \in 1..Len(s)
  PROVE  Belongs(Append(s, x), i) = Belongs(s, i)
<1> DEFINE S == Append(s, x)
<1>1. \A k \in 1..Len(s) : S[k] = s[k]
  BY Appended
<1>2. \A k \in 1..i : k \in 1..Len(s)
  OBVIOUS
<1> HIDE DEF S
<1>3. {Bucket(S[j].at) : j \in {k \in 1..i : S[k].id = S[i].id}}
      = {Bucket(s[j].at) : j \in {k \in 1..i : s[k].id = s[i].id}}
  <2>1. {k \in 1..i : S[k].id = S[i].id} = {k \in 1..i : s[k].id = s[i].id}
    BY <1>1, <1>2
  <2> DEFINE J == {k \in 1..i : s[k].id = s[i].id}
  <2>2. \A j \in J : Bucket(S[j].at) = Bucket(s[j].at)
    BY <1>1, <1>2
  <2> HIDE DEF J
  <2>3. {Bucket(S[j].at) : j \in J} = {Bucket(s[j].at) : j \in J}
    BY <2>2
  <2> QED BY <2>1, <2>3 DEF J
<1> QED BY <1>3 DEF Belongs, S

(* Where the newest sample belongs, by whether its series has any other.   *)
LEMMA BelongsFirst ==
  ASSUME NEW s \in Seq(Smp), NEW x \in Smp, \A i \in 1..Len(s) : s[i].id # x.id
  PROVE  Belongs(Append(s, x), Len(s) + 1) = Bucket(x.at)
<1> DEFINE S == Append(s, x)
           n == Len(s) + 1
<1>1. S \in Seq(Smp) /\ Len(S) = n /\ S[n] = x /\ n \in Nat /\ n \in 1..n /\ \A i \in 1..Len(s) : S[i] = s[i]
  BY Appended
<1>2. \A j \in 1..n : S[j].id = S[n].id => j = n
  <2> TAKE j \in 1..n
  <2> HAVE S[j].id = S[n].id
  <2>1. j # n => j \in 1..Len(s)
    BY <1>1
  <2> QED BY <1>1, <2>1
<1> HIDE DEF S, n
<1>3. \E j \in 1..n : S[j].id = S[n].id /\ Belongs(S, n) = Bucket(S[j].at)
  BY <1>1, BelongsIs
<1> QED BY <1>1, <1>2, <1>3 DEF S, n

LEMMA BelongsNext ==
  ASSUME NEW s \in Seq(Smp), NEW x \in Smp, NEW l \in 1..Len(s), s[l].id = x.id,
         \A i \in 1..Len(s) : s[i].id = x.id => Belongs(s, i) <= Belongs(s, l)
  PROVE  Belongs(Append(s, x), Len(s) + 1)
           = IF Bucket(x.at) > Belongs(s, l) THEN Bucket(x.at) ELSE Belongs(s, l)
<1> DEFINE S == Append(s, x)
           n == Len(s) + 1
           m == Belongs(s, l)
           B == Belongs(S, n)
           c == Bucket(x.at)
<1>1. /\ S \in Seq(Smp) /\ Len(S) = n /\ S[n] = x /\ n \in Nat /\ n \in 1..n /\ Len(s) \in Nat
      /\ \A i \in 1..Len(s) : S[i] = s[i]
  BY Appended
<1>2. m \in Nat /\ \E j \in 1..l : s[j].id = s[l].id /\ m = Bucket(s[j].at)
  BY BelongsIs
<1> HIDE DEF S, m, B, c
<1>3. /\ B \in Nat /\ \E j \in 1..n : S[j].id = S[n].id /\ B = Bucket(S[j].at)
      /\ \A j \in 1..n : S[j].id = S[n].id => Bucket(S[j].at) <= B
  <2> HIDE DEF n
  <2>1. n \in 1..Len(S)
    BY <1>1
  <2>2. /\ Belongs(S, n) \in 0..MaxStamp
        /\ \E j \in 1..n : S[j].id = S[n].id /\ Belongs(S, n) = Bucket(S[j].at)
        /\ \A j \in 1..n : S[j].id = S[n].id => Bucket(S[j].at) <= Belongs(S, n)
    BY <1>1, <2>1, BelongsIs
  <2> HIDE DEF B
  <2>3. B = Belongs(S, n)
    BY DEF B
  <2>4. B \in Nat
    BY <2>2, <2>3
  <2> QED BY <2>2, <2>3, <2>4
<1>4. c <= B /\ c \in Nat
  <2>1. c <= B
    <3>1. S[n].id = S[n].id => Bucket(S[n].at) <= B
      BY <1>1, <1>3
    <3> QED BY <1>1, <3>1 DEF c
  <2>2. x.at \in Nat
    BY DEF Smp
  <2>3. c \in Nat
    BY <2>2, BucketIs DEF c
  <2> QED BY <2>1, <2>3
<1>5. m <= B
  <2>1. PICK j \in 1..l : s[j].id = s[l].id /\ m = Bucket(s[j].at)
    BY <1>2
  <2>2. j \in 1..Len(s) /\ j \in 1..n
    BY <1>1
  <2> QED BY <1>1, <1>3, <2>1, <2>2
<1>6. B = c \/ B <= m
  <2>1. PICK j \in 1..n : S[j].id = S[n].id /\ B = Bucket(S[j].at)
    BY <1>3
  <2>2. CASE j = n
    BY <1>1, <2>1, <2>2 DEF c
  <2>3. CASE j # n
    <3>1. j \in 1..Len(s)
      BY <1>1, <2>3
    <3>2. s[j].id = x.id /\ B = Bucket(s[j].at)
      BY <1>1, <2>1, <3>1
    <3>3. Belongs(s, j) \in 0..MaxStamp /\ Bucket(s[j].at) <= Belongs(s, j)
      <4>1. j \in 1..j
        BY <3>1
      <4> QED BY <3>1, <4>1, BelongsIs
    <3>4. Belongs(s, j) <= m
      BY <3>1, <3>2 DEF m
    <3>5. MaxStamp \in Nat
      BY MetricAssumption
    <3> QED BY <1>2, <1>3, <3>2, <3>3, <3>4, <3>5
  <2> QED BY <2>2, <2>3
<1>7. B = IF c > m THEN c ELSE m
  BY <1>2, <1>3, <1>4, <1>5, <1>6
<1> QED BY <1>7 DEF B, S, n, c, m

(* The newest sample joins one bucket, and no other.                       *)
LEMMA PlacedAppend ==
  ASSUME NEW s \in Seq(Smp), NEW x \in Smp, NEW id, NEW w
  PROVE  /\ x.id = id /\ Belongs(Append(s, x), Len(s) + 1) = w
              => Placed(Append(s, x), id, w) = Placed(s, id, w) \cup {Len(s) + 1}
         /\ x.id # id \/ Belongs(Append(s, x), Len(s) + 1) # w
              => Placed(Append(s, x), id, w) = Placed(s, id, w)
         /\ Len(s) + 1 \notin Placed(s, id, w)
         /\ Placed(s, id, w) \in SUBSET (1..Len(s))
<1> DEFINE S == Append(s, x)
           n == Len(s) + 1
<1>1. /\ S[n] = x /\ Len(s) \in Nat /\ DOMAIN s = 1..Len(s) /\ DOMAIN S = 1..n
      /\ \A i \in 1..Len(s) : S[i] = s[i]
  BY Appended
<1>2. \A i \in 1..Len(s) : Belongs(S, i) = Belongs(s, i)
  BY BelongsKept
<1> HIDE DEF S
<1>3. n \notin Placed(s, id, w) /\ Placed(s, id, w) \in SUBSET (1..Len(s))
  BY <1>1 DEF Placed
<1>4. \A i \in 1..Len(s) : i \in Placed(S, id, w) <=> i \in Placed(s, id, w)
  <2> TAKE i \in 1..Len(s)
  <2>1. i \in 1..n
    BY <1>1
  <2> QED BY <1>1, <1>2, <2>1 DEF Placed
<1>5. n \in Placed(S, id, w) <=> x.id = id /\ Belongs(S, n) = w
  <2>1. n \in 1..n
    BY <1>1
  <2> QED BY <1>1, <2>1 DEF Placed
<1>6. Placed(S, id, w) \in SUBSET (1..n)
  BY <1>1 DEF Placed
<1>7. \A i \in 1..n : i = n \/ i \in 1..Len(s)
  BY <1>1
<1> DEFINE P == Placed(s, id, w)
           Q == Placed(S, id, w)
<1> HIDE DEF P, Q
<1>8. /\ \A i \in 1..Len(s) : i \in Q <=> i \in P
      /\ n \in Q <=> x.id = id /\ Belongs(S, n) = w
      /\ Q \in SUBSET (1..n) /\ P \in SUBSET (1..Len(s)) /\ n \notin P
  BY <1>3, <1>4, <1>5, <1>6 DEF P, Q
<1> HIDE DEF n
<1>9. x.id = id /\ Belongs(S, n) = w => Q = P \cup {n}
  BY <1>7, <1>8
<1>10. x.id # id \/ Belongs(S, n) # w => Q = P
  BY <1>7, <1>8
<1> QED BY <1>3, <1>9, <1>10 DEF P, Q, S, n

(* The figures of a bucket, as a sample is added to it, opens it, or goes  *)
(* elsewhere.                                                              *)
LEMMA ValueIs ==
  ASSUME NEW s \in Seq(Smp), NEW i \in 1..Len(s)
  PROVE  s[i].value \in {0, 1} /\ s[i].value \in Int
<1>1. s[i] \in Smp
  OBVIOUS
<1> QED BY <1>1 DEF Smp

LEMMA MeantKept ==
  ASSUME NEW s \in Seq(Smp), NEW x \in Smp, NEW id, NEW w,
         Placed(Append(s, x), id, w) = Placed(s, id, w)
  PROVE  Meant(Append(s, x), id, w) = Meant(s, id, w)
<1> DEFINE P == Placed(s, id, w)
           S == Append(s, x)
<1>1. \A i \in P : S[i] = s[i]
  BY Appended, PlacedAppend
<1>2. Placed(S, id, w) = P
  OBVIOUS
<1> HIDE DEF S, P
<1>3. [i \in P |-> S[i].value] = [i \in P |-> s[i].value] /\ {S[i].value : i \in P} = {s[i].value : i \in P}
  BY <1>1
<1>4. Meant(S, id, w) = IF P = {} THEN {}
        ELSE {[start |-> w, sum |-> SumFunction([i \in P |-> S[i].value]),
               min |-> Min({S[i].value : i \in P}), max |-> Max({S[i].value : i \in P}), count |-> Cardinality(P)]}
  BY <1>2 DEF Meant
<1>5. Meant(s, id, w) = IF P = {} THEN {}
        ELSE {[start |-> w, sum |-> SumFunction([i \in P |-> s[i].value]),
               min |-> Min({s[i].value : i \in P}), max |-> Max({s[i].value : i \in P}), count |-> Cardinality(P)]}
  BY DEF Meant, P
<1>6. Meant(S, id, w) = Meant(s, id, w)
  BY <1>3, <1>4, <1>5, Zenon
<1> QED BY <1>6 DEF S

LEMMA OneOf ==
  ASSUME NEW v \in {0, 1}
  PROVE  Min({v}) = v /\ Max({v}) = v
<1>1. {v} \in SUBSET Nat /\ {v} # {} /\ {v} \in SUBSET (0..1) /\ 1 \in Nat
  OBVIOUS
<1>2. Min({v}) \in {v}
  BY <1>1, LeastIs
<1>3. Max({v}) \in {v}
  BY <1>1, GreatestIs
<1> QED BY <1>2, <1>3

LEMMA OneMore ==
  ASSUME NEW V \in SUBSET {0, 1}, V # {}, NEW v \in {0, 1}
  PROVE  /\ Min(V \cup {v}) = IF v < Min(V) THEN v ELSE Min(V)
         /\ Max(V \cup {v}) = IF v > Max(V) THEN v ELSE Max(V)
         /\ Min(V) \in {0, 1} /\ Max(V) \in {0, 1}
<1> DEFINE U == V \cup {v}
<1>1. V \in SUBSET Nat /\ V \in SUBSET (0..1) /\ U \in SUBSET Nat /\ U \in SUBSET (0..1) /\ U # {} /\ 1 \in Nat
  OBVIOUS
<1>2. \A y : y \in U <=> y \in V \/ y = v
  OBVIOUS
<1> HIDE DEF U
<1>3. Min(V) \in V /\ \A y \in V : Min(V) <= y
  BY <1>1, LeastIs
<1>4. Min(U) \in U /\ \A y \in U : Min(U) <= y
  BY <1>1, LeastIs
<1>5. Max(V) \in V /\ \A y \in V : Max(V) >= y
  BY <1>1, GreatestIs
<1>6. Max(U) \in U /\ \A y \in U : Max(U) >= y
  BY <1>1, GreatestIs
<1> DEFINE a == Min(V)
           b == Min(U)
           c == Max(V)
           d == Max(U)
<1> HIDE DEF a, b, c, d
<1>7. a \in V /\ b \in U /\ c \in V /\ d \in U /\ a \in U /\ c \in U /\ v \in U
  BY <1>2, <1>3, <1>4, <1>5, <1>6 DEF a, b, c, d
<1>8. b <= a /\ b <= v /\ (b = v \/ a <= b) /\ d >= c /\ d >= v /\ (d = v \/ c >= d)
  <2>1. \A y \in V : a <= y /\ c >= y
    BY <1>3, <1>5 DEF a, c
  <2>2. \A y \in U : b <= y /\ d >= y
    BY <1>4, <1>6 DEF b, d
  <2> QED BY <1>2, <1>7, <2>1, <2>2
<1>9. a \in Nat /\ b \in Nat /\ c \in Nat /\ d \in Nat /\ a \in {0, 1} /\ c \in {0, 1}
  BY <1>1, <1>7
<1>10. b = (IF v < a THEN v ELSE a) /\ d = (IF v > c THEN v ELSE c)
  BY <1>8, <1>9
<1> QED BY <1>9, <1>10 DEF a, b, c, d, U

LEMMA MeantOpens ==
  ASSUME NEW s \in Seq(Smp), NEW x \in Smp, NEW w,
         Placed(s, x.id, w) = {}, Belongs(Append(s, x), Len(s) + 1) = w
  PROVE  Meant(Append(s, x), x.id, w) = {Opened(w, x.value)}
<1> DEFINE S == Append(s, x)
           n == Len(s) + 1
           v == x.value
<1>1. Placed(S, x.id, w) = {n} /\ S[n] = x /\ v \in {0, 1} /\ v \in Int
  <2>1. Placed(S, x.id, w) = Placed(s, x.id, w) \cup {n}
    BY PlacedAppend
  <2>2. S[n] = x
    BY Appended
  <2>3. v \in {0, 1}
    BY DEF Smp
  <2> QED BY <2>1, <2>2, <2>3
<1> HIDE DEF S, n
<1>2. Meant(S, x.id, w) = {[start |-> w, sum |-> SumFunction([i \in {n} |-> S[i].value]),
        min |-> Min({S[i].value : i \in {n}}), max |-> Max({S[i].value : i \in {n}}), count |-> Cardinality({n})]}
  BY <1>1 DEF Meant
<1>3. SumFunction([i \in {n} |-> S[i].value]) = v
  <2> DEFINE f == [i \in {n} |-> S[i].value]
  <2>1. f \in [{n} -> Int] /\ f[n] = v
    BY <1>1
  <2> HIDE DEF f
  <2>2. SumFunction(f) = f[n]
    BY <2>1, SumOfOne
  <2> QED BY <2>1, <2>2 DEF f
<1>4. {S[i].value : i \in {n}} = {v}
  BY <1>1
<1>5. Cardinality({n}) = 1
  BY FS_Singleton
<1>6. Min({v}) = v /\ Max({v}) = v
  BY <1>1, OneOf
<1> HIDE DEF v
<1>7. Meant(S, x.id, w) = {[start |-> w, sum |-> v, min |-> v, max |-> v, count |-> 1]}
  BY <1>2, <1>3, <1>4, <1>5, <1>6, Zenon
<1> QED BY <1>7 DEF Opened, S, v

LEMMA MeantFolds ==
  ASSUME NEW s \in Seq(Smp), NEW x \in Smp, NEW w, NEW b,
         Placed(s, x.id, w) # {}, Belongs(Append(s, x), Len(s) + 1) = w, Meant(s, x.id, w) = {b}
  PROVE  Meant(Append(s, x), x.id, w) = {Folded(b, x.value)}
<1> DEFINE S == Append(s, x)
           n == Len(s) + 1
           v == x.value
           P == Placed(s, x.id, w)
           Q == P \cup {n}
           h == [i \in P |-> s[i].value]
           V == {s[i].value : i \in P}
           f == [i \in Q |-> S[i].value]
<1>1. Placed(S, x.id, w) = Q /\ n \notin P /\ P \in SUBSET (1..Len(s)) /\ P # {}
  BY PlacedAppend
<1>2. S[n] = x /\ (\A i \in P : S[i] = s[i]) /\ S \in Seq(Smp) /\ Len(s) \in Nat
  BY <1>1, Appended
<1>3. v \in {0, 1} /\ v \in Int
  BY DEF Smp
<1>4. \A i \in P : s[i].value \in {0, 1} /\ s[i].value \in Int
  BY <1>1, ValueIs
<1> HIDE DEF S, n, P
<1>5. V \in SUBSET {0, 1} /\ V # {}
  BY <1>1, <1>4
<1>6. IsFiniteSet(P) /\ IsFiniteSet(Q) /\ Cardinality(Q) = Cardinality(P) + 1
  <2>1. IsFiniteSet(1..Len(s))
    BY <1>2, FS_Interval
  <2>2. IsFiniteSet(P)
    BY <1>1, <2>1, FS_Subset
  <2> QED BY <1>1, <2>2, FS_AddElement
<1>7. SumFunction(f) = SumFunction(h) + v
  <2>1. f \in [Q -> Int] /\ f[n] = v /\ n \in Q
    BY <1>2, <1>3, <1>4
  <2>2. [y \in Q \ {n} |-> f[y]] = h
    <3>1. Q \ {n} = P
      BY <1>1
    <3>2. \A y \in P : f[y] = s[y].value
      BY <1>2
    <3> HIDE DEF f, Q
    <3> QED BY <3>1, <3>2
  <2> HIDE DEF f, Q, h
  <2>3. SumFunction(f) = SumFunction([y \in Q \ {n} |-> f[y]]) + f[n]
    BY <1>6, <2>1, SumAdds
  <2> QED BY <2>1, <2>2, <2>3
<1>8. {S[i].value : i \in Q} = V \cup {v}
  <2>1. \A i \in P : S[i].value = s[i].value
    BY <1>2
  <2>2. S[n].value = v
    BY <1>2
  <2> QED BY <2>1, <2>2
<1>9. /\ Min(V \cup {v}) = IF v < Min(V) THEN v ELSE Min(V)
      /\ Max(V \cup {v}) = IF v > Max(V) THEN v ELSE Max(V)
  <2> HIDE DEF V, v
  <2> QED BY <1>3, <1>5, OneMore
<1>10. b = [start |-> w, sum |-> SumFunction(h), min |-> Min(V), max |-> Max(V), count |-> Cardinality(P)]
  <2>1. Meant(s, x.id, w) = {[start |-> w, sum |-> SumFunction(h), min |-> Min(V), max |-> Max(V),
                              count |-> Cardinality(P)]}
    BY <1>1 DEF Meant, P
  <2> HIDE DEF h, V
  <2> QED BY <2>1
<1>11. Meant(S, x.id, w) = {[start |-> w, sum |-> SumFunction(f), min |-> Min({S[i].value : i \in Q}),
                             max |-> Max({S[i].value : i \in Q}), count |-> Cardinality(Q)]}
  <2>1. Q # {}
    OBVIOUS
  <2> HIDE DEF Q
  <2> QED BY <1>1, <2>1 DEF Meant
<1> HIDE DEF f, h, V, v, Q
<1>12. Meant(S, x.id, w) = {[start |-> w, sum |-> SumFunction(h) + v,
                             min |-> IF v < Min(V) THEN v ELSE Min(V),
                             max |-> IF v > Max(V) THEN v ELSE Max(V), count |-> Cardinality(P) + 1]}
  BY <1>6, <1>7, <1>8, <1>9, <1>11, Zenon
<1>13. /\ b.start = w /\ b.sum = SumFunction(h) /\ b.min = Min(V) /\ b.max = Max(V) /\ b.count = Cardinality(P)
  BY <1>10
<1>14. Folded(b, v) = [start |-> w, sum |-> SumFunction(h) + v,
                       min |-> IF v < Min(V) THEN v ELSE Min(V),
                       max |-> IF v > Max(V) THEN v ELSE Max(V), count |-> Cardinality(P) + 1]
  BY <1>13, Zenon DEF Folded
<1>15. Meant(S, x.id, w) = {Folded(b, v)}
  BY <1>12, <1>14, Zenon
<1> QED BY <1>15 DEF S, v

(* A bucket, its place among all buckets of its width, and a start that is *)
(* one.                                                                    *)
Bkt == [start : Nat, sum : Int, min : Int, max : Int, count : Int]
Cell(w) == w \div BucketWidth
OnGrid(w) == w \in Nat /\ Bucket(w) = w

(* The buckets of a series tell its samples: each holds exactly the samples*)
(* that belong in it, at a place later than the one before it, and a sample*)
(* whose bucket is not there is older than the oldest of a full tier.      *)
Charted(done, s, id) ==
  /\ done \in Seq(Bkt) /\ Len(done) <= Buckets + 1
  /\ \A k \in 1..Len(done) : OnGrid(done[k].start) /\ Meant(s, id, done[k].start) = {done[k]}
  /\ \A j, k \in 1..Len(done) : j <= k => Cell(done[j].start) + (k - j) <= Cell(done[k].start)
  /\ \A i \in 1..Len(s) : s[i].id = id =>
       \/ \E k \in 1..Len(done) : done[k].start = Belongs(s, i)
       \/ Len(done) = Buckets + 1 /\ Belongs(s, i) < done[1].start

(* Starts of buckets are ordered as their places are.                      *)
LEMMA BucketOnGrid ==
  ASSUME NEW t \in Nat
  PROVE  OnGrid(Bucket(t)) /\ Cell(Bucket(t)) = t \div BucketWidth
<1> DEFINE q == t \div BucketWidth
           y == Bucket(t)
<1>1. BucketWidth \in Nat \ {0}
  BY MetricAssumption
<1>2. q \in Nat /\ y = q * BucketWidth /\ y \in Nat
  BY BucketIs
<1> HIDE DEF q, y
<1>3. q * BucketWidth + 0 = y
  BY <1>1, <1>2
<1>4. y \div BucketWidth = q
  <2>1. q \in Int /\ y \in Int /\ 0 \in 0..BucketWidth - 1 /\ y = q * BucketWidth + 0
    BY <1>1, <1>2, <1>3
  <2> QED BY <1>1, <2>1, Quotient
<1>5. Bucket(y) = y
  BY <1>2, <1>4 DEF Bucket
<1> QED BY <1>2, <1>4, <1>5 DEF OnGrid, Cell, y, q

LEMMA CellIs ==
  ASSUME NEW a, OnGrid(a)
  PROVE  a \in Nat /\ Cell(a) \in Nat /\ a = Cell(a) * BucketWidth
<1>1. a \in Nat /\ Bucket(a) = a
  BY DEF OnGrid
<1> QED BY <1>1, BucketIs DEF Cell

LEMMA TimesOrder ==
  ASSUME NEW p \in Int, NEW q \in Int, NEW w \in Nat \ {0}
  PROVE  p < q <=> p * w < q * w
<1>1. CASE p < q
  <2>1. p + 1 <= q
    BY <1>1
  <2>2. (p + 1) * w <= q * w
    BY <2>1
  <2>3. (p + 1) * w = p * w + w
    OBVIOUS
  <2> QED BY <1>1, <2>2, <2>3
<1>2. CASE q <= p
  <2>1. q * w <= p * w
    BY <1>2
  <2> QED BY <1>2, <2>1
<1> QED BY <1>1, <1>2

LEMMA CellOrder ==
  ASSUME NEW a, NEW b, OnGrid(a), OnGrid(b)
  PROVE  (a < b <=> Cell(a) < Cell(b)) /\ (a = b <=> Cell(a) = Cell(b))
<1> DEFINE p == Cell(a)
           q == Cell(b)
<1>1. a \in Nat /\ p \in Nat /\ a = p * BucketWidth
  BY CellIs
<1>2. b \in Nat /\ q \in Nat /\ b = q * BucketWidth
  BY CellIs
<1>3. BucketWidth \in Nat \ {0}
  BY MetricAssumption
<1> HIDE DEF p, q
<1>4. (p < q <=> p * BucketWidth < q * BucketWidth) /\ (q < p <=> q * BucketWidth < p * BucketWidth)
  BY <1>1, <1>2, <1>3, TimesOrder
<1>5. (p < q <=> a < b) /\ (q < p <=> b < a)
  BY <1>1, <1>2, <1>4, Zenon
<1>6. (a < b <=> p < q) /\ (a = b <=> p = q)
  BY <1>1, <1>2, <1>5
<1> QED BY <1>6 DEF p, q

(* No two buckets of a series start together, and each was meant.          *)
LEMMA StartsRise ==
  ASSUME NEW done, NEW s, NEW id, Charted(done, s, id), NEW j \in 1..Len(done), NEW k \in 1..Len(done), j < k
  PROVE  done[j].start < done[k].start
<1>1. /\ OnGrid(done[j].start) /\ OnGrid(done[k].start) /\ done \in Seq(Bkt)
      /\ Cell(done[j].start) + (k - j) <= Cell(done[k].start)
  BY DEF Charted
<1>2. Cell(done[j].start) \in Nat /\ Cell(done[k].start) \in Nat /\ j \in Nat /\ k \in Nat
  BY <1>1, CellIs
<1>3. Cell(done[j].start) < Cell(done[k].start)
  BY <1>1, <1>2
<1> QED BY <1>1, <1>3, CellOrder

LEMMA MeantPlaced ==
  ASSUME NEW s, NEW id, NEW w, NEW b, Meant(s, id, w) = {b}
  PROVE  Placed(s, id, w) # {}
  BY DEF Meant

(* The bucket still filling is the latest that any sample of its series    *)
(* belongs in, so the newest sample belongs in it or in the one it opens.  *)
LEMMA LatestIs ==
  ASSUME NEW s \in Seq(Smp), NEW id, NEW done, Charted(done, s, id), done # <<>>
  PROVE  \E l \in 1..Len(s) :
           /\ s[l].id = id /\ Belongs(s, l) = Last(done).start
           /\ \A i \in 1..Len(s) : s[i].id = id => Belongs(s, i) <= Belongs(s, l)
<1> DEFINE n == Len(done)
           w == done[n].start
<1>1. done \in Seq(Bkt) /\ n \in Nat /\ n >= 1 /\ n \in 1..n /\ 1 \in 1..n
  <2>1. done \in Seq(Bkt)
    BY DEF Charted
  <2> QED BY <2>1
<1>2. \A k \in 1..n : OnGrid(done[k].start) /\ done[k].start \in Nat /\ done[k].start <= w
  <2> TAKE k \in 1..n
  <2>1. OnGrid(done[k].start) /\ OnGrid(w)
    BY <1>1 DEF Charted
  <2>2. done[k].start \in Nat /\ w \in Nat
    BY <2>1, CellIs
  <2>3. CASE k = n
    BY <2>1, <2>2, <2>3
  <2>4. CASE k # n
    <3>1. k < n
      BY <1>1, <2>4
    <3>2. done[k].start < w
      BY <1>1, <3>1, StartsRise
    <3> QED BY <2>1, <2>2, <3>2
  <2> QED BY <2>3, <2>4
<1>3. w \in Nat
  BY <1>1, <1>2
<1>4. Meant(s, id, w) = {done[n]}
  BY <1>1 DEF Charted
<1>5. PICK l : l \in Placed(s, id, w)
  BY <1>4, MeantPlaced
<1>6. l \in 1..Len(s) /\ s[l].id = id /\ Belongs(s, l) = w
  BY <1>5 DEF Placed
<1>7. ASSUME NEW i \in 1..Len(s), s[i].id = id PROVE Belongs(s, i) <= w
  <2>1. \/ \E k \in 1..n : done[k].start = Belongs(s, i)
        \/ Belongs(s, i) < done[1].start
    BY <1>7 DEF Charted
  <2>2. Belongs(s, i) \in Nat
    BY BelongsIs
  <2>3. CASE \E k \in 1..n : done[k].start = Belongs(s, i)
    BY <1>2, <2>3
  <2>4. CASE Belongs(s, i) < done[1].start
    BY <1>1, <1>2, <1>3, <2>2, <2>4
  <2> QED BY <2>1, <2>3, <2>4
<1>8. Last(done) = done[n]
  BY DEF Last
<1> HIDE DEF n
<1> QED BY <1>6, <1>7, <1>8

LEMMA BelongsOf ==
  ASSUME NEW s \in Seq(Smp), NEW x \in Smp, NEW done, Charted(done, s, x.id)
  PROVE  Belongs(Append(s, x), Len(s) + 1) = IF NewBucket(done, x.at) THEN Bucket(x.at) ELSE Last(done).start
<1>1. CASE done = <<>>
  <2>1. \A i \in 1..Len(s) : s[i].id # x.id
    <3> SUFFICES ASSUME NEW i \in 1..Len(s), s[i].id = x.id PROVE FALSE
      OBVIOUS
    <3>1. Len(done) = 0
      BY <1>1
    <3>2. \/ \E k \in 1..Len(done) : done[k].start = Belongs(s, i)
          \/ Len(done) = Buckets + 1
      BY DEF Charted
    <3>3. Buckets \in Nat
      BY MetricAssumption
    <3> QED BY <3>1, <3>2, <3>3
  <2>2. Belongs(Append(s, x), Len(s) + 1) = Bucket(x.at)
    BY <2>1, BelongsFirst
  <2> QED BY <1>1, <2>2 DEF NewBucket
<1>2. CASE done # <<>>
  <2>1. PICK l \in 1..Len(s) :
           /\ s[l].id = x.id /\ Belongs(s, l) = Last(done).start
           /\ \A i \in 1..Len(s) : s[i].id = x.id => Belongs(s, i) <= Belongs(s, l)
    BY <1>2, LatestIs
  <2>2. Belongs(Append(s, x), Len(s) + 1)
           = IF Bucket(x.at) > Belongs(s, l) THEN Bucket(x.at) ELSE Belongs(s, l)
    BY <2>1, BelongsNext
  <2> QED BY <1>2, <2>1, <2>2, Zenon DEF NewBucket
<1> QED BY <1>1, <1>2

(* A sample is of one series only.                                         *)
LEMMA OthersCharted ==
  ASSUME NEW s \in Seq(Smp), NEW x \in Smp, NEW done, NEW id, id # x.id, Charted(done, s, id)
  PROVE  Charted(done, Append(s, x), id)
<1> DEFINE S == Append(s, x)
<1>1. /\ Len(S) = Len(s) + 1 /\ Len(s) \in Nat /\ S[Len(s) + 1] = x
      /\ \A i \in 1..Len(s) : S[i] = s[i]
  BY Appended
<1>2. \A i \in 1..Len(s) : Belongs(S, i) = Belongs(s, i)
  BY BelongsKept
<1>3. ASSUME NEW w PROVE Meant(S, id, w) = Meant(s, id, w)
  <2>1. Placed(S, id, w) = Placed(s, id, w)
    BY PlacedAppend
  <2> QED BY <2>1, MeantKept
<1> HIDE DEF S
<1>4. ASSUME NEW i \in 1..Len(S), S[i].id = id
      PROVE  \/ \E k \in 1..Len(done) : done[k].start = Belongs(S, i)
             \/ Len(done) = Buckets + 1 /\ Belongs(S, i) < done[1].start
  <2>1. i # Len(s) + 1
    BY <1>1, <1>4
  <2>2. i \in 1..Len(s)
    BY <1>1, <2>1
  <2>3. s[i].id = id /\ Belongs(S, i) = Belongs(s, i)
    BY <1>1, <1>2, <1>4, <2>2
  <2> QED BY <2>2, <2>3 DEF Charted
<1>5. Charted(done, S, id)
  BY <1>3, <1>4 DEF Charted
<1> QED BY <1>5 DEF S

(* A sample folded into the bucket still filling, and one that opens a     *)
(* bucket and may push the oldest out.                                     *)
LEMMA FoldCharted ==
  ASSUME NEW s \in Seq(Smp), NEW x \in Smp, NEW done, Charted(done, s, x.id), ~NewBucket(done, x.at)
  PROVE  /\ Charted([done EXCEPT ![Len(done)] = Folded(@, x.value)], Append(s, x), x.id)
         /\ [done EXCEPT ![Len(done)] = Folded(@, x.value)] # <<>>
<1> DEFINE S == Append(s, x)
           id == x.id
           v == x.value
           n == Len(done)
           b == done[n]
           w == b.start
           res == [done EXCEPT ![n] = Folded(@, v)]
<1>1. done \in Seq(Bkt) /\ n \in Nat /\ n >= 1 /\ n \in 1..n /\ 1 \in 1..n /\ Last(done) = b /\ done # <<>>
  BY DEF Charted, NewBucket, Last
<1>2. Belongs(S, Len(s) + 1) = w
  BY <1>1, BelongsOf
<1>3. /\ Len(S) = Len(s) + 1 /\ Len(s) \in Nat /\ S[Len(s) + 1] = x
      /\ \A i \in 1..Len(s) : S[i] = s[i]
  BY Appended
<1>4. \A i \in 1..Len(s) : Belongs(S, i) = Belongs(s, i)
  BY BelongsKept
<1>5. v \in Int /\ b \in Bkt
  BY <1>1 DEF Smp
<1>6. Folded(b, v) \in Bkt /\ Folded(b, v).start = w
  BY <1>5 DEF Folded, Bkt
<1>7. /\ res \in Seq(Bkt) /\ Len(res) = n /\ res[n] = Folded(b, v)
      /\ \A k \in 1..n : k # n => res[k] = done[k]
  <2> DEFINE y == Folded(b, v)
  <2>1. res = [done EXCEPT ![n] = y]
    OBVIOUS
  <2> HIDE DEF y, res
  <2>2. y \in Bkt
    BY <1>6 DEF y
  <2> QED BY <1>1, <2>1, <2>2 DEF y
<1> HIDE DEF res
<1>8. \A k \in 1..n : res[k].start = done[k].start
  BY <1>6, <1>7
<1>9. Meant(s, id, w) = {b}
  BY <1>1 DEF Charted
<1>10. Meant(S, id, w) = {Folded(b, v)}
  <2>1. Placed(s, id, w) # {}
    BY <1>9, MeantPlaced
  <2> QED BY <1>2, <1>9, <2>1, MeantFolds
<1>11. ASSUME NEW k \in 1..n, k # n PROVE Meant(S, id, done[k].start) = {done[k]}
  <2>1. k < n
    BY <1>1, <1>11
  <2>2. done[k].start < w
    BY <1>1, <2>1, StartsRise
  <2>3. done[k].start # w
    <3>1. OnGrid(done[k].start) /\ OnGrid(w)
      BY <1>1 DEF Charted
    <3> QED BY <2>2, <3>1 DEF OnGrid
  <2>4. Placed(S, id, done[k].start) = Placed(s, id, done[k].start)
    BY <1>2, <2>3, PlacedAppend
  <2>5. Meant(S, id, done[k].start) = Meant(s, id, done[k].start)
    BY <2>4, MeantKept
  <2> QED BY <2>5 DEF Charted
<1>12. \A k \in 1..n : OnGrid(res[k].start) /\ Meant(S, id, res[k].start) = {res[k]}
  <2> TAKE k \in 1..n
  <2>1. OnGrid(res[k].start)
    BY <1>8 DEF Charted
  <2>2. CASE k = n
    BY <1>7, <1>8, <1>10, <2>1, <2>2
  <2>3. CASE k # n
    BY <1>7, <1>8, <1>11, <2>1, <2>3
  <2> QED BY <2>2, <2>3
<1>13. ASSUME NEW i \in 1..Len(S), S[i].id = id
       PROVE  \/ \E k \in 1..n : res[k].start = Belongs(S, i)
              \/ n = Buckets + 1 /\ Belongs(S, i) < res[1].start
  <2>1. CASE i = Len(s) + 1
    BY <1>1, <1>2, <1>8, <2>1
  <2>2. CASE i # Len(s) + 1
    <3>1. i \in 1..Len(s)
      BY <1>3, <2>2
    <3>2. s[i].id = id /\ Belongs(S, i) = Belongs(s, i)
      BY <1>3, <1>4, <1>13, <3>1
    <3>3. \/ \E k \in 1..n : done[k].start = Belongs(s, i)
          \/ n = Buckets + 1 /\ Belongs(s, i) < done[1].start
      BY <3>1, <3>2 DEF Charted
    <3> QED BY <1>1, <1>8, <3>2, <3>3
  <2> QED BY <2>1, <2>2
<1>14. \A j, k \in 1..n : j <= k => Cell(res[j].start) + (k - j) <= Cell(res[k].start)
  BY <1>8 DEF Charted
<1>15. n <= Buckets + 1
  BY DEF Charted
<1> HIDE DEF n, S, id
<1>16. Charted(res, S, id)
  BY <1>7, <1>12, <1>13, <1>14, <1>15 DEF Charted
<1>17. res # <<>>
  BY <1>1, <1>7
<1> QED BY <1>16, <1>17 DEF res, S, id, n

LEMMA OpenCharted ==
  ASSUME NEW s \in Seq(Smp), NEW x \in Smp, NEW done, Charted(done, s, x.id), NewBucket(done, x.at),
         NEW all, all = Append(done, Opened(Bucket(x.at), x.value)),
         NEW g, g \in {0, 1}, Len(all) <= g + Buckets + 1, g = 1 => Len(done) = Buckets + 1
  PROVE  Charted(SubSeq(all, g + 1, Len(all)), Append(s, x), x.id) /\ SubSeq(all, g + 1, Len(all)) # <<>>
<1> DEFINE S == Append(s, x)
           id == x.id
           v == x.value
           n == Len(done)
           c == Bucket(x.at)
           res == SubSeq(all, g + 1, Len(all))
           m == (n + 1) - g
<1>1. done \in Seq(Bkt) /\ n \in Nat /\ Buckets \in Nat /\ Buckets >= 1
  BY MetricAssumption DEF Charted
<1>2. Belongs(S, Len(s) + 1) = c
  BY BelongsOf
<1>3. /\ Len(S) = Len(s) + 1 /\ Len(s) \in Nat /\ S[Len(s) + 1] = x
      /\ \A i \in 1..Len(s) : S[i] = s[i]
  BY Appended
<1>4. \A i \in 1..Len(s) : Belongs(S, i) = Belongs(s, i)
  BY BelongsKept
<1>5. x.at \in Nat /\ v \in Int
  BY DEF Smp
<1>6. OnGrid(c) /\ c \in Nat
  BY <1>5, BucketOnGrid, BucketIs
<1> DEFINE o == Opened(c, v)
<1>7. o \in Bkt /\ o.start = c
  <2> HIDE DEF c, v
  <2> QED BY <1>5, <1>6 DEF Opened, Bkt
<1> HIDE DEF o
<1>8. /\ all \in Seq(Bkt) /\ Len(all) = n + 1 /\ all[n + 1] = o
      /\ \A k \in 1..n : all[k] = done[k]
  BY <1>1, <1>7 DEF o
<1>9. m \in Nat /\ m >= 1 /\ m <= Buckets + 1 /\ g + m = n + 1 /\ g \in Nat
  <2>1. g = 1 => n >= 1
    BY <1>1
  <2> QED BY <1>1, <1>8, <2>1
<1>10. res \in Seq(Bkt) /\ Len(res) = m /\ \A k \in 1..m : res[k] = all[g + k]
  <2> DEFINE h == Len(all)
  <2>1. h \in Nat /\ h = n + 1 /\ g \in {0, 1} /\ g + 1 <= h + 1 /\ h - g = m
    BY <1>8, <1>9
  <2> HIDE DEF h, n, m
  <2>2. SubSeq(all, g + 1, h) \in Seq(Bkt) /\ Len(SubSeq(all, g + 1, h)) = h - g
    BY <1>8, <1>9, <2>1 DEF h
  <2>3. ASSUME NEW k \in 1..m PROVE SubSeq(all, g + 1, h)[k] = all[g + k]
    BY <1>8, <1>9, <2>1 DEF h
  <2> QED BY <2>1, <2>2, <2>3 DEF h
<1> HIDE DEF res, m
<1>11. \A k \in 1..n : OnGrid(done[k].start) /\ done[k].start < c /\ Cell(done[k].start) + (n + 1 - k) <= Cell(c)
  <2> TAKE k \in 1..n
  <2>1. n \in 1..n /\ done # <<>> /\ Last(done) = done[n] /\ k <= n /\ k \in Nat
    BY <1>1 DEF Last
  <2>2. OnGrid(done[k].start) /\ OnGrid(done[n].start) /\ Cell(done[k].start) + (n - k) <= Cell(done[n].start)
    BY <2>1 DEF Charted
  <2>3. c > done[n].start
    BY <2>1 DEF NewBucket
  <2>4. done[n].start < c
    BY <1>6, <2>2, <2>3 DEF OnGrid
  <2>5. Cell(done[n].start) < Cell(c)
    BY <1>6, <2>2, <2>4, CellOrder
  <2>6. Cell(done[n].start) \in Nat /\ Cell(done[k].start) \in Nat /\ Cell(c) \in Nat
    BY <1>6, <2>2, CellIs
  <2> HIDE DEF n, c
  <2>7. Cell(done[k].start) + (n + 1 - k) <= Cell(c) /\ Cell(done[k].start) < Cell(c)
    BY <1>1, <2>1, <2>2, <2>5, <2>6
  <2>8. done[k].start < c
    BY <1>6, <2>2, <2>7, CellOrder
  <2> QED BY <2>2, <2>7, <2>8
<1>12. ASSUME NEW i \in 1..Len(s), s[i].id = id PROVE Belongs(s, i) # c
  <2>1. \/ \E k \in 1..n : done[k].start = Belongs(s, i)
        \/ n = Buckets + 1 /\ Belongs(s, i) < done[1].start
    BY <1>12 DEF Charted
  <2>2. Belongs(s, i) \in Nat
    BY BelongsIs
  <2>3. CASE \E k \in 1..n : done[k].start = Belongs(s, i)
    BY <1>6, <1>11, <2>2, <2>3
  <2>4. CASE n = Buckets + 1 /\ Belongs(s, i) < done[1].start
    <3>1. 1 \in 1..n
      BY <1>1, <2>4
    <3>2. done[1].start < c /\ done[1].start \in Nat
      BY <1>11, <3>1 DEF OnGrid
    <3> HIDE DEF c
    <3> QED BY <1>6, <2>2, <2>4, <3>2
  <2> QED BY <2>1, <2>3, <2>4
<1>13. Meant(S, id, c) = {o}
  <2>1. Placed(s, id, c) = {}
    BY <1>12 DEF Placed
  <2> QED BY <1>2, <2>1, MeantOpens DEF o
<1>14. ASSUME NEW k \in 1..n PROVE Meant(S, id, done[k].start) = {done[k]}
  <2>1. done[k].start # c
    <3>1. done[k].start < c /\ done[k].start \in Nat
      BY <1>11 DEF OnGrid
    <3> HIDE DEF c
    <3> QED BY <1>6, <3>1
  <2>2. Placed(S, id, done[k].start) = Placed(s, id, done[k].start)
    BY <1>2, <2>1, PlacedAppend
  <2>3. Meant(S, id, done[k].start) = Meant(s, id, done[k].start)
    BY <2>2, MeantKept
  <2> QED BY <2>3 DEF Charted
<1> HIDE DEF S, id, c, n
<1>15. \A k \in 1..(n + 1) : OnGrid(all[k].start) /\ Meant(S, id, all[k].start) = {all[k]}
  <2> TAKE k \in 1..(n + 1)
  <2>1. CASE k = n + 1
    BY <1>6, <1>7, <1>8, <1>13, <2>1
  <2>2. CASE k # n + 1
    <3>1. k \in 1..n
      BY <1>1, <2>2
    <3> QED BY <1>8, <1>11, <1>14, <3>1
  <2> QED BY <2>1, <2>2
<1>16. \A j, k \in 1..(n + 1) : j <= k => Cell(all[j].start) + (k - j) <= Cell(all[k].start)
  <2> SUFFICES ASSUME NEW j \in 1..(n + 1), NEW k \in 1..(n + 1), j <= k
               PROVE  Cell(all[j].start) + (k - j) <= Cell(all[k].start)
    OBVIOUS
  <2>1. CASE k # n + 1
    <3>1. j \in 1..n /\ k \in 1..n
      BY <1>1, <2>1
    <3>2. Cell(done[j].start) + (k - j) <= Cell(done[k].start)
      BY <3>1 DEF Charted, n
    <3> QED BY <1>8, <3>1, <3>2
  <2>2. CASE k = n + 1 /\ j # n + 1
    <3>1. j \in 1..n
      BY <1>1, <2>2
    <3>2. Cell(done[j].start) + (n + 1 - j) <= Cell(c) /\ n + 1 - j = k - j
      BY <1>1, <1>11, <2>2, <3>1
    <3> QED BY <1>7, <1>8, <2>2, <3>1, <3>2
  <2>3. CASE k = n + 1 /\ j = n + 1
    <3>1. Cell(c) \in Nat /\ k - j = 0
      BY <1>1, <1>6, <2>3, CellIs
    <3>2. Cell(c) + 0 <= Cell(c)
      BY <3>1
    <3> QED BY <1>7, <1>8, <2>3, <3>1, <3>2
  <2> QED BY <2>1, <2>2, <2>3
<1>17. \A k \in 1..m : g + k \in 1..(n + 1) /\ g + k \in Nat
  BY <1>1, <1>9
<1>18. \A k \in 1..m : OnGrid(res[k].start) /\ Meant(S, id, res[k].start) = {res[k]}
  BY <1>10, <1>15, <1>17
<1>19. \A j, k \in 1..m : j <= k => Cell(res[j].start) + (k - j) <= Cell(res[k].start)
  <2> SUFFICES ASSUME NEW j \in 1..m, NEW k \in 1..m, j <= k
               PROVE  Cell(res[j].start) + (k - j) <= Cell(res[k].start)
    OBVIOUS
  <2>1. g + j <= g + k /\ (g + k) - (g + j) = k - j
    BY <1>9
  <2>2. Cell(all[g + j].start) + ((g + k) - (g + j)) <= Cell(all[g + k].start)
    BY <1>16, <1>17, <2>1
  <2> QED BY <1>10, <2>1, <2>2
<1>20. ASSUME NEW i \in 1..Len(S), S[i].id = id
       PROVE  \/ \E k \in 1..m : res[k].start = Belongs(S, i)
              \/ m = Buckets + 1 /\ Belongs(S, i) < res[1].start
  <2>1. CASE i = Len(s) + 1
    <3>1. m \in 1..m /\ res[m].start = c
      BY <1>7, <1>8, <1>9, <1>10
    <3> QED BY <1>2, <2>1, <3>1
  <2>2. CASE i # Len(s) + 1
    <3>1. i \in 1..Len(s)
      BY <1>3, <2>2
    <3>2. s[i].id = id /\ Belongs(S, i) = Belongs(s, i)
      BY <1>3, <1>4, <1>20, <3>1
    <3>3. \/ \E k \in 1..n : done[k].start = Belongs(s, i)
          \/ n = Buckets + 1 /\ Belongs(s, i) < done[1].start
      BY <3>1, <3>2 DEF Charted, n, id
    <3>4. CASE g = 0
      <4>1. m = n + 1 /\ n <= Buckets
        BY <1>1, <1>8, <1>9, <3>4
      <4>2. ASSUME NEW k \in 1..n PROVE k \in 1..m /\ res[k] = done[k]
        <5>1. k \in 1..m /\ g + k = k
          BY <1>1, <3>4, <4>1
        <5> QED BY <1>8, <1>10, <5>1
      <4>3. n # Buckets + 1
        BY <1>1, <4>1
      <4>4. PICK k \in 1..n : done[k].start = Belongs(s, i)
        BY <3>3, <4>3
      <4> QED BY <3>2, <4>2, <4>4
    <3>5. CASE g = 1
      <4>1. m = n /\ n = Buckets + 1 /\ 1 \in 1..n /\ 2 \in 1..n /\ 1 \in 1..m
        BY <1>1, <1>8, <1>9, <3>5 DEF n
      <4>2. res[1].start = all[2].start /\ all[2] = done[2]
        BY <1>8, <1>9, <1>10, <3>5, <4>1
      <4>3. done[1].start < done[2].start
        <5>1. 1 \in 1..Len(done) /\ 2 \in 1..Len(done) /\ 1 < 2
          BY <4>1 DEF n
        <5> QED BY <5>1, StartsRise
      <4>4. done[1].start \in Nat /\ done[2].start \in Nat /\ Belongs(s, i) \in Nat
        BY <1>11, <3>1, <4>1, BelongsIs DEF OnGrid
      <4>5. CASE n = Buckets + 1 /\ Belongs(s, i) < done[1].start
        BY <3>2, <4>1, <4>2, <4>3, <4>4, <4>5
      <4>6. CASE \E k \in 1..n : done[k].start = Belongs(s, i)
        <5>1. PICK k \in 1..n : done[k].start = Belongs(s, i)
          BY <4>6
        <5>2. CASE k = 1
          BY <3>2, <4>1, <4>2, <4>3, <5>1, <5>2
        <5>3. CASE k # 1
          <6>1. k - 1 \in 1..m /\ g + (k - 1) = k
            BY <1>1, <3>5, <4>1, <5>3
          <6>2. res[k - 1] = done[k]
            BY <1>8, <1>10, <6>1
          <6> QED BY <3>2, <5>1, <6>1, <6>2
        <5> QED BY <5>2, <5>3
      <4> QED BY <3>3, <4>5, <4>6
    <3> QED BY <3>4, <3>5
  <2> QED BY <2>1, <2>2
<1>21. Charted(res, S, id)
  BY <1>9, <1>10, <1>18, <1>19, <1>20 DEF Charted
<1>22. res # <<>>
  BY <1>9, <1>10
<1> QED BY <1>21, <1>22 DEF res, S, id

(* A tier tells its samples after every add (MetricTier::add).             *)
LEMMA AddCharted ==
  ASSUME NEW s \in Seq(Smp), NEW x \in Smp, NEW done, Charted(done, s, x.id)
  PROVE  /\ Charted(TierAdd(done, x.at, x.value), Append(s, x), x.id)
         /\ TierAdd(done, x.at, x.value) # <<>>
<1> DEFINE all == Append(done, Opened(Bucket(x.at), x.value))
           gone == Len(all) - (Buckets + 1)
           h == Len(all)
<1>1. done \in Seq(Bkt) /\ Len(done) <= Buckets + 1 /\ Buckets \in Nat /\ Len(done) \in Nat
  BY MetricAssumption DEF Charted
<1>2. h = Len(done) + 1
  BY <1>1
<1> HIDE DEF h
<1>3. CASE ~NewBucket(done, x.at)
  BY <1>3, FoldCharted DEF TierAdd
<1>4. CASE NewBucket(done, x.at) /\ gone > 0
  <2>1. gone = 1 /\ Len(done) = Buckets + 1
    BY <1>1, <1>2, <1>4 DEF h
  <2>2. TierAdd(done, x.at, x.value) = SubSeq(all, 1 + 1, Len(all))
    <3>1. TierAdd(done, x.at, x.value) = SubSeq(all, gone + 1, Len(all))
      BY <1>4 DEF TierAdd
    <3> HIDE DEF gone, all
    <3> QED BY <2>1, <3>1
  <2>3. Len(all) <= 1 + Buckets + 1
    BY <1>1, <1>2, <2>1 DEF h
  <2>4. Charted(SubSeq(all, 1 + 1, Len(all)), Append(s, x), x.id) /\ SubSeq(all, 1 + 1, Len(all)) # <<>>
    <3>1. all = Append(done, Opened(Bucket(x.at), x.value)) /\ 1 \in {0, 1}
      OBVIOUS
    <3> HIDE DEF all
    <3> QED BY <1>4, <2>1, <2>3, <3>1, OpenCharted
  <2> QED BY <2>2, <2>4
<1>5. CASE NewBucket(done, x.at) /\ ~(gone > 0)
  <2>1. Len(all) <= 0 + Buckets + 1 /\ (0 = 1 => Len(done) = Buckets + 1) /\ 0 \in {0, 1}
    BY <1>1, <1>2, <1>5 DEF h
  <2>2. TierAdd(done, x.at, x.value) = all
    BY <1>5 DEF TierAdd
  <2>3. all = Append(done, Opened(Bucket(x.at), x.value))
    OBVIOUS
  <2>4. SubSeq(all, 0 + 1, Len(all)) = all
    <3>1. x.at \in Nat /\ x.value \in Int
      BY DEF Smp
    <3> DEFINE o == Opened(Bucket(x.at), x.value)
    <3>2. o \in Bkt
      <4> DEFINE c == Bucket(x.at)
      <4>1. c \in Nat
        BY <3>1, BucketIs
      <4> HIDE DEF c
      <4>2. Opened(c, x.value) \in Bkt
        BY <3>1, <4>1 DEF Opened, Bkt
      <4> QED BY <4>2 DEF c
    <3> HIDE DEF o
    <3>3. all \in Seq(Bkt)
      BY <1>1, <3>2 DEF o
    <3> HIDE DEF all
    <3> QED BY <3>3
  <2> HIDE DEF all
  <2>5. Charted(SubSeq(all, 0 + 1, Len(all)), Append(s, x), x.id) /\ SubSeq(all, 0 + 1, Len(all)) # <<>>
    BY <1>5, <2>1, <2>3, OpenCharted
  <2> QED BY <2>2, <2>4, <2>5
<1> QED BY <1>3, <1>4, <1>5

(* The fold over the buckets that points() makes, one bucket at a time from*)
(* the front, and that the recursion has a solution.                       *)
Picking(g, done, oldest, S) ==
  IF S = {} THEN <<>>
  ELSE IF done[Max(S)].start > oldest THEN Append(g[S \ {Max(S)}], done[Max(S)]) ELSE g[S \ {Max(S)}]

Picked(n, done, oldest) == \E g : g = [S \in SUBSET (1..n) |-> Picking(g, done, oldest, S)]

LEMMA PickingExists ==
  ASSUME NEW n \in Nat, NEW done, NEW oldest
  PROVE  Picked(n, done, oldest)
<1> DEFINE P == 1..n
           W(k) == {s \in SUBSET P : Cardinality(s) <= k}
           Good(k, g) == g = [s \in W(k) |-> Picking(g, done, oldest, s)]
           Bad == {k \in Nat : ~\E g : Good(k, g)}
<1>1. IsFiniteSet(P) /\ P \in SUBSET (0..n)
  BY FS_Interval
<1> HIDE DEF P
<1>2. \A s \in SUBSET P : IsFiniteSet(s) /\ Cardinality(s) \in Nat /\ (Cardinality(s) = 0 <=> s = {})
  BY <1>1, FS_Subset, FS_CardinalityType, FS_EmptySet
<1>3. ASSUME NEW k \in Nat, NEW s \in W(k + 1), s # {}
      PROVE  s \ {Max(s)} \in W(k)
  <2>1. Max(s) \in s
    <3>1. s \in SUBSET (0..n)
      BY <1>1
    <3> QED BY <1>3, <3>1, GreatestIs
  <2>2. IsFiniteSet(s) /\ s \ {Max(s)} \in SUBSET P
    BY <1>2
  <2>3. Cardinality(s \ {Max(s)}) = Cardinality(s) - 1 /\ Cardinality(s) \in Nat /\ Cardinality(s) <= k + 1
    BY <1>2, <2>1, <2>2, FS_RemoveElement
  <2>4. Cardinality(s \ {Max(s)}) \in Nat
    BY <1>2, <2>2
  <2> QED BY <2>2, <2>3, <2>4
<1>4. \E g : Good(0, g)
  <2> DEFINE g == [s \in W(0) |-> <<>>]
  <2>1. \A s \in W(0) : Picking(g, done, oldest, s) = <<>>
    BY <1>2 DEF Picking
  <2>2. Good(0, g)
    BY <2>1
  <2> QED BY <2>2
<1>5. ASSUME NEW k \in Nat, \E g : Good(k, g) PROVE \E g : Good(k + 1, g)
  <2>1. PICK h : Good(k, h)
    BY <1>5
  <2> DEFINE g == [s \in W(k + 1) |-> Picking(h, done, oldest, s)]
  <2>2. ASSUME NEW s \in W(k) PROVE s \in W(k + 1) /\ g[s] = h[s]
    <3>1. s \in W(k + 1)
      BY <1>2
    <3>2. h[s] = Picking(h, done, oldest, s)
      BY <2>1
    <3> QED BY <3>1, <3>2
  <2>3. ASSUME NEW s \in W(k + 1) PROVE Picking(h, done, oldest, s) = Picking(g, done, oldest, s)
    <3>1. CASE s = {}
      BY <3>1 DEF Picking
    <3>2. CASE s # {}
      <4>1. g[s \ {Max(s)}] = h[s \ {Max(s)}]
        BY <1>3, <2>2, <3>2
      <4> QED BY <4>1, <3>2 DEF Picking
    <3> QED BY <3>1, <3>2
  <2>4. g = [s \in W(k + 1) |-> Picking(g, done, oldest, s)]
    BY <2>3
  <2> HIDE DEF g
  <2> QED BY <2>4
<1> HIDE DEF Good
<1>6. Bad = {}
  <2> SUFFICES ASSUME Bad # {} PROVE FALSE
    OBVIOUS
  <2>1. PICK k \in Bad : \A m \in Bad : k <= m
    BY NatMin
  <2>2. k # 0
    BY <1>4, <2>1
  <2>3. k - 1 \in Nat /\ k - 1 \notin Bad /\ (k - 1) + 1 = k
    BY <2>1, <2>2
  <2>4. \E g : Good(k - 1, g)
    BY <2>3
  <2>5. \E g : Good((k - 1) + 1, g)
    BY <1>5, <2>3, <2>4
  <2> QED BY <2>1, <2>3, <2>5
<1>7. Cardinality(P) \in Nat
  BY <1>1, FS_CardinalityType
<1>8. PICK g : Good(Cardinality(P), g)
  BY <1>6, <1>7
<1>9. W(Cardinality(P)) = SUBSET P
  BY <1>1, FS_Subset, <1>2, <1>7
<1>10. g = [S \in SUBSET P |-> Picking(g, done, oldest, S)]
  BY <1>8, <1>9 DEF Good
<1> QED BY <1>10 DEF P, Picked

(* The points shown are the buckets later than the oldest of the window, in*)
(* order.                                                                  *)
LastLeftOut(now) == Bucket(now) - BucketWidth * Buckets

LEMMA PointsRec ==
  ASSUME NEW done \in Seq(Bkt), NEW now
  PROVE  \E g : /\ g[1..Len(done)] = Points(done, now)
                /\ \A S \in SUBSET (1..Len(done)) : g[S] = Picking(g, done, LastLeftOut(now), S)
<1> DEFINE P == 1..Len(done)
           oldest == Bucket(now) - BucketWidth * Buckets
           Def(h) == [S \in SUBSET P |-> IF S = {} THEN <<>>
                        ELSE IF done[Max(S)].start > oldest
                             THEN Append(h[S \ {Max(S)}], done[Max(S)]) ELSE h[S \ {Max(S)}]]
           iter == CHOOSE h : h = Def(h)
<1>1. DOMAIN done = P /\ Len(done) \in Nat
  OBVIOUS
<1>2. Points(done, now) = iter[P]
  BY <1>1 DEF Points, FoldLeft, MapThenFoldSet
<1>3. PICK g : g = [S \in SUBSET P |-> Picking(g, done, oldest, S)]
  <2> HIDE DEF oldest
  <2>1. Picked(Len(done), done, oldest)
    BY <1>1, PickingExists
  <2> QED BY <2>1 DEF Picked
<1>4. g = Def(g)
  BY <1>3 DEF Picking
<1>5. iter = Def(iter)
  BY <1>4
<1> HIDE DEF iter
<1>6. \A S \in SUBSET P : iter[S] = Picking(iter, done, oldest, S)
  BY <1>5 DEF Picking
<1> QED BY <1>2, <1>6 DEF LastLeftOut

LEMMA PointsAre ==
  ASSUME NEW done \in Seq(Bkt), NEW now, LastLeftOut(now) \in Int,
         \A j, k \in 1..Len(done) : j < k => done[j].start < done[k].start
  PROVE  LET shown == Points(done, now)
         IN /\ shown \in Seq(Bkt)
            /\ Range(shown) = {done[k] : k \in {j \in 1..Len(done) : done[j].start > LastLeftOut(now)}}
            /\ \A i, j \in DOMAIN shown : i < j => shown[i].start < shown[j].start
<1> DEFINE n == Len(done)
           oldest == LastLeftOut(now)
<1>1. PICK g : /\ g[1..n] = Points(done, now)
               /\ \A S \in SUBSET (1..n) : g[S] = Picking(g, done, oldest, S)
  BY PointsRec
<1>2. n \in Nat /\ oldest \in Int
  OBVIOUS
<1> HIDE DEF n, oldest
<1> DEFINE Up(m) == {j \in 1..m : done[j].start > oldest}
           Fine(m) == /\ g[1..m] \in Seq(Bkt)
                      /\ Range(g[1..m]) = {done[k] : k \in Up(m)}
                      /\ \A i, j \in DOMAIN g[1..m] : i < j => g[1..m][i].start < g[1..m][j].start
           Bad == {m \in Nat : m <= n /\ ~Fine(m)}
<1>3. Fine(0)
  <2>1. 1..0 = {}
    OBVIOUS
  <2>2. {} \in SUBSET (1..n)
    OBVIOUS
  <2>3. g[{}] = <<>>
    BY <1>1, <2>2 DEF Picking
  <2>4. g[1..0] = <<>>
    BY <2>1, <2>3
  <2>5. Up(0) = {}
    BY <2>1
  <2>6. Range(<<>>) = {} /\ <<>> \in Seq(Bkt) /\ DOMAIN <<>> = {}
    BY DEF Range
  <2> HIDE DEF Up
  <2> QED BY <2>4, <2>5, <2>6
<1>4. ASSUME NEW m \in Nat, m + 1 <= n, Fine(m) PROVE Fine(m + 1)
  <2> DEFINE S == 1..(m + 1)
             b == done[m + 1]
             old == g[1..m]
             new == g[S]
  <2>1. S \in SUBSET (1..n) /\ m + 1 \in S /\ S \in SUBSET (0..(m + 1)) /\ S \ {m + 1} = 1..m /\ m + 1 \in 1..n
    BY <1>2, <1>4
  <2>2. Max(S) = m + 1
    <3>1. \A y \in S : y <= m + 1 /\ y \in Nat
      BY <1>4
    <3> HIDE DEF S
    <3>2. Max(S) \in S /\ \A y \in S : Max(S) >= y
      <4>1. m + 1 \in Nat /\ S # {} /\ S \in SUBSET (0..(m + 1))
        BY <1>4, <2>1
      <4> QED BY <4>1, GreatestIs
    <3> QED BY <1>4, <2>1, <3>1, <3>2
  <2>3. new = IF b.start > oldest THEN Append(old, b) ELSE old
    <3> HIDE DEF S
    <3>1. S # {}
      BY <2>1
    <3>2. g[S] = Picking(g, done, oldest, S)
      BY <1>1, <2>1
    <3> QED BY <2>1, <2>2, <3>1, <3>2, Zenon DEF Picking
  <2>4. b \in Bkt /\ b.start \in Nat /\ \A k \in 1..m : k \in 1..n /\ done[k].start < b.start
    <3>1. b \in Bkt
      BY <2>1 DEF n
    <3>2. \A k \in 1..m : k \in 1..n /\ k < m + 1
      BY <1>2, <1>4
    <3> QED BY <2>1, <3>1, <3>2 DEF Bkt, n
  <2>5. /\ old \in Seq(Bkt) /\ Range(old) = {done[k] : k \in Up(m)}
        /\ \A i, j \in DOMAIN old : i < j => old[i].start < old[j].start
    BY <1>4
  <2> HIDE DEF new, old, b, S
  <2>6. CASE ~(b.start > oldest)
    <3>1. new = old
      BY <2>3, <2>6
    <3>2. Up(m + 1) = Up(m)
      <4>1. \A k \in 1..(m + 1) : k = m + 1 \/ k \in 1..m
        BY <1>4
      <4>2. \A k \in 1..m : k \in 1..(m + 1)
        BY <1>4
      <4> QED BY <2>6, <4>1, <4>2 DEF b
    <3> HIDE DEF Up
    <3> QED BY <2>5, <3>1, <3>2 DEF new, S
  <2>7. CASE b.start > oldest
    <3> DEFINE l == Len(old)
    <3>1. new = Append(old, b)
      BY <2>3, <2>7
    <3>2. l \in Nat /\ DOMAIN old = 1..l
      BY <2>5
    <3>3. /\ new \in Seq(Bkt) /\ DOMAIN new = 1..(l + 1) /\ new[l + 1] = b
          /\ \A i \in 1..l : new[i] = old[i]
      BY <2>4, <2>5, <3>1
    <3> HIDE DEF l
    <3>4. Up(m + 1) = Up(m) \cup {m + 1}
      <4>1. \A k \in 1..(m + 1) : k = m + 1 \/ k \in 1..m
        BY <1>4
      <4>2. \A k \in 1..m : k \in 1..(m + 1)
        BY <1>4
      <4>3. m + 1 \in 1..(m + 1)
        BY <1>4
      <4> QED BY <2>7, <4>1, <4>2, <4>3 DEF b
    <3>5. \A k \in Up(m) : k \in 1..m
      OBVIOUS
    <3> HIDE DEF Up
    <3>6. Range(new) = Range(old) \cup {b}
      <4>1. \A i \in 1..(l + 1) : i = l + 1 \/ i \in 1..l
        BY <3>2
      <4>2. \A i \in 1..l : i \in 1..(l + 1)
        BY <3>2
      <4>3. l + 1 \in 1..(l + 1)
        BY <3>2
      <4> QED BY <3>2, <3>3, <4>1, <4>2, <4>3 DEF Range
    <3>7. Range(new) = {done[k] : k \in Up(m + 1)}
      BY <2>5, <3>4, <3>6 DEF b
    <3>8. \A i \in 1..l : old[i].start < b.start
      <4> TAKE i \in 1..l
      <4>1. old[i] \in Range(old)
        BY <3>2 DEF Range
      <4>2. PICK k \in Up(m) : old[i] = done[k]
        BY <2>5, <4>1
      <4> QED BY <2>4, <3>5, <4>2
    <3>9. ASSUME NEW i \in DOMAIN new, NEW j \in DOMAIN new, i < j PROVE new[i].start < new[j].start
      <4>1. i \in 1..l
        BY <3>2, <3>3, <3>9
      <4>2. CASE j = l + 1
        BY <3>3, <3>8, <4>1, <4>2
      <4>3. CASE j # l + 1
        <5>1. j \in 1..l
          BY <3>2, <3>3, <4>3
        <5> QED BY <2>5, <3>2, <3>3, <3>9, <4>1, <5>1
      <4> QED BY <4>2, <4>3
    <3> QED BY <3>3, <3>7, <3>9 DEF new, S
  <2> QED BY <2>6, <2>7
<1> HIDE DEF Fine
<1>5. Bad = {}
  <2> SUFFICES ASSUME Bad # {} PROVE FALSE
    OBVIOUS
  <2>1. PICK m \in Bad : \A k \in Bad : m <= k
    BY NatMin
  <2>2. m # 0
    BY <1>3, <2>1
  <2>3. m - 1 \in Nat /\ m - 1 <= n /\ (m - 1) + 1 = m /\ m <= n /\ m - 1 \notin Bad
    BY <1>2, <2>1, <2>2
  <2>4. Fine(m - 1)
    BY <2>3
  <2>5. Fine((m - 1) + 1)
    BY <1>4, <2>3, <2>4
  <2> QED BY <2>1, <2>3, <2>5
<1>6. Fine(n)
  BY <1>2, <1>5
<1> QED BY <1>1, <1>6 DEF Fine, n, oldest

(* A window shows what was meant for it: a bucket in it is one of the tier,*)
(* since a tier that has dropped one spans the window.                     *)
LEMMA ShownAre ==
  ASSUME NEW s \in Seq(Smp), NEW id, NEW done, Charted(done, s, id), done # <<>>,
         NEW now \in Nat, Last(done).start <= now
  PROVE  LET shown == Points(done, now)
             window == {Bucket(now) - BucketWidth * k : k \in 0..(Buckets - 1)}
         IN /\ Range(shown) = UNION {Meant(s, id, w) : w \in window}
            /\ \A i, j \in DOMAIN shown : i < j => shown[i].start < shown[j].start
<1> DEFINE p == now \div BucketWidth
           n == Len(done)
           oldest == LastLeftOut(now)
           c(k) == Cell(done[k].start)
           shown == Points(done, now)
           window == {Bucket(now) - BucketWidth * k : k \in 0..(Buckets - 1)}
<1>1. BucketWidth \in Nat \ {0} /\ Buckets \in Nat \ {0}
  BY MetricAssumption
<1>2. p \in Nat /\ Bucket(now) = p * BucketWidth /\ now < Bucket(now) + BucketWidth
  BY BucketIs
<1>3. done \in Seq(Bkt) /\ n \in Nat \ {0}
  BY DEF Charted
<1> HIDE DEF p
<1>4. oldest = (p - Buckets) * BucketWidth /\ oldest \in Int
  BY <1>1, <1>2 DEF LastLeftOut
<1> HIDE DEF oldest
<1>5. ASSUME NEW k \in 1..n
      PROVE  /\ done[k].start \in Nat /\ c(k) \in Nat /\ done[k].start = c(k) * BucketWidth
             /\ Meant(s, id, done[k].start) = {done[k]}
  <2>1. OnGrid(done[k].start) /\ Meant(s, id, done[k].start) = {done[k]}
    BY DEF Charted
  <2> QED BY <2>1, CellIs
<1>6. ASSUME NEW k \in 1..n PROVE c(k) + (n - k) <= c(n)
  <2>1. n \in 1..n /\ k <= n
    BY <1>3
  <2> QED BY <2>1 DEF Charted
<1> HIDE DEF c
<1>7. c(n) <= p
  <2>1. n \in 1..n /\ done[n].start <= now
    BY <1>3 DEF Last
  <2>2. c(n) \in Nat /\ done[n].start = c(n) * BucketWidth
    BY <1>5, <2>1
  <2>3. c(n) * BucketWidth < (p + 1) * BucketWidth
    BY <1>1, <1>2, <2>1, <2>2
  <2>4. c(n) < p + 1
    BY <1>1, <1>2, <2>2, <2>3, TimesOrder
  <2> QED BY <1>2, <2>2, <2>4
<1>8. ASSUME NEW k \in 1..n PROVE c(k) <= p /\ (done[k].start > oldest <=> c(k) > p - Buckets)
  <2>1. c(k) \in Nat /\ done[k].start = c(k) * BucketWidth /\ p - Buckets \in Int
    BY <1>1, <1>2, <1>5
  <2>2. (p - Buckets < c(k)) <=> ((p - Buckets) * BucketWidth < c(k) * BucketWidth)
    BY <1>1, <2>1, TimesOrder
  <2>3. c(k) <= p
    <3>1. n \in 1..n
      BY <1>3
    <3>2. c(n) \in Nat /\ c(k) + (n - k) <= c(n)
      BY <3>1, <1>5, <1>6
    <3> QED BY <1>2, <1>3, <1>7, <2>1, <3>2
  <2>4. done[k].start > oldest <=> oldest < done[k].start
    BY <1>4, <1>5
  <2> QED BY <1>1, <1>2, <1>4, <2>1, <2>2, <2>3, <2>4
<1>9. /\ shown \in Seq(Bkt)
      /\ Range(shown) = {done[k] : k \in {j \in 1..n : done[j].start > oldest}}
      /\ \A i, j \in DOMAIN shown : i < j => shown[i].start < shown[j].start
  <2>1. \A j, k \in 1..n : j < k => done[j].start < done[k].start
    BY StartsRise
  <2>2. LastLeftOut(now) \in Int
    BY <1>4 DEF oldest
  <2> QED BY <1>3, <2>1, <2>2, PointsAre DEF oldest
<1> HIDE DEF shown
<1>10. ASSUME NEW k \in 1..n, done[k].start > oldest
       PROVE  \E w \in window : done[k] \in Meant(s, id, w)
  <2>1. c(k) <= p /\ c(k) > p - Buckets /\ c(k) \in Nat /\ done[k].start = c(k) * BucketWidth
    BY <1>5, <1>8, <1>10
  <2>2. p - c(k) \in 0..(Buckets - 1)
    BY <1>1, <1>2, <2>1
  <2>3. done[k].start = Bucket(now) - BucketWidth * (p - c(k))
    BY <1>1, <1>2, <2>1
  <2>4. done[k].start \in window
    BY <2>2, <2>3
  <2> QED BY <1>5, <2>4
<1>11. ASSUME NEW w \in window, NEW b \in Meant(s, id, w)
       PROVE  \E k \in 1..n : done[k].start > oldest /\ b = done[k]
  <2>1. PICK i \in DOMAIN s : s[i].id = id /\ Belongs(s, i) = w
    <3>1. Placed(s, id, w) # {}
      BY <1>11 DEF Meant
    <3> QED BY <3>1 DEF Placed
  <2>2. PICK h \in 0..(Buckets - 1) : w = Bucket(now) - BucketWidth * h
    OBVIOUS
  <2>3. w \in Int /\ w > oldest
    <3>1. w = (p - h) * BucketWidth /\ p - Buckets < p - h /\ p - h \in Int /\ p - Buckets \in Int
      BY <1>1, <1>2, <2>2
    <3>2. (p - Buckets) * BucketWidth < (p - h) * BucketWidth
      BY <1>1, <3>1, TimesOrder
    <3> QED BY <1>1, <1>4, <3>1, <3>2
  <2>4. \/ \E k \in 1..n : done[k].start = w
        \/ n = Buckets + 1 /\ w < done[1].start
    BY <2>1 DEF Charted
  <2>5. ~(n = Buckets + 1 /\ w < done[1].start)
    <3> SUFFICES ASSUME n = Buckets + 1, w < done[1].start PROVE FALSE
      OBVIOUS
    <3>1. 1 \in 1..n /\ n \in 1..n
      BY <1>3
    <3>2. c(1) \in Nat /\ c(n) \in Nat /\ c(1) + (n - 1) <= c(n) /\ done[1].start \in Nat
      BY <3>1, <1>5, <1>6
    <3>3. ~(c(1) > p - Buckets)
      BY <1>1, <1>2, <1>3, <1>7, <3>2
    <3>4. ~(done[1].start > oldest)
      BY <3>1, <3>3, <1>8
    <3> QED BY <1>4, <2>3, <3>2, <3>4
  <2>6. PICK k \in 1..n : done[k].start = w
    BY <2>4, <2>5
  <2>7. b = done[k]
    BY <1>5, <1>11, <2>6
  <2> QED BY <2>3, <2>6, <2>7
<1>12. Range(shown) = UNION {Meant(s, id, w) : w \in window}
  <2> HIDE DEF window
  <2>1. \A b : b \in Range(shown) <=> \E k \in 1..n : done[k].start > oldest /\ b = done[k]
    BY <1>9
  <2>2. \A b : b \in Range(shown) => b \in UNION {Meant(s, id, w) : w \in window}
    BY <2>1, <1>10
  <2>3. \A b : b \in UNION {Meant(s, id, w) : w \in window} => b \in Range(shown)
    BY <2>1, <1>11
  <2> QED BY <2>2, <2>3
<1> QED BY <1>9, <1>12 DEF shown, window

(* Every series tells its samples, and a series that is listed has some.   *)
ChartInv ==
  /\ stamp \in Nat /\ sampled \in Seq(Smp)
  /\ order \in Seq(SeriesIds) /\ DOMAIN series = SeriesIds
  /\ \A id \in SeriesIds : /\ Charted(series[id], sampled, id)
                           /\ id \in Range(order) => series[id] # <<>>

(* Such series make true charts at every time from their last bucket on.   *)
LEMMA ChartInvTells == ChartInv => ChartTells
<1> SUFFICES ASSUME ChartInv, NEW id \in Range(order), NEW now \in Last(series[id]).start..MaxStamp
             PROVE  LET shown == Points(series[id], now)
                        window == {Bucket(now) - BucketWidth * k : k \in 0..(Buckets - 1)}
                    IN /\ Range(shown) = UNION {Meant(sampled, id, w) : w \in window}
                       /\ \A i, j \in DOMAIN shown : i < j => shown[i].start < shown[j].start
  BY DEF ChartTells
<1> DEFINE done == series[id]
<1>1. id \in SeriesIds
  BY DEF ChartInv, Range
<1>2. Charted(done, sampled, id) /\ done # <<>> /\ sampled \in Seq(Smp)
  BY <1>1 DEF ChartInv
<1> HIDE DEF done
<1>3. Last(done).start \in Nat
  <2>1. done \in Seq(Bkt) /\ Len(done) \in 1..Len(done)
    BY <1>2 DEF Charted
  <2>2. done[Len(done)] \in Bkt
    BY <2>1
  <2> QED BY <2>2 DEF Last, Bkt
<1>4. now \in Nat /\ Last(done).start <= now
  BY <1>3, MetricAssumption DEF done
<1>5. LET shown == Points(done, now)
          window == {Bucket(now) - BucketWidth * k : k \in 0..(Buckets - 1)}
      IN /\ Range(shown) = UNION {Meant(sampled, id, w) : w \in window}
         /\ \A i, j \in DOMAIN shown : i < j => shown[i].start < shown[j].start
  BY <1>2, <1>4, ShownAre
<1> QED BY <1>5 DEF done

(* A sample, stamped at any time at all, keeps that so; so does every other*)
(* step.                                                                   *)
LEMMA SampleKeepsChart ==
  ASSUME ChartInv, NEW t \in 0..MaxStamp, NEW id \in SeriesIds, NEW v \in {0, 1}, Sample(id, t, v)
  PROVE  ChartInv'
<1> DEFINE x == [id |-> id, at |-> t, value |-> v]
<1>1. x \in Smp /\ x.id = id /\ x.at = t /\ x.value = v /\ t \in Nat
  BY MetricAssumption DEF Smp
<1> HIDE DEF x
<1>2. /\ stamp \in Nat /\ sampled \in Seq(Smp)
      /\ order \in Seq(SeriesIds) /\ DOMAIN series = SeriesIds
      /\ \A i \in SeriesIds : /\ Charted(series[i], sampled, i)
                              /\ i \in Range(order) => series[i] # <<>>
  BY DEF ChartInv
<1>3. CASE UNCHANGED <<order, series, sampled>> /\ stamp' = t
  BY <1>1, <1>2, <1>3 DEF ChartInv
<1>4. CASE /\ stamp' = t
           /\ order' = IF id \in Range(order) THEN order ELSE Append(order, id)
           /\ series' = [series EXCEPT ![id] = TierAdd(@, t, v)]
           /\ sampled' = Append(sampled, x)
  <2>1. sampled' \in Seq(Smp) /\ stamp' \in Nat
    BY <1>1, <1>2, <1>4
  <2>2. order' \in Seq(SeriesIds)
    <3>1. Append(order, id) \in Seq(SeriesIds)
      BY <1>2
    <3> QED BY <1>2, <1>4, <3>1
  <2>3. \A i \in Range(order') : i = id \/ i \in Range(order)
    <3>1. CASE order' = order
      BY <3>1
    <3>2. CASE order' = Append(order, id)
      <4>1. Len(order) \in Nat /\ DOMAIN order' = 1..(Len(order) + 1)
        BY <1>2, <3>2
      <4>2. \A i \in 1..(Len(order) + 1) : order'[i] = id \/ (i \in DOMAIN order /\ order'[i] = order[i])
        BY <1>2, <3>2
      <4> QED BY <4>1, <4>2 DEF Range
    <3> QED BY <1>4, <3>1, <3>2
  <2>4. /\ DOMAIN series' = SeriesIds /\ series'[id] = TierAdd(series[id], t, v)
        /\ \A i \in SeriesIds : i # id => series'[i] = series[i]
    BY <1>2, <1>4
  <2>5. Charted(series'[id], sampled', id) /\ series'[id] # <<>>
    <3> DEFINE d == series[id]
    <3>1. Charted(d, sampled, x.id) /\ sampled \in Seq(Smp)
      BY <1>1, <1>2
    <3> HIDE DEF d
    <3>2. /\ Charted(TierAdd(d, x.at, x.value), Append(sampled, x), x.id)
          /\ TierAdd(d, x.at, x.value) # <<>>
      BY <1>1, <3>1, AddCharted
    <3> QED BY <1>1, <1>4, <2>4, <3>2 DEF d
  <2>6. ASSUME NEW i \in SeriesIds, i # id
        PROVE  Charted(series'[i], sampled', i) /\ (i \in Range(order') => series'[i] # <<>>)
    <3> DEFINE d == series[i]
    <3>1. Charted(d, sampled, i) /\ sampled \in Seq(Smp) /\ i # x.id
      BY <1>1, <1>2, <2>6
    <3> HIDE DEF d
    <3>2. Charted(d, Append(sampled, x), i)
      BY <1>1, <3>1, OthersCharted
    <3>3. series'[i] = d
      BY <2>4, <2>6 DEF d
    <3> QED BY <1>2, <1>4, <2>3, <2>6, <3>2, <3>3 DEF d
  <2> QED BY <2>1, <2>2, <2>4, <2>5, <2>6 DEF ChartInv
<1> QED BY <1>3, <1>4 DEF Sample, x

LEMMA ChartsStart == Init => ChartInv /\ BarInv
<1> SUFFICES ASSUME Init PROVE ChartInv /\ BarInv
  OBVIOUS
<1>1. /\ stamp = 0 /\ series = [id \in SeriesIds |-> <<>>] /\ order = <<>> /\ changes = <<>>
      /\ sampled = <<>> /\ turns = <<>> /\ trimmed = FALSE
  BY DEF Init, MetricInit
<1>2. ASSUME NEW id PROVE Charted(<<>>, <<>>, id)
  <2>1. <<>> \in Seq(Bkt) /\ Len(<<>>) = 0 /\ Len(<<>>) <= Buckets + 1
    BY MetricAssumption
  <2> QED BY <2>1 DEF Charted
<1>3. Range(<<>>) = {}
  BY DEF Range
<1>4. ChartInv
  BY <1>1, <1>2, <1>3 DEF ChartInv
<1>5. Gone(0)
  BY <1>1 DEF Gone
<1>6. turns \in Seq(Turn) /\ DOMAIN turns = {}
  BY <1>1
<1>7. BarInv
  BY <1>1, <1>5, <1>6 DEF BarInv
<1> QED BY <1>4, <1>7

LEMMA ChartsStep == ChartInv /\ BarInv /\ [Next]_vars => ChartInv' /\ BarInv'
<1> SUFFICES ASSUME ChartInv, BarInv, [Next]_vars PROVE ChartInv' /\ BarInv'
  OBVIOUS
<1>1. SampleNext \/ ServingNext \/ UNCHANGED metricVars
  BY Zenon DEF Next, vars, MonitorStep, PublishStep, ThreadsStep, TicksStep, DriftStep, ChartStep
<1>2. \A t \in Stamps : t \in 0..MaxStamp /\ t \in Nat
  BY MetricAssumption DEF Stamps
<1>3. ASSUME UNCHANGED metricVars PROVE ChartInv' /\ BarInv'
  BY <1>3 DEF ChartInv, BarInv, Gone, metricVars
<1>4. ASSUME SampleNext PROVE ChartInv' /\ BarInv'
  <2>1. PICK t \in Stamps : \E id \in SeriesIds, v \in {0, 1} : Sample(id, t, v)
    BY <1>4 DEF SampleNext
  <2>2. PICK id \in SeriesIds : \E v \in {0, 1} : Sample(id, t, v)
    BY <2>1
  <2>3. PICK v \in {0, 1} : Sample(id, t, v)
    BY <2>2
  <2>4. ChartInv'
    BY <1>2, <2>3, SampleKeepsChart
  <2>5. UNCHANGED <<changes, turns, trimmed>> /\ stamp' \in Nat
    BY <1>2, <2>3 DEF Sample
  <2> QED BY <2>4, <2>5 DEF BarInv, Gone
<1>5. ASSUME ServingNext PROVE ChartInv' /\ BarInv'
  <2>1. PICK t \in Stamps : \E s \in {"primary", "secondary"} : SetServing(t, s)
    BY <1>5 DEF ServingNext
  <2>2. PICK s \in {"primary", "secondary"} : SetServing(t, s)
    BY <2>1
  <2>3. BarInv'
    BY <1>2, <2>2, ServingKeepsBar
  <2>4. UNCHANGED <<series, order, sampled>> /\ stamp' \in Nat
    BY <1>2, <2>2 DEF SetServing
  <2> QED BY <2>3, <2>4 DEF ChartInv
<1> QED BY <1>1, <1>3, <1>4, <1>5

(* The charts and the bar of the status page are what was sampled, for     *)
(* every width, capacity and period kept, every number of series and any   *)
(* steps of the served time, back or forth (MetricTier::add and points,    *)
(* StateTimeline::set and since).                                          *)
THEOREM ChartsAreTrue == Spec => []ChartsTell
<1>1. Init => ChartInv /\ BarInv
  BY ChartsStart
<1>2. ChartInv /\ BarInv /\ [Next]_vars => ChartInv' /\ BarInv'
  BY ChartsStep
<1>3. ChartInv /\ BarInv => ChartsTell
  BY ChartInvTells, BarInvTells DEF ChartsTell
<1> QED BY <1>1, <1>2, <1>3, PTL DEF Spec
=============================================================================
