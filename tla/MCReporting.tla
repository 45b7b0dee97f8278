---------------------------- MODULE MCReporting -----------------------------
(***************************************************************************)
(* What the daemon tells of itself: the events and their publication, the  *)
(* threads and the ticks of the status service, the histories behind its   *)
(* charts, and the figure it leaves for its next run.  These parts share   *)
(* no state but the event log; a behaviour is of one of them, chosen at    *)
(* the start, so that their state spaces add.                              *)
(***************************************************************************)
EXTENDS MqttPublisher, EventMonitor, HttpApi, DriftFile, MetricHistory

\* The correction follows a drift, or steps.
SmallAndLarge == {-12, -2, 1, 30}

VARIABLES
  part,    \* which part this behaviour is of
  told,    \* what a reader of the event log takes each thing to be
  repeats  \* the last pass recorded something the log had already said

vars == <<part, told, repeats, mqttVars, monitorVars, httpVars, tickVars, driftVars, metricVars>>

Parts == {"publish", "radio", "peer", "clock", "threads", "ticks", "drift", "chart", "bar"}

\* What each thing is taken to be before the log has said anything of it.
Untold ==
  [ready |-> "no", link |-> "unknown", station |-> "unknown", time |-> "kept", held |-> "no",
   agreement |-> "accepted", peer |-> "no", kiss |-> "", upstream |-> "none", primary |-> "no",
   secondary |-> "no", standby |-> "unknown", side |-> "none", served |-> Unserved, leap |-> "no"]

Init ==
  /\ part \in Parts /\ told = Untold /\ repeats = FALSE
  /\ MqttInit /\ MonitorInit /\ HttpInit /\ DriftInit /\ MetricInit
  /\ TickInit /\ (part # "ticks" => corrected = 0)
-----------------------------------------------------------------------------
\* Things that happen, and may happen again; the others are states.
Occurrences == {"time", "kiss"}
\* What the first n events leave a reader thinking of one thing, who thought `before` of it.
LastWord(events, n, on, before) ==
  LET about == {i \in 1..n : events[i].on = on}
  IN IF about = {} THEN before ELSE events[Max(about)].is
\* An event that says of a thing what had been said of it last.
SaysAgain(events, on, before) ==
  \E i \in 1..Len(events) : events[i].on = on /\ events[i].is = LastWord(events, i - 1, on, before)
Replay(events) == [on \in DOMAIN told |-> LastWord(events, Len(events), on, told[on])]
Repetitive(events) == \E on \in DOMAIN told \ Occurrences : SaysAgain(events, on, told[on])

\* A source or a class that is meant to be out is not said to be out.
Known(t) ==
  [t EXCEPT !.ready = IF snap'.active \/ snap'.ready THEN @ ELSE "unknown",
            !.secondary = IF clock'.active THEN @ ELSE "unknown"]

MonitorStep ==
  /\ \/ part = "radio" /\ SourceTurns
     \/ part = "peer" /\ PeerTurns
     \/ part = "clock" /\ ClockTurns
  /\ \E events \in {PassEvents(snap', verdict', ntp', clock')} :
       told' = Known(Replay(events)) /\ repeats' = Repetitive(events)
  /\ UNCHANGED <<part, mqttVars, httpVars, tickVars, driftVars, metricVars>>

PublishStep ==
  /\ part = "publish" /\ MqttNext
  /\ UNCHANGED <<part, told, repeats, monitorVars, httpVars, tickVars, driftVars, metricVars>>

ThreadsStep ==
  /\ part = "threads" /\ HttpNext
  /\ UNCHANGED <<part, told, repeats, mqttVars, monitorVars, tickVars, driftVars, metricVars>>

TicksStep ==
  /\ part = "ticks" /\ TickNext
  /\ UNCHANGED <<part, told, repeats, mqttVars, monitorVars, httpVars, driftVars, metricVars>>

DriftStep ==
  /\ part = "drift" /\ DriftNext
  /\ UNCHANGED <<part, told, repeats, mqttVars, monitorVars, httpVars, tickVars, metricVars>>

ChartStep ==
  /\ (part = "chart" /\ SampleNext) \/ (part = "bar" /\ ServingNext)
  /\ UNCHANGED <<part, told, repeats, mqttVars, monitorVars, httpVars, tickVars, driftVars>>

Next == MonitorStep \/ PublishStep \/ ThreadsStep \/ TicksStep \/ DriftStep \/ ChartStep

Spec == Init /\ [][Next]_vars /\ WF_mqttVars(PublisherStep)
-----------------------------------------------------------------------------
(* A reader who replays the event log knows the state the daemon is in:    *)
(* no change of the link, the lock, the verdict, the serving class, the    *)
(* stratum or the leap flag goes unrecorded in any order of passes, and    *)
(* nothing is recorded that had not changed (EventMonitor::observe).       *)
LogTellsState ==
  /\ ~repeats
  /\ told.link = "up" <=> snap.link = "Streaming"
  /\ snap.ready => told.ready = "yes"
  /\ snap.active /\ told.ready = "yes" => snap.ready
  /\ snap.station # "unknown" => told.station \in {snap.station, "unknown"}
  /\ told.held = Said(snap.held)
  /\ snap.rejecting => told.time = "refused"
  /\ verdict.refused /\ ~verdict.reacquire => told.agreement = "refused"
  /\ verdict.judged /\ ~verdict.refused => told.agreement # "refused"
  /\ told.peer = "yes" <=> ntp.ready
  /\ ntp.up # "none" => told.upstream \in {ntp.up, "none"}
  /\ told.primary = Said(clock.primary) /\ told.leap = Said(clock.leap)
  /\ clock.active /\ clock.secondary => told.secondary = "yes"
  /\ clock.active /\ told.secondary = "yes" => clock.secondary
  /\ told.standby \in {Said(clock.active), "unknown"}
  /\ OneSide(clock) => told.side \in {clock.serving, "none"}
  /\ told.served = IF Live(clock) THEN Served(clock.stratum)
                   ELSE IF clock.sync THEN Coasting ELSE Unserved
=============================================================================
