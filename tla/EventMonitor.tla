---------------------------- MODULE EventMonitor ----------------------------
(***************************************************************************)
(* EventMonitor::observe of Events.cpp: every pass of the main loop is     *)
(* compared with the one before, and what changed becomes events.  An      *)
(* event is what it is about and what it says of that; its wording is left *)
(* out.  One radio source stands for all of them, and one NTP source.      *)
(***************************************************************************)
EXTENDS Naturals, Sequences

VARIABLES
  snap,    \* the radio source's snapshot, as the last pass saw it
  verdict, \* what the consensus said of it
  ntp,     \* the NTP source's snapshot
  clock,   \* the Combined of the last pass, and activation()
  rs, ns,  \* m_sources of the two
  mon      \* the monitor's own members

monitorVars == <<snap, verdict, ntp, clock, rs, ns, mon>>

Links == {"Idle", "Connecting", "Streaming", "Backoff"}
Event(on, is) == [on |-> on, is |-> is]
Said(b) == IF b THEN "yes" ELSE "no"
When(cond, e) == IF cond THEN <<e>> ELSE <<>>

UnseenSource ==
  [seen |-> FALSE, ready |-> FALSE, link |-> "Idle", failReported |-> FALSE, station |-> "unknown",
   refused |-> FALSE, rejecting |-> FALSE, adoptions |-> 0, held |-> FALSE]
UnseenPeer == [seen |-> FALSE, ready |-> FALSE, kiss |-> "", up |-> "none"]
NewMonitor ==
  [first |-> TRUE, sync |-> FALSE, serving |-> "none", stratum |-> 0, leap |-> FALSE,
   side |-> "none", primary |-> FALSE, secondary |-> FALSE, active |-> TRUE]
-----------------------------------------------------------------------------
\* Only a source meant to be connected can be said to have lost anything.
ReadyEvents(st, s, on) ==
  When(s.ready /\ ~st.ready, Event(on, "yes")) \o When(~s.ready /\ st.ready /\ s.active, Event(on, "no"))

LinkUp(st, s)   == s.link = "Streaming" /\ st.link # "Streaming"
LinkLost(st, s) == st.link = "Streaming" /\ s.link # "Streaming"
\* Slip: reported at every turn of the backoff.
EveryBackoff(st, s) == s.link = "Backoff" /\ st.link # "Backoff" /\ s.active /\ ~LinkLost(st, s)
LinkFails(st, s) == s.link = "Backoff" /\ ~st.failReported /\ s.active /\ ~LinkLost(st, s)

LinkEvents(st, s) ==
  When(LinkUp(st, s), Event("link", "up"))
    \o When(LinkLost(st, s) \/ LinkFails(st, s), Event("link", "down"))

TimingEvents(st, s) ==
  When(s.station # st.station /\ s.station # "unknown", Event("station", s.station))
    \o When(s.rejecting /\ ~st.rejecting, Event("time", "refused"))
    \o When(s.adoptions > st.adoptions, Event("time", "adopted"))
    \o When(s.held # st.held, Event("held", Said(s.held)))

\* Out of the candidates there is no verdict either way, so the state holds.
AgreementEvents(st, v) ==
  When(v.refused /\ ~st.refused, Event("agreement", "refused"))
    \o When(~v.refused /\ v.judged /\ st.refused, Event("agreement", "accepted"))

\* First sight: nothing has changed yet, but a link is taken to have been idle.
FirstSight(st, s) == IF st.seen THEN st ELSE [st EXCEPT !.seen = TRUE, !.station = s.station]

AfterSource(st, s, v) ==
  [seen |-> TRUE, ready |-> s.ready, link |-> s.link,
   failReported |-> CASE LinkUp(st, s) -> FALSE
                      [] LinkLost(st, s) \/ LinkFails(st, s) -> TRUE
                      [] OTHER -> st.failReported,
   station |-> IF s.station # "unknown" THEN s.station ELSE st.station,
   refused |-> ~v.reacquire /\ (v.refused \/ (~v.judged /\ st.refused)),
   rejecting |-> s.rejecting, adoptions |-> s.adoptions, held |-> s.held]

RadioEvents(st0, s, v) ==
  LET st == FirstSight(st0, s)
  IN ReadyEvents(st, s, "ready") \o LinkEvents(st, s) \o TimingEvents(st, s) \o AgreementEvents(st, v)

\* The upstream of an NTP server, "none" while its stratum is not one.
FirstAnswer(st, n) == IF st.seen THEN st ELSE [st EXCEPT !.seen = TRUE, !.kiss = n.kiss, !.up = n.up]
NtpEvents(st0, n) ==
  LET st == FirstAnswer(st0, n)
  IN ReadyEvents(st, n, "peer")
       \o When(n.kiss # "" /\ n.kiss # st.kiss, Event("kiss", n.kiss))
       \o When(n.up # "none" /\ st.up # "none" /\ n.up # st.up, Event("upstream", n.up))
AfterPeer(st, n) ==
  [seen |-> TRUE, ready |-> n.ready, kiss |-> n.kiss, up |-> IF n.up # "none" THEN n.up ELSE st.up]
-----------------------------------------------------------------------------
\* The classes; a standby that is stood down is not news.
ClassEvents(m, c) ==
  When(c.primary # m.primary, Event("primary", Said(c.primary)))
    \o When(c.active /\ c.secondary # m.secondary, Event("secondary", Said(c.secondary)))
    \o When(c.active # m.active /\ ~m.first, Event("standby", Said(c.active)))

OneSide(c) == c.serving \in {"primary", "secondary"}
\* Slip: a class that coasts and comes back has taken over.
AnySide(m, c) == IF c.serving # "both" THEN c.serving ELSE m.side
SideAfter(m, c) ==
  CASE OneSide(c) -> c.serving
    [] c.serving = "both" /\ m.side = "none" -> "primary"
    [] OTHER -> m.side
SideEvents(m, c) ==
  When(OneSide(c) /\ c.serving # m.side /\ (m.side # "none" \/ c.serving = "secondary"),
       Event("side", c.serving))

\* What the log says of the served time; "synchronised" and "stratum changed" both name the stratum.
Served(stratum) == <<"synchronised", stratum>>
Coasting == <<"coasting", 0>>
Unserved == <<"unsynchronised", 0>>

Live(c) == c.sync /\ c.serving # "coasting"
ServedEvents(m, c) ==
  When(c.serving = "coasting" /\ m.serving \notin {"coasting", "none"}, Event("served", Coasting))
    \o When(~c.sync /\ m.sync, Event("served", Unserved))
    \o When(Live(c) /\ (~Live(m) \/ c.stratum # m.stratum), Event("served", Served(c.stratum)))
    \o When(c.leap # m.leap, Event("leap", Said(c.leap)))

ClockEvents(m, c) == ClassEvents(m, c) \o SideEvents(m, c) \o ServedEvents(m, c)

AfterPass(m, c) ==
  [first |-> FALSE, sync |-> c.sync, serving |-> c.serving,
   stratum |-> IF Live(c) THEN c.stratum ELSE m.stratum, leap |-> c.leap,
   side |-> SideAfter(m, c), primary |-> c.primary,
   secondary |-> c.active /\ c.secondary, active |-> c.active]

\* One pass, and the events of it in the order they are recorded.
Observe(s, v, n, c) ==
  /\ snap' = s /\ verdict' = v /\ ntp' = n /\ clock' = c
  /\ rs' = AfterSource(FirstSight(rs, s), s, v)
  /\ ns' = AfterPeer(FirstAnswer(ns, n), n)
  /\ mon' = AfterPass(mon, c)

PassEvents(s, v, n, c) ==
  RadioEvents(rs, s, v) \o NtpEvents(ns, n)
    \o When(v.reacquire, Event("agreement", "reacquire")) \o ClockEvents(mon, c)
-----------------------------------------------------------------------------
NoVerdict == [refused |-> FALSE, judged |-> FALSE, reacquire |-> FALSE]

MonitorInit ==
  /\ snap = [ready |-> FALSE, active |-> TRUE, link |-> "Idle", station |-> "unknown",
             rejecting |-> FALSE, adoptions |-> 0, held |-> FALSE]
  /\ verdict = NoVerdict
  /\ ntp = [ready |-> FALSE, active |-> TRUE, kiss |-> "", up |-> "none"]
  /\ clock = [serving |-> "none", sync |-> FALSE, stratum |-> 1, leap |-> FALSE,
              primary |-> FALSE, secondary |-> FALSE, active |-> TRUE]
  /\ rs = UnseenSource /\ ns = UnseenPeer /\ mon = NewMonitor

\* External: what the radio source and the consensus may show next.
SourceTurns ==
  \/ \E r, a \in BOOLEAN, l \in Links :
       Observe([snap EXCEPT !.ready = r, !.active = a, !.link = l], verdict, ntp, clock)
  \/ \E st \in {"unknown", "wwv", "wwvh"}, h, j \in BOOLEAN, k \in {0, 1} :
       /\ k >= snap.adoptions /\ (k > snap.adoptions => ~j)
       /\ Observe([snap EXCEPT !.station = st, !.held = h, !.rejecting = j, !.adoptions = k],
                  verdict, ntp, clock)
  \/ \E f, j, q \in BOOLEAN :
       /\ q => f
       /\ Observe(snap, [refused |-> f, judged |-> j, reacquire |-> q], ntp, clock)

PeerTurns ==
  \E r \in BOOLEAN, k \in {"", "RATE", "DENY"}, u \in {"none", "a", "b"} :
    Observe(snap, verdict, [ntp EXCEPT !.ready = r, !.kiss = k, !.up = u], clock)

\* External: the served time as the Selector moves it.
ServedAfter(c) ==
  [serving : {"primary", "secondary", "both"}, sync : {TRUE}]
    \union (IF c.serving = "none" THEN [serving : {"none"}, sync : {FALSE}]
            ELSE [serving : {"coasting"}, sync : {c.sync, FALSE}])

ClockTurns ==
  \E w \in ServedAfter(clock), s \in {1, 2}, l, p, q, a \in BOOLEAN :
    Observe(snap, verdict, ntp,
            [serving |-> w.serving, sync |-> w.sync,
             stratum |-> IF w.serving = "coasting" THEN clock.stratum ELSE s,
             leap |-> l, primary |-> p, secondary |-> q, active |-> a])
=============================================================================
