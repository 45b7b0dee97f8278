----------------------------- MODULE ClientTally ----------------------------
(***************************************************************************)
(* Who asks the NTP service the time (src/src/ClientTally.cpp): for each   *)
(* client a ring of one counter a minute for the past hour, in a map that  *)
(* is capped.                                                              *)
(*                                                                         *)
(* A minute is PerMinute ticks, and a slot saturates at CounterMax.  The   *)
(* count of limited requests is kept in a second ring that every operation *)
(* treats as it does the first, and is left out.                           *)
(***************************************************************************)
EXTENDS MonotonicClock, FiniteSetsExt

CONSTANTS
  Callers,     \* the labels of clients
  Minutes,     \* kMinutes
  MaxCallers,  \* kMaxClients
  CounterMax,  \* UINT32_MAX
  PerMinute    \* ticks in a minute

ASSUME ClientTallyAssumption ==
  /\ IsFiniteSet(Callers) /\ Minutes \in Nat \ {0} /\ MaxCallers \in Nat \ {0}
  /\ CounterMax \in Nat \ {0} /\ PerMinute \in Nat \ {0}
  /\ MaxSkew <= PerMinute /\ Minutes > 1  \* a call is late by a minute at the most

VARIABLES
  tally,       \* m_clients
  tallySwept,  \* m_lastSweep
  truth        \* history: each client's requests by minute since its entry was made

tallyVars == <<tally, tallySwept>>
tallySpecVars == <<now, tally, tallySwept, truth>>

MinuteOf(t) == t \div PerMinute
NoEntry == [m \in 0..MinuteOf(MaxNow) |-> 0]

TallyInit ==
  /\ tally = [c \in {} |-> 0] /\ tallySwept = -Second  \* long ago
  /\ truth = [c \in Callers |-> NoEntry]
-----------------------------------------------------------------------------
\* A slip: C++'s remainder, which keeps the sign (a negative slot is not there).
SlotTruncated(k) == IF k < 0 THEN Minutes - 1 - ((-k) % Minutes) ELSE k % Minutes

\* Minute k's slot, floored.
Slot(k) == k % Minutes

\* Move an entry on to minute m, clearing the slots it has skipped.
Advance(e, m) ==
  IF m <= e.last THEN e
  ELSE LET gap == Smaller(m - e.last, Minutes)
           skipped == {Slot(e.last + k) : k \in 1..gap}
       IN [last |-> m,
           requests |-> [i \in 0..Minutes - 1 |-> IF i \in skipped THEN 0 ELSE e.requests[i]]]

\* What an entry holds of minute k: its ring ends with the minute it was last moved to.
Held(e, k) == IF e.last - Minutes < k /\ k <= e.last THEN e.requests[Slot(k)] ELSE 0

\* The past hour as seen at minute m.
PastHour(e, m) == SumFunction([k \in m - Minutes + 1 .. m |-> Held(e, k)])

RoomLeft(T) == Cardinality(DOMAIN T) < MaxCallers

\* A slip: at the cap everyone is dropped.
DropAll(T, m) == [c \in {} |-> 0]

\* At the cap: drop whoever was quiet for the hour or was seen once in it.
DropQuiet(T, m) == [c \in {d \in DOMAIN T : PastHour(T[d], m) > 1} |-> T[c]]

NewEntry(m) == [last |-> m, requests |-> [i \in 0..Minutes - 1 |-> 0]]
Counted(e, m) ==
  LET f == Advance(e, m) IN [f EXCEPT !.requests[Slot(m)] = Smaller(@ + 1, CounterMax)]

\* record() at time t; T is the map after the sweep, if there was one.
Record(c, t) ==
  LET m == MinuteOf(t)
      sweep == c \notin DOMAIN tally /\ ~RoomLeft(tally) /\ t - tallySwept >= Second
      T == IF sweep THEN DropQuiet(tally, m) ELSE tally
      taken == c \in DOMAIN T \/ RoomLeft(T)
      e == IF c \in DOMAIN T THEN T[c] ELSE NewEntry(m)
      kept == [d \in Callers |-> IF d \in DOMAIN T THEN truth[d] ELSE NoEntry]
  IN /\ tallySwept' = IF sweep THEN t ELSE tallySwept
     /\ tally' = IF taken THEN [d \in DOMAIN T \union {c} |-> IF d = c THEN Counted(e, m) ELSE T[d]]
                 ELSE T
     /\ truth' = IF taken THEN [kept EXCEPT ![c][m] = Smaller(@ + 1, CounterMax)] ELSE kept

\* top(): the busiest clients of the past hour, and what they asked.
Top(m) == {[client |-> c, requests |-> PastHour(tally[c], m)] :
             c \in {d \in DOMAIN tally : PastHour(tally[d], m) > 0}}
-----------------------------------------------------------------------------
(* The tally by itself.                                                    *)
AskTally == (\E c \in Callers, t \in Stamps : Record(c, t)) /\ UNCHANGED now

TallyWaits == AdvanceClock /\ UNCHANGED <<tally, tallySwept, truth>>

TallyStart == now = 0 /\ TallyInit
TallyNext == AskTally \/ TallyWaits
TallySpec == TallyStart /\ [][TallyNext]_tallySpecVars
-----------------------------------------------------------------------------
TallyTypeOK ==
  /\ now \in 0..MaxNow /\ tallySwept \in -Second..now /\ DOMAIN tally \subseteq Callers
  /\ Cardinality(DOMAIN tally) <= MaxCallers
  /\ \A c \in DOMAIN tally : /\ tally[c].last \in 0..MinuteOf(now)
                           /\ \A i \in 0..Minutes - 1 : tally[c].requests[i] \in 0..CounterMax

Asked(c, k) == IF k < 0 THEN 0 ELSE truth[c][k]
AskedInHour(c) == SumFunction([k \in MinuteOf(now) - Minutes + 1 .. MinuteOf(now) |-> Asked(c, k)])

\* What top() gives is the clients that asked in the last Minutes minutes and
\* how often, in the first hour after a boot too and however long a client
\* was silent.
TopIsExact ==
  Top(MinuteOf(now)) = {[client |-> c, requests |-> AskedInHour(c)] :
                          c \in {d \in DOMAIN tally : AskedInHour(d) > 0}}

\* "Clients quiet for the hour or seen only once are dropped"
\* (ClientTally.h): a client that has asked more than once in the past hour
\* stays, as long as the sweep is made with a time of the minute under way.
BusyKept ==
  \A c \in DOMAIN tally :
    AskedInHour(c) > 1 /\ c \notin DOMAIN tally' => MinuteOf(tallySwept') < MinuteOf(now)
=============================================================================
