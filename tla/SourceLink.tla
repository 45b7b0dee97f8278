----------------------------- MODULE SourceLink -----------------------------
(***************************************************************************)
(* The life of a radio source's connection (Source.cpp): the supervisor    *)
(* thread, the callbacks of the WebSocket's own thread, and the calls of   *)
(* the main loop.  Only the supervisor starts and stops the socket; the    *)
(* others set flags and wake it.                                           *)
(*                                                                         *)
(* The source is one on 60 kHz, whose station (MSF or WWVB) is not known   *)
(* until the receiver has said where it is; every other broadcast is the   *)
(* same with the station known from the start.  Time is counted in wakes   *)
(* of the supervisor.                                                      *)
(***************************************************************************)
EXTENDS SourceThread, Naturals

CONSTANTS
  BackoffMin, BackoffMax,  \* kBackoffMin, kBackoffMax
  TooOldRetry,             \* kTooOldRetrySec
  ProvenAfter,             \* kProvenAfterSec, also how long a socket may take to open
  SilentAfter,             \* how long a stream may be silent
  Lf60Wait                 \* kLf60DescriptionWaitSec

ASSUME LinkAssumption ==
  /\ {BackoffMin, BackoffMax} \subseteq Nat \ {0} /\ BackoffMin <= BackoffMax
  /\ {TooOldRetry, ProvenAfter, SilentAfter, Lf60Wait} \subseteq Nat /\ BackoffMax <= TooOldRetry

VARIABLES
  tooOld,     \* m_serverTooOld
  ws,         \* the socket: none, connecting, opening, open, closed
  opened,     \* m_socketOpen
  link,       \* m_snap.link
  linkAge,    \* since m_linkSince
  audioAge,   \* since m_lastAudioAt, NoAudio when that is 0
  age,        \* since connectStarted
  sawOpen, proven, wasInactive, backoff,  \* the supervisor's locals
  wait,       \* what is left of a timed wait
  desc,       \* m_descriptionTried, m_descriptionAnswered, receiverLocation.valid
  lf60,       \* m_lf60
  lf60Age,    \* since m_lf60WaitSince, NoAudio when that is 0
  decoder     \* which decoder exists; "refused" is m_rateRefused

linkVars ==
  <<pc, running, active, reacquire, tooOld, ws, opened, link, linkAge, audioAge, age, sawOpen,
    proven, wasInactive, backoff, wait, desc, lf60, lf60Age, decoder>>

NoAudio == 99
\* A second older; past the limit it is compared with, how far does not matter.
Older(t, limit) == IF t = NoAudio \/ t > limit THEN t ELSE t + 1

\* fetchDescription: what is known of the receiver after asking it (again).
Description(d) ==
  CASE d = "located" -> {"located"}
    [] d = "bare" -> {"bare", "located"}
    [] OTHER -> {"failed", "bare", "located"}

LinkInit ==
  /\ pc = "top" /\ running = TRUE /\ active \in BOOLEAN
  /\ reacquire = FALSE /\ tooOld = FALSE
  /\ ws = "none" /\ opened = FALSE /\ link = "Stopped" /\ linkAge = 0 /\ audioAge = NoAudio
  /\ age = 0 /\ sawOpen = FALSE /\ proven = FALSE /\ wasInactive = FALSE
  /\ backoff = BackoffMin /\ wait = 0
  /\ desc \in Description("untried") /\ lf60 = "unknown" /\ lf60Age = NoAudio /\ decoder = "none"

\* The head of the supervisor's loop: stop, the idle gate, or another attempt.
Top ==
  /\ pc = "top"
  /\ \/ /\ ~running
        /\ pc' = "done" /\ link' = "Stopped"
        /\ UNCHANGED <<wasInactive, backoff, reacquire, tooOld, linkAge>>
     \/ /\ running /\ ~active
        /\ pc' = "idle" /\ link' = "Idle" /\ wasInactive' = TRUE
        /\ linkAge' = IF wasInactive THEN linkAge ELSE 0
        /\ UNCHANGED <<backoff, reacquire, tooOld>>
     \/ /\ running /\ active
        /\ pc' = "handshake" /\ link' = "Connecting" /\ linkAge' = 0
        /\ wasInactive' = FALSE
        /\ backoff' = IF wasInactive THEN BackoffMin ELSE backoff
        /\ reacquire' = FALSE /\ tooOld' = FALSE
  /\ UNCHANGED <<running, active, ws, opened, audioAge, age, sawOpen, proven, wait, desc, lf60,
                 lf60Age, decoder>>

\* A second at the idle gate, or less when woken.
IdleGate ==
  /\ pc = "idle" /\ pc' = "top"
  /\ UNCHANGED <<running, active, reacquire, tooOld, ws, opened, link, linkAge, audioAge, age,
                 sawOpen, proven, wasInactive, backoff, wait, desc, lf60, lf60Age, decoder>>

\* sessionHandshake refused or failed.
HandshakeFails ==
  /\ pc = "handshake"
  /\ pc' = "backoff" /\ wait' = backoff /\ link' = "Backoff" /\ linkAge' = 0
  /\ UNCHANGED <<running, active, reacquire, tooOld, ws, opened, audioAge, age, sawOpen, proven,
                 wasInactive, backoff, desc, lf60, lf60Age, decoder>>

\* A session: the socket is made and started.
Connect ==
  /\ pc = "handshake"
  /\ pc' = "stream" /\ ws' = "connecting" /\ opened' = FALSE
  /\ UNCHANGED <<running, active, reacquire, tooOld, link, linkAge, audioAge, age, sawOpen, proven,
                 wasInactive, backoff, wait, desc, lf60, lf60Age, decoder>>

\* A backoff is cut short by a stop only, and then doubles.
BackoffWait ==
  /\ pc = "backoff"
  /\ IF wait > 0 /\ running
     THEN wait' = wait - 1 /\ UNCHANGED <<pc, backoff>>
     ELSE /\ pc' = "top" /\ wait' = 0
          /\ backoff' = IF 2 * backoff < BackoffMax THEN 2 * backoff ELSE BackoffMax
  /\ UNCHANGED <<running, active, reacquire, tooOld, ws, opened, link, linkAge, audioAge, age,
                 sawOpen, proven, wasInactive, desc, lf60, lf60Age, decoder>>

\* The long wait on a receiver that is too old; standby ends it too.
TooOldWait ==
  /\ pc = "tooOld"
  /\ IF wait > 0 /\ running /\ active
     THEN wait' = wait - 1 /\ UNCHANGED pc
     ELSE wait' = 0 /\ pc' = "top"
  /\ UNCHANGED <<running, active, reacquire, tooOld, ws, opened, link, linkAge, audioAge, age,
                 sawOpen, proven, wasInactive, backoff, desc, lf60, lf60Age, decoder>>

Silence == IF audioAge' = NoAudio THEN linkAge' ELSE audioAge'
\* Slip: a connection has proved itself as soon as it is open.
ProvesOnOpen == opened
Proves == opened /\ age' >= ProvenAfter

\* Slip: a stream may be silent for ever.
NeverSilent ==
  \/ ~running \/ ~active
  \/ opened /\ (tooOld \/ reacquire)
  \/ ~opened /\ (sawOpen \/ age' > ProvenAfter)
\* Slip: an open connection is kept through standby.
KeptInStandby ==
  \/ ~running
  \/ opened /\ (tooOld \/ reacquire \/ Silence > SilentAfter)
  \/ ~opened /\ (sawOpen \/ age' > ProvenAfter)
\* Slip: a request to start over is not looked at.
ReacquireIgnored ==
  \/ ~running \/ ~active
  \/ opened /\ (tooOld \/ Silence > SilentAfter)
  \/ ~opened /\ (sawOpen \/ age' > ProvenAfter)

\* One turn of the stream loop ends the connection, or it does not.
Drops ==
  \/ ~running \/ ~active
  \/ opened /\ (tooOld \/ reacquire \/ Silence > SilentAfter)
  \/ ~opened /\ (sawOpen \/ age' > ProvenAfter)

StreamTurn ==
  /\ pc = "stream"
  /\ age' = Older(age, ProvenAfter) /\ linkAge' = Older(linkAge, SilentAfter)
  /\ audioAge' = Older(audioAge, SilentAfter) /\ lf60Age' = Older(lf60Age, Lf60Wait - 1)
  /\ pc' = IF Drops THEN "teardown" ELSE "stream"
  /\ IF running /\ active /\ opened
     THEN /\ desc' \in IF sawOpen THEN {desc} ELSE Description(desc)
          /\ sawOpen' = TRUE
          /\ proven' = (proven \/ Proves)
          /\ backoff' = IF Proves /\ ~proven THEN BackoffMin ELSE backoff
          /\ reacquire' = (reacquire /\ tooOld)
     ELSE UNCHANGED <<desc, sawOpen, proven, backoff, reacquire>>
  /\ UNCHANGED <<running, active, tooOld, ws, opened, link, wasInactive, wait, lf60, decoder>>

(* The socket is stopped, which joins its thread, and the stream forgotten. *)
(* The locals of this connection go out of scope.                           *)
Teardown ==
  /\ pc = "teardown"
  /\ age' = 0 /\ sawOpen' = FALSE /\ proven' = FALSE
  /\ ws' = "none" /\ opened' = FALSE /\ decoder' = "none"
  /\ IF ~running \/ ~active
     THEN pc' = "top" /\ UNCHANGED <<link, linkAge, wait>>
     ELSE /\ link' = "Backoff" /\ linkAge' = 0
          /\ pc' = IF tooOld THEN "tooOld" ELSE "backoff"
          /\ wait' = IF tooOld THEN TooOldRetry ELSE backoff
  /\ UNCHANGED <<running, active, reacquire, tooOld, audioAge, wasInactive, backoff, desc, lf60,
                 lf60Age>>

Supervise ==
  \/ Top \/ IdleGate \/ HandshakeFails \/ Connect
  \/ BackoffWait \/ TooOldWait \/ StreamTurn \/ Teardown
-----------------------------------------------------------------------------
\* onOpen: the flag first, then the rest under the mutex.
OpenFlag ==
  /\ ws = "connecting" /\ ws' = "opening" /\ opened' = TRUE
  /\ UNCHANGED <<pc, running, active, reacquire, tooOld, link, linkAge, audioAge, age, sawOpen,
                 proven, wasInactive, backoff, wait, desc, lf60, lf60Age, decoder>>

OpenState ==
  /\ ws = "opening" /\ ws' = "open"
  /\ link' = "Streaming" /\ linkAge' = 0 /\ audioAge' = NoAudio
  /\ UNCHANGED <<pc, running, active, reacquire, tooOld, opened, age, sawOpen, proven, wasInactive,
                 backoff, wait, desc, lf60, lf60Age, decoder>>

Close ==
  /\ ws \in {"connecting", "open"} /\ ws' = "closed" /\ opened' = FALSE
  /\ UNCHANGED <<pc, running, active, reacquire, tooOld, link, linkAge, audioAge, age, sawOpen,
                 proven, wasInactive, backoff, wait, desc, lf60, lf60Age, decoder>>

\* resolveLf60, with MSF the nearer station of a receiver that says where it is.
ResolveLf60(waited) ==
  CASE desc = "located" -> "msf"
    [] desc # "located" /\ lf60 # "unknown" -> lf60
    [] desc = "bare" /\ lf60 = "unknown" -> "wwvb"
    [] OTHER -> IF waited # NoAudio /\ waited >= Lf60Wait THEN "wwvb" ELSE "unknown"

\* ensureDecoder at a rate that can be decimated evenly, or not.
EnsureDecoder(good) ==
  LET waited == IF desc = "failed" /\ lf60 = "unknown" /\ lf60Age = NoAudio THEN 0 ELSE lf60Age
      want   == ResolveLf60(waited)
  IN /\ lf60Age' = waited
     /\ lf60' = want
     /\ decoder' = IF want = "unknown" THEN decoder ELSE IF good THEN want ELSE "refused"

\* A frame of audio, of a protocol this daemon decodes.
AudioFrame(good) ==
  /\ ws = "open"
  /\ audioAge' = 0
  /\ EnsureDecoder(good)
  /\ UNCHANGED <<pc, running, active, reacquire, tooOld, ws, opened, link, linkAge, age, sawOpen,
                 proven, wasInactive, backoff, wait, desc>>

\* ...and one of a version before it.
OldFrame ==
  /\ ws = "open" /\ audioAge' = 0 /\ tooOld' = TRUE
  /\ UNCHANGED <<pc, running, active, reacquire, ws, opened, link, linkAge, age, sawOpen, proven,
                 wasInactive, backoff, wait, desc, lf60, lf60Age, decoder>>

SocketThread ==
  OpenFlag \/ OpenState \/ Close \/ (\E good \in BOOLEAN : AudioFrame(good)) \/ OldFrame
-----------------------------------------------------------------------------
SetLinkActive(on) ==
  /\ on # active /\ active' = on
  /\ UNCHANGED <<pc, running, reacquire, tooOld, ws, opened, link, linkAge, audioAge, age, sawOpen,
                 proven, wasInactive, backoff, wait, desc, lf60, lf60Age, decoder>>

RequestLinkReacquire ==
  /\ ~reacquire /\ reacquire' = TRUE
  /\ UNCHANGED <<pc, running, active, tooOld, ws, opened, link, linkAge, audioAge, age, sawOpen,
                 proven, wasInactive, backoff, wait, desc, lf60, lf60Age, decoder>>

StopSource ==
  /\ running /\ running' = FALSE
  /\ UNCHANGED <<pc, active, reacquire, tooOld, ws, opened, link, linkAge, audioAge, age, sawOpen,
                 proven, wasInactive, backoff, wait, desc, lf60, lf60Age, decoder>>

MainLoop == (\E on \in BOOLEAN : SetLinkActive(on)) \/ RequestLinkReacquire \/ StopSource

LinkNext == Supervise \/ SocketThread \/ MainLoop

\* The supervisor is a thread of its own: whatever it waits for is a timed wait.
LinkSpec == LinkInit /\ [][LinkNext]_linkVars /\ WF_linkVars(Supervise)
=============================================================================
