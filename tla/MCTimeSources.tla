--------------------------- MODULE MCTimeSources ----------------------------
(***************************************************************************)
(* A time source of either kind and the main thread that parks it, wakes   *)
(* it, sends it back and stops it: an NTP peer with a short backoff and a  *)
(* server that answers in every way; one with a register of four and every *)
(* sequence of round trips; and the connection of a radio source.          *)
(***************************************************************************)
EXTENDS NtpPeer, SourceLink
-----------------------------------------------------------------------------
(* How a radio source treats its receiver, which may refuse, hang, go      *)
(* silent, drop the connection or turn out too old: the history of its     *)
(* attempts.                                                               *)
VARIABLES
  owed,    \* history: the wait the receiver is owed before the next attempt, doubled by
           \* every attempt in a row that came to nothing since standby
  slept    \* history: what the supervisor has slept since the last attempt, up to BackoffMax

attemptVars == <<linkVars, owed, slept>>

AttemptInit == LinkInit /\ owed = 0 /\ slept = 0

\* What is owed after one more failure.
Doubled(w) == IF w = 0 THEN BackoffMin ELSE IF 2 * w < BackoffMax THEN 2 * w ELSE BackoffMax

Fails ==
  /\ HandshakeFails
  /\ owed' = Doubled(owed) /\ slept' = 0

\* A connection given up for standby is no failure, and needs no wait.
Ends ==
  /\ Teardown
  /\ owed' = IF (sawOpen /\ age >= ProvenAfter) \/ ~active THEN 0 ELSE IF tooOld THEN owed ELSE Doubled(owed)
  /\ slept' = IF active THEN 0 ELSE BackoffMax

Sleeps ==
  /\ BackoffWait \/ TooOldWait
  /\ slept' = IF pc = "tooOld" /\ ~active THEN BackoffMax
              ELSE IF wait > 0 /\ slept < BackoffMax THEN slept + 1 ELSE slept
  /\ UNCHANGED owed

Parks == IdleGate /\ owed' = 0 /\ slept' = BackoffMax

Supervised == Fails \/ Ends \/ Sleeps \/ Parks
              \/ ((Top \/ Connect \/ StreamTurn) /\ UNCHANGED <<owed, slept>>)

AttemptNext == Supervised \/ ((SocketThread \/ MainLoop) /\ UNCHANGED <<owed, slept>>)

AttemptSpec == AttemptInit /\ [][AttemptNext]_attemptVars /\ WF_attemptVars(Supervised)
-----------------------------------------------------------------------------
(* The source a behaviour is about.                                        *)
CONSTANT LongRegister  \* the register of the second peer

VARIABLE part          \* the source a behaviour is about

\* Answers where every round trip is alike.
PacingAnswers == {<<"usable", 1>>, <<"rate", 1>>, <<"rate", 4>>, <<"deny">>, <<"refused">>}
\* Answers where they are not.
FilterAnswers == {<<"usable", 1>>, <<"usable", 4>>, <<"usable", 9>>}

Filter == INSTANCE NtpPeer
            WITH BurstCount <- 1, ReresolveAfter <- 1,
                 FilterSize <- LongRegister, Answers <- FilterAnswers

partVars == <<part, vars, attemptVars>>

\* What only one kind of source has, and the other leaves as it starts.
peerOnly == <<peer, unhanded, earned>>
linkOnly ==
  <<tooOld, ws, opened, link, linkAge, audioAge, age, sawOpen, proven, wasInactive, backoff, wait,
    desc, lf60, lf60Age, decoder, owed, slept>>

Start ==
  /\ AttemptInit
  /\ \/ part = "pacing" /\ Init /\ desc = "failed"
     \/ part = "filter" /\ Filter!Init /\ desc = "failed"
     \/ part = "link" /\ peer = Fresh /\ unhanded = 0 /\ earned = 0

\* A step of the peer, or of the radio source.
OfPeer(pacing, filter) ==
  ((part = "pacing" /\ pacing) \/ (part = "filter" /\ filter)) /\ UNCHANGED <<part, linkOnly>>
OfLink(step) == part = "link" /\ step /\ UNCHANGED <<part, peerOnly>>

Step == OfPeer(Next, Filter!Next) \/ OfLink(AttemptNext)

(* The threads keep running and none of their waits lasts for ever, as in  *)
(* NtpPeer and SourceLink.                                                 *)
Sources ==
  /\ Start /\ [][Step]_partVars
  /\ WF_partVars(OfPeer(Turn, Filter!Turn) \/ OfLink(Supervised))
-----------------------------------------------------------------------------
(* A receiver is never hammered: after attempts in a row that failed or    *)
(* never settled, the next one comes no sooner than the backoff they have  *)
(* doubled, except out of standby (/connection is rate limited).           *)
Spaced == pc = "top" /\ pc' = "handshake" => slept >= owed
AttemptsSpaced == [][Spaced]_attemptVars

(* A source put in standby, or stopped, lets go of its connection, however *)
(* far it had got with making one.                                         *)
ConnectionReleased ==
  (~running \/ ~active) ~> (ws = "none" \/ (running /\ active))

(* An order to start over is carried out: the connection it found open is  *)
(* given up, and the decoder with it, though the order may arrive at any   *)
(* point of the connection's life.                                         *)
StartsOver == (reacquire /\ ws = "open") ~> (ws = "none" /\ decoder = "none")

(* It tries for ever ("no failure here is worth giving up on"): a source   *)
(* that is wanted keeps attempting, or in the end holds a connection that  *)
(* never goes silent for longer than the limit.                            *)
KeepsTrying ==
  part = "link" /\ <>[](running /\ active)
    => []<>(pc = "handshake") \/ <>[](pc = "stream" /\ audioAge <= SilentAfter)
=============================================================================
