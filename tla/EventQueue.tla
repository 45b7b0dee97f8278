----------------------------- MODULE EventQueue -----------------------------
(***************************************************************************)
(* What the reader of the event log is promised, without the log, the      *)
(* tokens, the holds or the probes: events are numbered as they happen and *)
(* settled in that order, each of them taken by the receiver or counted as *)
(* lost, and lost only when Capacity newer ones had happened already.  An  *)
(* event whose answer went missing is offered again; nothing newer is      *)
(* offered before it.                                                      *)
(*                                                                         *)
(* QueueSpec is that promise.  RefusingSpec is what is left of it when the *)
(* receiver may answer that it will not have an event: such an event is    *)
(* settled without being taken or counted, and nothing else is.            *)
(***************************************************************************)
EXTENDS Naturals, Sequences

CONSTANT Capacity  \* EventLog::kCapacity

VARIABLES
  recorded,  \* events that have happened, which is the newest one's number
  settled,   \* the newest event that needs nothing more
  lost,      \* events that were given up
  seen,      \* what the receiver has taken, in order
  turned     \* what it has said it will not have

queueVars == <<recorded, settled, lost, seen, turned>>

QueueInit == recorded = 0 /\ settled = 0 /\ lost = 0 /\ seen = <<>> /\ turned = {}

Happen == recorded' = recorded + 1 /\ UNCHANGED <<settled, lost, seen, turned>>

\* The receiver takes the oldest event; whether this side hears of it is another matter.
Take ==
  /\ settled < recorded
  /\ seen' = Append(seen, settled + 1)
  /\ settled' \in {settled, settled + 1}
  /\ UNCHANGED <<recorded, lost, turned>>

\* Overwritten before its turn came.
Overwritten ==
  \E k \in 1..recorded :
    /\ settled + k + Capacity <= recorded
    /\ settled' = settled + k /\ lost' = lost + k
    /\ UNCHANGED <<recorded, seen, turned>>

QueueNext == Happen \/ Take \/ Overwritten

QueueSpec == QueueInit /\ [][QueueNext]_queueVars

\* The receiver says it will not have the oldest event, and it is not offered again.
TurnAway ==
  /\ settled < recorded /\ settled' = settled + 1
  /\ turned' = turned \union {settled + 1}
  /\ UNCHANGED <<recorded, lost, seen>>

RefusingSpec == QueueInit /\ [][QueueNext \/ TurnAway]_queueVars
=============================================================================
