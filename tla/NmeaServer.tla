----------------------------- MODULE NmeaServer -----------------------------
(***************************************************************************)
(* The sentences over TCP (NmeaServer.cpp): one thread that serves its     *)
(* sockets until the next second, names it, and sends it to every client.  *)
(* A client is known by its place in m_clients only, so closing one moves  *)
(* the others.  The statistics, which copy the list, are left out.         *)
(***************************************************************************)
EXTENDS PpsLabeler, SequencesExt

CONSTANTS
  Clients,     \* those that may connect
  MaxClients   \* max_clients

ASSUME NmeaAssumption == MaxClients \in Nat /\ IsFiniteSet(Clients)

VARIABLES
  clients,  \* m_clients
  peer,     \* external: what each client does
  heard     \* external: who was sent the last sentences whole

nmeaVars == <<clients, peer, heard>>

NmeaInit ==
  /\ clients = <<>> /\ peer = [k \in Clients |-> "away"] /\ heard = {}

NmeaPlan ==
  /\ pc = "top" /\ running /\ now < MaxSlot
  /\ PlanSecond /\ pc' = "wait"
  /\ UNCHANGED <<now, served, running, lastSlot, labels, sentence, nmeaVars>>

\* Slip: closed from the front, by places that have moved.
CloseFromFront(list, places) ==
  MapThenFoldSet(LAMBDA i, rest : RemoveAt(rest, i), list, LAMBDA i : i, Max, places)
\* closeClient for each of these places, the first of them last.
CloseClients(list, places) ==
  MapThenFoldSet(LAMBDA i, rest : RemoveAt(rest, i), list, LAMBDA i : i, Min, places)

Gone(list) == {i \in DOMAIN list : peer[list[i]] = "gone"}

\* acceptFrom: everyone who waits, until the list is full; the rest are turned away.
Accepted(list, waiting) ==
  LET room == MaxClients - Len(list)
  IN list \o SubSeq(waiting, 1, IF Len(waiting) < room THEN Len(waiting) ELSE room)

Waiting == SetToSeq({k \in Clients : peer[k] = "knocking"})

\* One turn of the wait: a fifth of a second at most, or a socket.
ServeSockets ==
  /\ pc = "wait" /\ running /\ Due > now
  /\ c' = Reread /\ at' = Due /\ now' = now + 1
  /\ clients' = Accepted(CloseClients(clients, Gone(clients)), Waiting)
  /\ peer' = [k \in Clients |->
                IF peer[k] # "knocking" THEN peer[k]
                ELSE IF \E i \in DOMAIN clients' : clients'[i] = k THEN "reading" ELSE "refused"]
  /\ UNCHANGED <<served, running, pc, second, lastSlot, labels, sentence, heard>>

\* Naming the second, and the sentences, before the spin.
Compose ==
  /\ pc = "wait" /\ running /\ Due <= now
  /\ c' = Reread /\ at' = Due /\ lastSlot' = Due
  /\ labels' = Labelled(Due) /\ sentence' = Sentences(Due)
  /\ pc' = "send"
  /\ UNCHANGED <<now, served, running, second, nmeaVars>>

(* To every client, from the back; one that cannot take all of it at once  *)
(* is closed.  The last send to a client that has gone may still succeed.  *)
SendAll(fails) ==
  /\ pc = "send" /\ running
  /\ {i \in DOMAIN clients : peer[clients[i]] = "stuck"} \subseteq fails
  /\ fails \subseteq {i \in DOMAIN clients : peer[clients[i]] \in {"stuck", "gone"}}
  /\ heard' = {clients[i] : i \in DOMAIN clients \ fails}
  /\ clients' = CloseClients(clients, fails)
  /\ pc' = "top"
  /\ UNCHANGED <<now, served, running, c, second, at, lastSlot, labels, sentence, peer>>

\* stop joins the thread and closes every client.
NmeaStop ==
  /\ running /\ running' = FALSE /\ pc' = "done" /\ clients' = <<>>
  /\ UNCHANGED <<now, served, c, second, at, lastSlot, labels, sentence, peer, heard>>

\* External: a client comes, stops reading, or goes.
PeerComes(k) ==
  /\ peer' = [peer EXCEPT ![k] = "knocking"]
  /\ peer[k] = "away"
  /\ UNCHANGED <<slotVars, clients, heard>>
PeerFails(k) ==
  /\ peer[k] = "reading"
  /\ \E p \in {"stuck", "gone"} : peer' = [peer EXCEPT ![k] = p]
  /\ UNCHANGED <<slotVars, clients, heard>>

NmeaNext ==
  \/ NmeaPlan \/ ServeSockets \/ Compose \/ NmeaStop
  \/ \E fails \in SUBSET DOMAIN clients : SendAll(fails)
  \/ \E k \in Clients : PeerComes(k) \/ PeerFails(k)
=============================================================================
