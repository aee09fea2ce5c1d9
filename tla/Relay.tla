------------------------------- MODULE Relay -------------------------------
(***************************************************************************)
(* The fault relays of the interoperability fixture: class Proxy of        *)
(* scripts/interop.py.  A relay accepts connections, dials the server for  *)
(* each and copies bytes until one end is gone; drop() cuts what is        *)
(* relayed and refuses what comes, close() also stops listening, cancels   *)
(* the handlers and waits for them.  All of it runs on one asyncio loop: a *)
(* step is the code between two awaits.                                    *)
(***************************************************************************)
EXTENDS Naturals, FiniteSets

CONSTANTS
    Proxies,
    Handlers  \* bound: handlers of one relay at the same time

VARIABLES
    relay,    \* enabled, attempts since the scenario last looked (2: several), and state
    conn,     \* each handler: its stage, and of its connection the server process and age
    joined,   \* the handlers that close() waits for
    refused   \* history: relays that turned a connection away since the scenario looked

relaying == <<relay, conn, joined, refused>>

Stages == {"free", "accepted", "dialing", "relaying", "cut", "leaving"}
Free == [stage |-> "free", server |-> 0, born |-> 0]

RelayInit ==
    /\ relay = [p \in Proxies |-> [enabled |-> TRUE, attempts |-> 0, state |-> "none"]]
    /\ conn = [p \in Proxies |-> [h \in Handlers |-> Free]]
    /\ joined = [p \in Proxies |-> {}]
    /\ refused = {}

In(p, stages) == {h \in Handlers : conn[p][h].stage \in stages}
Without(stage) == [Free EXCEPT !.stage = stage] \* no connection to remember
Leave(p, h) == conn' = [conn EXCEPT ![p][h] = Without("leaving")]
More(n) == IF n < 2 THEN n + 1 ELSE 2

\* The loop has accepted a connection; its handler has not run yet.
Accept(p, h, age) ==
    /\ relay[p].state = "listening" /\ conn[p][h].stage = "free"
    /\ conn' = [conn EXCEPT ![p][h] = [stage |-> "accepted", server |-> 0, born |-> age]]
    /\ UNCHANGED <<relay, joined, refused>>
-----------------------------------------------------------------------------
\* handle: up to the await of the server's connection.
Enter(p, h) ==
    /\ conn[p][h].stage = "accepted"
    /\ relay' = [relay EXCEPT ![p].attempts = More(@)]
    /\ conn' = [conn EXCEPT ![p][h] =
           IF relay[p].enabled THEN [@ EXCEPT !.stage = "dialing"] ELSE Without("leaving")]
    /\ refused' = IF relay[p].enabled THEN refused ELSE refused \cup {p}
    /\ UNCHANGED joined

\* The server, process number life, has accepted: the pumps run.
Dialed(p, h, life) ==
    /\ conn[p][h].stage = "dialing"
    /\ conn' = [conn EXCEPT ![p][h] = [@ EXCEPT !.stage = "relaying", !.server = life]]
    /\ UNCHANGED <<relay, joined, refused>>

\* OSError, or no answer for two seconds.
DialFails(p, h) ==
    /\ conn[p][h].stage = "dialing"
    /\ Leave(p, h)
    /\ UNCHANGED <<relay, joined, refused>>

\* The first pump has ended; finally closes both peers.
PumpEnds(p, h) ==
    /\ conn[p][h].stage \in {"relaying", "cut"}
    /\ Leave(p, h)
    /\ UNCHANGED <<relay, joined, refused>>

\* wait_closed has returned for both peers.
Left(p, h) ==
    /\ conn[p][h].stage = "leaving"
    /\ conn' = [conn EXCEPT ![p][h] = Free]
    /\ joined' = [joined EXCEPT ![p] = @ \ {h}]
    /\ UNCHANGED <<relay, refused>>
-----------------------------------------------------------------------------
\* drop: the writers known at this moment are those of the relayed connections.
Cut(ps) == [p \in Proxies |-> [h \in Handlers |->
    IF p \in ps /\ conn[p][h].stage = "relaying" THEN Without("cut") ELSE conn[p][h]]]

Closing(p) ==
    /\ relay[p].state = "listening"
    /\ relay' = [relay EXCEPT ![p].enabled = FALSE, ![p].state = "closing"]
    /\ conn' = Cut({p})
    /\ UNCHANGED <<joined, refused>>

FaultTracked(p) == In(p, {"relaying", "cut", "leaving"})
\* self.tasks: a handler is in it from its first step to its end.
Tracked(p) == In(p, {"dialing", "relaying", "cut", "leaving"})

\* server.wait_closed has returned: cancel the handlers and gather them.
CancelTasks(p) ==
    /\ relay[p].state = "closing"
    /\ relay' = [relay EXCEPT ![p].state = "joining"]
    /\ conn' = [conn EXCEPT ![p] = [h \in Handlers |->
           IF h \in Tracked(p) THEN Without("leaving") ELSE conn[p][h]]]
    /\ joined' = [joined EXCEPT ![p] = Tracked(p)]
    /\ UNCHANGED refused

Closed(p) ==
    /\ relay[p].state = "joining" /\ joined[p] = {}
    /\ relay' = [relay EXCEPT ![p].state = "closed"]
    /\ UNCHANGED <<conn, joined, refused>>

RelayTypeOK ==
    /\ relay \in [Proxies -> [enabled : BOOLEAN, attempts : 0..2,
                  state : {"none", "listening", "closing", "joining", "closed"}]]
    /\ conn \in [Proxies -> [Handlers -> [stage : Stages, server : Nat, born : Nat]]]
    /\ joined \in [Proxies -> SUBSET Handlers]
    /\ refused \subseteq Proxies
=============================================================================
