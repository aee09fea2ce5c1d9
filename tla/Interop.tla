------------------------------ MODULE Interop ------------------------------
(***************************************************************************)
(* The interoperability run against one server: scenarios, Server and the  *)
(* verdict of main in scripts/interop.py.  A script puts each SDK behind a *)
(* relay, breaks the network, crashes the server and disconnects by hand,  *)
(* and records a case for what it has seen.  The SDKs and the server act   *)
(* at any time between its steps; the deadline of the run may strike at    *)
(* any of them.  Counts of events and attempts are kept since the script   *)
(* last took its baseline.  Both SDKs are clients here, and the script's   *)
(* gathers and its loops over them, which await one after the other what   *)
(* only grows, are single waits.                                           *)
(***************************************************************************)
EXTENDS Relay, Sequences

CONSTANTS
    Clients,    \* the actors with valid credentials
    Invalid,    \* those with an invalid token, each with a relay of its own
    MaxLosses   \* bound: connections the server ends, and retries after a refusal,
                \* while the script runs

ASSUME ProxiesAssumption == Proxies = Clients \cup Invalid /\ Clients \cap Invalid = {}
ASSUME HandlersAssumption == 0 \notin Handlers \* 0 is no handler: None
ASSUME LossAssumption == MaxLosses \in Nat

VARIABLES
    phase,    \* script, actors, relays, server, ended
    pc,       \* the step of the script; 1 once it is over
    verdict,  \* running, failed, cancelled, aborted, completed
    cases,    \* report["cases"]
    server,   \* the process: down, starting, ready, stopping
    life,     \* how often it was started
    client,   \* each SDK process: link, and the handler it is connected through
    events,   \* the kinds of events each reported since the baseline
    faults,   \* faults injected so far
    losses

script == <<phase, pc, verdict, cases>>
process == <<server, life>>
sdk == <<client, events>>
vars == <<script, process, sdk, faults, losses, relaying>>

None == 0
Kinds == {"connected", "disconnected", "reconnecting"}
Links == {"none", "idle", "first", "live", "backoff", "retry", "refused", "stopped", "dead"}

Script ==
    <<"start", "ready", "create", "connect", "connected", "messaging",
      "invalid", "rejection", "token",
      "drop", "lost", "retried", "resumed", "network",
      "crash", "down", "gone", "start", "ready", "resumed", "recovery",
      "disconnect", "quiet", "connect", "connected", "manual">>

Init ==
    /\ phase = "script" /\ pc = 1 /\ verdict = "running" /\ cases = {}
    /\ server = "down" /\ life = 0
    /\ client = [p \in Proxies |-> [link |-> "none", via |-> None]]
    /\ events = [p \in Proxies |-> {}]
    /\ faults = 0 /\ losses = 0
    /\ RelayInit
-----------------------------------------------------------------------------
At(step) == phase = "script" /\ Script[pc] = step
Quietly == UNCHANGED <<faults, losses>>

Over(outcome) == phase' = "actors" /\ pc' = 1 /\ verdict' = outcome

Advance ==
    IF pc = Len(Script) THEN Over("completed") ELSE pc' = pc + 1 /\ UNCHANGED <<phase, verdict>>

Raise == Over("failed") /\ UNCHANGED cases

\* Whatever the script awaits may raise or exceed its own deadline.
Break ==
    /\ phase = "script" /\ Raise
    /\ UNCHANGED <<process, sdk, faults, losses, relaying>>

Await(step, condition) ==
    /\ At(step) /\ condition /\ Advance /\ UNCHANGED cases
    /\ UNCHANGED <<process, sdk, faults, losses, relaying>>

Link(ps, link) == client' = [p \in Proxies |-> IF p \in ps THEN [link |-> link, via |-> None] ELSE client[p]]
Linked(ps, links) == \A p \in ps : client[p].link \in links
Reported(kind) == \A p \in Clients : kind \in events[p]

\* Counts of events and attempts start again.
Baseline(ps) ==
    /\ events' = [p \in Proxies |-> IF p \in ps THEN {} ELSE events[p]]
    /\ refused' = refused \ ps
Attempted(ps, enabled) ==
    relay' = [p \in Proxies |-> IF p \in ps THEN [relay[p] EXCEPT !.attempts = 0, !.enabled = enabled]
                                            ELSE relay[p]]
-----------------------------------------------------------------------------
\* Server.start, up to its readiness loop.
StartServer ==
    /\ At("start") /\ Advance
    /\ server' = "starting" /\ life' = life + 1
    /\ UNCHANGED <<cases, sdk, faults, losses, relaying>>

\* actor(): a relay that listens, a process behind it, and its first command.
Create(ps, link) ==
    /\ Link(ps, link)
    /\ relay' = [p \in Proxies |-> IF p \in ps THEN [relay[p] EXCEPT !.state = "listening"] ELSE relay[p]]
    /\ UNCHANGED <<cases, process, events, conn, joined, refused>> /\ Quietly

CreateClients == At("create") /\ Advance /\ Create(Clients, "idle")
CreateInvalid == At("invalid") /\ Advance /\ Create(Invalid, "first")

GiveConnect ==
    /\ At("connect") /\ Advance
    /\ Link(Clients, "first")
    /\ UNCHANGED <<cases, process, events, relaying>> /\ Quietly

\* A SEND is answered and its message received only if both are connected.
Usable(p) ==
    /\ client[p].link = "live" /\ server = "ready"
    /\ conn[p][client[p].via].stage = "relaying" /\ conn[p][client[p].via].server = life

\* pair(), and the case that is recorded after it.
Exchange(case) ==
    /\ At(case)
    /\ IF \A p \in Clients : Usable(p)
       THEN Advance /\ cases' = cases \cup {case}
       ELSE Raise
    /\ UNCHANGED <<process, sdk, faults, losses, relaying>>

FaultUnretried(p) == TRUE
Unretried(p) == "reconnecting" \notin events[p] /\ relay[p].attempts = 1

\* The invalid token was refused; after a pause there is still one attempt only.
Judge ==
    /\ At("token")
    /\ IF \A p \in Invalid : client[p].link # "live" /\ Unretried(p)
       THEN Advance /\ cases' = cases \cup {"token"} /\ Link(Invalid, "dead")
       ELSE Raise /\ UNCHANGED client
    /\ UNCHANGED <<process, events, faults, losses, relaying>>

\* cp.drop(), jp.drop().
DropNetwork ==
    /\ At("drop") /\ Advance
    /\ Baseline(Clients) /\ Attempted(Clients, FALSE)
    /\ conn' = Cut(Clients)
    /\ faults' = faults + 1
    /\ UNCHANGED <<cases, process, client, joined, losses>>

Crossed(p) == relay[p].attempts > 0

\* After a pause, every relay must have seen a retry; then the network is back.
Retried ==
    /\ At("retried")
    /\ IF \A p \in Clients : Crossed(p)
       THEN /\ Advance /\ UNCHANGED cases
            /\ relay' = [p \in Proxies |-> IF p \in Clients THEN [relay[p] EXCEPT !.enabled = TRUE]
                                                            ELSE relay[p]]
       ELSE Raise /\ UNCHANGED relay
    /\ UNCHANGED <<process, sdk, conn, joined, refused>> /\ Quietly

\* server.stop(crash=True): kill; the step after it waits for the process.
CrashServer ==
    /\ At("crash") /\ Advance
    /\ Baseline(Clients) /\ Attempted(Clients, TRUE)
    /\ server' = "stopping" /\ faults' = faults + 1
    /\ UNCHANGED <<cases, life, client, conn, joined, losses>>

GiveDisconnect ==
    /\ At("disconnect") /\ Advance
    /\ Link(Clients, "stopped")
    /\ Baseline(Clients) /\ Attempted(Clients, TRUE)
    /\ faults' = faults + 1
    /\ UNCHANGED <<cases, process, conn, joined, losses>>

\* After a pause: not connected, no attempt, no retry, and a SEND is rejected.
Quiet ==
    /\ At("quiet")
    /\ IF \A p \in Clients : /\ client[p].link # "live" /\ relay[p].attempts = 0
                             /\ "reconnecting" \notin events[p]
       THEN Advance /\ UNCHANGED cases ELSE Raise
    /\ UNCHANGED <<process, sdk, relaying>> /\ Quietly

Scenario ==
    \/ StartServer \/ CreateClients \/ CreateInvalid \/ GiveConnect \/ Judge
    \/ DropNetwork \/ Retried \/ CrashServer \/ GiveDisconnect \/ Quiet \/ Break
    \/ \E case \in {"messaging", "network", "recovery", "manual"} : Exchange(case)
    \/ Await("ready", server = "ready") \/ Await("down", server = "down")
    \/ Await("connected", Linked(Clients, {"live"}))
    \/ Await("rejection", Linked(Invalid, {"refused"}))
    \/ Await("lost", Reported("disconnected") /\ Reported("reconnecting"))
    \/ Await("gone", Reported("disconnected"))
    \/ Await("resumed", Reported("connected"))
-----------------------------------------------------------------------------
FaultCloses(p) == client[p].link \in {"idle", "live"}
\* Actor.close ends the process, whatever its SDK is doing.
Closes(p) == client[p].link \notin {"none", "dead"}

\* finally: the actors, the relays and the server, one after the other.
CloseActor(p) ==
    /\ phase = "actors" /\ Closes(p)
    /\ Link({p}, "dead")
    /\ UNCHANGED <<script, process, events, relaying>> /\ Quietly

Owned == Proxies

CloseRelay(p) ==
    /\ phase = "relays" /\ p \in Owned
    /\ \A q \in Owned : relay[q].state \notin {"closing", "joining"}
    /\ Closing(p)
    /\ UNCHANGED <<script, process, sdk>> /\ Quietly

CloseGoesOn(p) ==
    /\ phase = "relays" /\ (CancelTasks(p) \/ Closed(p))
    /\ UNCHANGED <<script, process, sdk>> /\ Quietly

StopServer ==
    /\ phase = "server" /\ server \in {"starting", "ready"}
    /\ server' = "stopping"
    /\ UNCHANGED <<script, life, sdk, relaying>> /\ Quietly

FaultServerStopped == server \in {"down", "stopping"}
ServerStopped == server = "down"

NextPhase ==
    /\ \/ phase = "actors" /\ Linked(Proxies, {"none", "dead"}) /\ phase' = "relays"
       \/ phase = "relays" /\ (\A p \in Owned : relay[p].state \in {"none", "closed"})
                           /\ phase' = "server"
       \/ phase = "server" /\ ServerStopped /\ phase' = "ended"
    /\ UNCHANGED <<pc, verdict, cases, process, sdk, relaying>> /\ Quietly

Cleanup == StopServer \/ NextPhase \/ \E p \in Proxies : CloseActor(p) \/ CloseRelay(p) \/ CloseGoesOn(p)

\* wait_for(run, 180): the run is cancelled once.  Before the cleanup that
\* still runs; within it, the rest is skipped.
Deadline ==
    /\ phase # "ended" /\ verdict # "cancelled"
    /\ IF phase = "script" THEN Over("cancelled")
                           ELSE phase' = "ended" /\ verdict' = "aborted" /\ UNCHANGED pc
    /\ UNCHANGED <<cases, process, sdk, relaying>> /\ Quietly
-----------------------------------------------------------------------------
\* The handlers of the relays.  A pump ends when an end of its connection does.
EndGone(p, h) ==
    \/ conn[p][h].stage = "cut" \/ client[p].via # h
    \/ server # "ready" \/ conn[p][h].server # life

Relaying(p, h) ==
    /\ \/ Enter(p, h) \/ DialFails(p, h) \/ Left(p, h)
       \/ server = "ready" /\ Dialed(p, h, life)
       \/ EndGone(p, h) /\ PumpEnds(p, h)
    /\ UNCHANGED <<script, process, sdk>> /\ Quietly

\* External: the server ends a connection, becomes ready, exits.
ServerDrops(p, h) ==
    /\ phase = "script" /\ losses < MaxLosses /\ losses' = losses + 1
    /\ PumpEnds(p, h)
    /\ UNCHANGED <<script, process, sdk, faults>>

ServerRuns ==
    /\ \/ server = "starting" /\ server' = "ready"
       \/ server = "stopping" /\ server' = "down"
    /\ UNCHANGED <<script, life, sdk, relaying>> /\ Quietly

\* An SDK dials, logs in, is refused, loses its connection and retries, unless
\* it is the first attempt of a connect: for the C# SDK that is WKIM.RunAsync,
\* which Supervisor has in detail; the other one is external.
Dial(p, h) ==
    /\ \/ client[p].link = "first" /\ client[p].via = None
       \/ client[p].link = "backoff"
    /\ Accept(p, h, faults)
    /\ client' = [client EXCEPT ![p].via = h, ![p].link = IF @ = "first" THEN @ ELSE "retry"]
    /\ UNCHANGED <<script, process, events>> /\ Quietly

Goes(p, link, kinds) ==
    /\ client' = [client EXCEPT ![p].link = link, ![p].via = IF link = "live" THEN @ ELSE None]
    /\ events' = [events EXCEPT ![p] = @ \cup kinds]
    /\ UNCHANGED <<script, process, relaying>> /\ Quietly

Through(p) ==
    /\ client[p].via # None /\ server = "ready"
    /\ conn[p][client[p].via].stage = "relaying" /\ conn[p][client[p].via].server = life
Severed(p) == client[p].via # None /\ conn[p][client[p].via].stage \in {"free", "cut", "leaving"}

LogsIn(p) ==
    /\ client[p].link \in {"first", "retry"} /\ Through(p)
    /\ IF p \in Clients THEN Goes(p, "live", {"connected"}) ELSE Goes(p, "refused", {})

Loses(p) ==
    /\ Severed(p)
    /\ \/ client[p].link = "first" /\ Goes(p, "stopped", {})
       \/ client[p].link = "retry" /\ Goes(p, "backoff", {"reconnecting"})
       \/ client[p].link = "live" /\ Goes(p, "backoff", {"disconnected", "reconnecting"})

\* What the script watches for: an SDK tries again after it was refused.
RetriesAnyway(p) ==
    /\ client[p].link = "refused" /\ phase = "script" /\ losses < MaxLosses
    /\ client' = [client EXCEPT ![p].link = "backoff"]
    /\ losses' = losses + 1
    /\ UNCHANGED <<script, process, events, faults, relaying>>

Sdk(p) == RetriesAnyway(p) \/ LogsIn(p) \/ Loses(p) \/ \E h \in Handlers : Dial(p, h)

Next ==
    \/ Scenario \/ Cleanup \/ Deadline \/ ServerRuns
    \/ \E p \in Proxies : Sdk(p) \/ \E h \in Handlers : Relaying(p, h) \/ ServerDrops(p, h)

Fairness ==
    /\ WF_vars(Cleanup) /\ WF_vars(ServerRuns)
    /\ \A p \in Proxies, h \in Handlers : WF_vars(Relaying(p, h))
Spec == Init /\ [][Next]_vars /\ Fairness
-----------------------------------------------------------------------------
\* Every variable has the values the script gives it.
TypeOK ==
    /\ RelayTypeOK
    /\ phase \in {"script", "actors", "relays", "server", "ended"}
    /\ pc \in 1..Len(Script)
    /\ verdict \in {"running", "failed", "cancelled", "aborted", "completed"}
    /\ cases \subseteq {"messaging", "token", "network", "recovery", "manual"}
    /\ server \in {"down", "starting", "ready", "stopping"} /\ life \in Nat
    /\ client \in [Proxies -> [link : Links, via : Handlers \cup {None}]]
    /\ events \in [Proxies -> SUBSET Kinds]
    /\ faults \in Nat /\ losses \in Nat

\* A relay that has been closed never touches the server again, although a
\* connection may have been accepted, or been waiting for the server, when it
\* was closed (interop.py:60, 87-98).
ClosedRelayIsQuiet == \A p \in Proxies :
    relay[p].state = "closed" => In(p, {"dialing", "relaying", "cut"}) = {}

\* A recorded case is true.  Its exchange went over connections younger than
\* the last fault; for the network, every relay turned a retry away while it
\* was down; for the token, the server was asked once and never let it in
\* (interop.py:309-341, 353, 366).
CasesAreTrue == [][\A case \in cases' \ cases :
    /\ case # "token" =>
           \A p \in Clients : Usable(p) /\ conn[p][client[p].via].born = faults
    /\ case = "network" => Clients \subseteq refused
    /\ case = "token" =>
           \A p \in Invalid : "connected" \notin events[p] /\ relay[p].attempts = 1]_vars

\* When the run has ended, no process, relay or handler that could reach the
\* server is left, unless the deadline cut the cleanup short (interop.py:375-379).
RunLeavesNothing == phase = "ended" /\ verdict # "aborted" =>
    /\ \A p \in Proxies : client[p].link \in {"none", "dead"}
    /\ \A p \in Proxies : relay[p].state \in {"none", "closed"} /\ joined[p] = {}
    /\ server = "down"

\* The cleanup ends without the deadline of the run: closing a relay waits for
\* handlers that all end.
CleanupEnds == phase # "script" ~> phase = "ended"
=============================================================================
