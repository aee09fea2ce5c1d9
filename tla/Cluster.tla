------------------------------ MODULE Cluster ------------------------------
(***************************************************************************)
(* The three-node acceptance run: cluster_scenarios of                     *)
(* scripts/interop_cluster.py and the verdict of main in                   *)
(* scripts/interop.py.  A script starts servers and SDK processes, crashes *)
(* and restarts nodes under connected clients, and cleans up whatever      *)
(* happens.  The nodes start concurrently; a process of either kind may    *)
(* die, a step may raise, and the deadline of the run may strike, at any   *)
(* point.  Actor.close and Server.stop are single steps here: the module   *)
(* Actor has the former in detail.                                         *)
(***************************************************************************)
EXTENDS Readiness

CONSTANTS
    Users,      \* the three identities
    Order,      \* the identities as they connect
    Ingress,    \* the node each identity connects to
    Failovers,  \* <<user, surviving node>>, in the order of the run
    Activation, \* how long actor() retries a login in recovery: 110 seconds
    MaxDeaths   \* bound: processes that die by themselves

ASSUME IngressAssumption == Ingress \in [Users -> Nodes] /\ None \notin Users
ASSUME OrderAssumption ==
    Order \in Seq(Users) /\ \A i, j \in 1..Len(Order) : Order[i] = Order[j] => i = j
ASSUME FailoverAssumption == Failovers \in Seq(Users \X Nodes)
ASSUME BoundAssumption == Activation \in Nat /\ MaxDeaths \in Nat

VARIABLES
    phase,      \* script, diagnosing, closing, stopping, ended
    pc, at,     \* the step of the script, and the point within it
    verdict,    \* of the scenario: running, failed, aborted, completed
    node,       \* each server process: none, starting, ready, dead
    task,       \* Server.start of each node: idle, pending, ok, error
    actors,     \* the SDK processes in the order of their creation
    clients,    \* the actor that stands for each identity, 0 for none
    rejections, \* history: the rejected logins
    deaths      \* processes that died by themselves

script == <<phase, pc, at, verdict>>
processes == <<node, task, actors, deaths>>
vars == <<script, processes, clients, rejections, readiness>>

Running(n) == node[n] \in {"starting", "ready"}
Alive == {n \in Nodes : Running(n)}
Actor == [uid : Users, on : Nodes, alive : BOOLEAN,
          login : {"none", "asked", "connected", "lost", "rejected"}]

\* The operations of the script.
Op(op, n, users, over, flag) == [op |-> op, node |-> n, users |-> users, over |-> over, flag |-> flag]
Start(ns) == Op("start", None, {}, ns, FALSE)
Slots(ns) == Op("slots", None, {}, ns, FALSE)
HealthOf(n, ready) == Op("health", n, {}, {}, ready)
ChannelOf(ns, complete) == Op("channel", None, {}, ns, complete)
Connect(u, n, recovery) == Op("connect", n, {u}, {}, recovery)
Messaging == Op("messaging", None, Users, {}, FALSE)
Crash(n) == Op("crash", n, {}, {}, FALSE)
Observed(u) == Op("observed", None, {u}, {}, FALSE)
Retire(u) == Op("retire", None, {u}, {}, FALSE)
Down(n) == Op("down", n, {}, {}, FALSE)

Bootstrap(users) ==
    <<Start(Nodes), Slots(Nodes)>>
        \o [i \in 1..Len(users) |-> Connect(users[i], Ingress[users[i]], FALSE)]
        \o <<Messaging, ChannelOf(Nodes, TRUE)>>

FaultFailover(u, survivor) ==
    LET n == Ingress[u] alive == Nodes \ {n} IN
    <<Crash(n), Observed(u), HealthOf(n, FALSE), Slots(alive), ChannelOf(alive, FALSE),
      Connect(u, survivor, TRUE), Retire(u), Messaging, Down(n), Start({n}), HealthOf(n, TRUE),
      Slots(Nodes), ChannelOf(Nodes, TRUE), Retire(u), Connect(u, n, FALSE), Messaging>>
Failover(u, survivor) ==
    LET n == Ingress[u] alive == Nodes \ {n} IN
    <<Crash(n), Observed(u), Retire(u), HealthOf(n, FALSE), Slots(alive), ChannelOf(alive, FALSE),
      Connect(u, survivor, TRUE), Messaging, Down(n), Start({n}), HealthOf(n, TRUE),
      Slots(Nodes), ChannelOf(Nodes, TRUE), Retire(u), Connect(u, n, FALSE), Messaging>>

Round == 16 \* the operations of one failover

Script ==
    Bootstrap(Order) \o [i \in 1..Round * Len(Failovers) |->
        LET failover == Failovers[((i - 1) \div Round) + 1]
        IN Failover(failover[1], failover[2])[((i - 1) % Round) + 1]]

Now == Script[pc]
user == CHOOSE u \in Now.users : TRUE

Init ==
    /\ phase = "script" /\ pc = 1 /\ at = "begin" /\ verdict = "running"
    /\ node = [n \in Nodes |-> "none"] /\ task = [n \in Nodes |-> "idle"]
    /\ actors = <<>> /\ clients = [u \in Users |-> 0]
    /\ rejections = {} /\ deaths = 0
    /\ ReadinessInit
-----------------------------------------------------------------------------
At(op, point) == phase = "script" /\ pc <= Len(Script) /\ Now.op = op /\ at = point
Stay(point) == at' = point /\ UNCHANGED <<phase, pc, verdict>>

Advance ==
    /\ pc' = pc + 1 /\ at' = "begin"
    /\ IF pc = Len(Script) THEN phase' = "closing" /\ verdict' = "completed"
                          ELSE UNCHANGED <<phase, verdict>>
    /\ BeginWait

\* except: diagnostics are read from the nodes that run.
Raise ==
    /\ phase' = "diagnosing" /\ verdict' = "failed" /\ at' = "begin" /\ UNCHANGED pc
    /\ BeginWait

\* Anything the script awaits or checks may raise: a request, an assertion, a
\* deadline of its own.
Break ==
    /\ phase = "script" /\ ~At("start", "wait")
    /\ Raise
    /\ UNCHANGED <<processes, clients, rejections>>
-----------------------------------------------------------------------------
\* Server.start, one task per node.
StartNodes ==
    /\ At("start", "begin")
    /\ task' = [n \in Nodes |-> IF n \in Now.over THEN "pending" ELSE "idle"]
    /\ Stay("wait")
    /\ UNCHANGED <<node, actors, deaths, clients, rejections, readiness>>

Spawn(n) ==
    /\ task[n] = "pending" /\ node[n] \in {"none", "dead"}
    /\ node' = [node EXCEPT ![n] = "starting"]
    /\ UNCHANGED <<script, task, actors, deaths, clients, rejections, readiness>>

Ready(n) ==
    /\ task[n] = "pending" /\ node[n] = "starting"
    /\ node' = [node EXCEPT ![n] = "ready"] /\ task' = [task EXCEPT ![n] = "ok"]
    /\ UNCHANGED <<script, actors, deaths, clients, rejections, readiness>>

\* It exits, or is not ready after 30 seconds and goes on running, or could not
\* be created.
StartFails(n) ==
    /\ task[n] = "pending"
    /\ \E state \in {node[n]} \cup (IF Running(n) THEN {"dead"} ELSE {}) :
           node' = [node EXCEPT ![n] = state]
    /\ task' = [task EXCEPT ![n] = "error"]
    /\ UNCHANGED <<script, actors, deaths, clients, rejections, readiness>>

FaultJoinedReady == \A n \in Nodes : task[n] \in {"idle", "ok"}
FaultJoined == \A n \in Nodes : task[n] # "pending" \/ \E m \in Nodes : task[m] = "error"
\* gather(..., return_exceptions=True): every start has ended, however it did.
Joined == \A n \in Nodes : task[n] # "pending"

Started ==
    /\ At("start", "wait") /\ Joined
    /\ IF \E n \in Nodes : task[n] = "error" THEN Raise ELSE Advance
    /\ UNCHANGED <<processes, clients, rejections>>
-----------------------------------------------------------------------------
\* The waits of the script; d is how long a poll takes.
StableSlots ==
    /\ At("slots", "begin")
    /\ \E views \in [Now.over -> SlotView], d \in 0..Slow : PollSlots(views, Now.over, d)
    /\ UNCHANGED <<script, processes, clients, rejections>>

NodeHealth ==
    /\ At("health", "begin")
    /\ \E health \in Health, d \in 0..Slow : PollHealth(health, Now.flag, d)
    /\ UNCHANGED <<script, processes, clients, rejections>>

ChannelMeta ==
    /\ At("channel", "begin")
    /\ \E row \in Channel, d \in 0..Slow : PollChannel(row, Now.over, Now.flag, d)
    /\ UNCHANGED <<script, processes, clients, rejections>>

Presence ==
    /\ At("messaging", "begin")
    /\ \E complete \in [Alive -> BOOLEAN], d \in 0..Slow : PollPresence(complete, Alive, d)
    /\ UNCHANGED <<script, processes, clients, rejections>>

Settled ==
    /\ answer # None
    /\ \/ At("slots", "begin") /\ Advance
       \/ At("health", "begin") /\ Advance
       \/ At("channel", "begin") /\ Advance
       \/ At("messaging", "begin") /\ Stay("send") /\ BeginWait
    /\ UNCHANGED <<processes, clients, rejections>>

\* Every pair and two groups; each SEND once, and its answer and message checked.
Exchanges ==
    /\ At("messaging", "send")
    /\ IF \A u \in Users : clients[u] # 0 /\ actors[clients[u]].alive
                           /\ actors[clients[u]].login = "connected"
       THEN Advance ELSE Raise
    /\ UNCHANGED <<processes, clients, rejections>>
-----------------------------------------------------------------------------
\* actor(): a route, a process, a login, and in recovery perhaps another.
Route ==
    /\ At("connect", "begin")
    /\ IF node[Now.node] = "ready" THEN Stay("launch") /\ UNCHANGED readiness ELSE Raise
    /\ UNCHANGED <<processes, clients, rejections>>

Patience == IF Now.flag THEN Activation ELSE 0

Launch ==
    /\ At("connect", "launch") /\ now <= Patience
    /\ actors' = Append(actors, [uid |-> user, on |-> Now.node, alive |-> TRUE, login |-> "asked"])
    /\ Stay("login")
    /\ UNCHANGED <<node, task, deaths, clients, rejections, readiness>>

Last == Len(actors)

LoggedIn ==
    /\ At("connect", "login") /\ actors[Last].alive /\ node[Now.node] = "ready"
    /\ actors' = [actors EXCEPT ![Last].login = "connected"]
    /\ clients' = [clients EXCEPT ![user] = Last]
    /\ Advance
    /\ UNCHANGED <<node, task, deaths, rejections>>

\* The server's answer: 15 is the SystemError of a route whose owner has died.
Rejected(code) ==
    /\ At("connect", "login") /\ actors[Last].alive
    /\ actors' = [actors EXCEPT ![Last].login = "rejected"]
    /\ rejections' = rejections \cup {[code |-> code, recovery |-> Now.flag]}
    /\ Stay(code)
    /\ UNCHANGED <<node, task, deaths, clients, readiness>>

Codes == {"15", "other"}

FaultRetryActivation(code, recovery) == recovery
RetryActivation(code, recovery) == recovery /\ code = "15"

RejectedCloses(code) ==
    /\ At("connect", code)
    /\ actors' = [actors EXCEPT ![Last].alive = FALSE]
    /\ IF RetryActivation(code, Now.flag)
       THEN Stay("launch") /\ now' = now + 1 /\ UNCHANGED <<previous, since, answer, polls>>
       ELSE Raise
    /\ UNCHANGED <<node, task, deaths, clients, rejections>>
-----------------------------------------------------------------------------
\* The faults of the script, and what the client must say about them.
CrashNode ==
    /\ At("crash", "begin")
    /\ node' = [node EXCEPT ![Now.node] = "dead"]
    /\ Advance
    /\ UNCHANGED <<task, actors, deaths, clients, rejections>>

Mine == clients[user]

\* disconnected, reconnecting, state, and the rejection of a SEND.
LossObserved ==
    /\ At("observed", "begin") /\ actors[Mine].alive /\ actors[Mine].login = "lost"
    /\ Advance
    /\ UNCHANGED <<processes, clients, rejections>>

RetireClient ==
    /\ At("retire", "begin")
    /\ actors' = [actors EXCEPT ![Mine].alive = FALSE]
    /\ Advance
    /\ UNCHANGED <<node, task, deaths, clients, rejections>>

StillDown ==
    /\ At("down", "begin")
    /\ IF Running(Now.node) THEN Raise ELSE Advance
    /\ UNCHANGED <<processes, clients, rejections>>
-----------------------------------------------------------------------------
Diagnose ==
    /\ phase = "diagnosing"
    /\ phase' = "closing" /\ UNCHANGED <<pc, at, verdict>>
    /\ UNCHANGED <<processes, clients, rejections, readiness>>

Owned == DOMAIN actors

CloseActor(i) ==
    /\ phase = "closing" /\ i \in Owned /\ actors[i].alive
    /\ actors' = [actors EXCEPT ![i].alive = FALSE]
    /\ UNCHANGED <<script, node, task, deaths, clients, rejections, readiness>>

ActorsClosed ==
    /\ phase = "closing" /\ \A i \in Owned : ~actors[i].alive
    /\ phase' = "stopping" /\ at' = "begin" /\ UNCHANGED <<pc, verdict>>
    /\ UNCHANGED <<processes, clients, rejections, readiness>>

\* Server.stop of every node.  A node without a process has nothing to stop.
StopNodes ==
    /\ phase = "stopping" /\ at = "begin"
    /\ node' = [n \in Nodes |-> IF Running(n) THEN "dead" ELSE node[n]]
    /\ Stay("stopped")
    /\ UNCHANGED <<task, actors, deaths, clients, rejections, readiness>>

\* ownedClientsStopped and ownedNodesStopped, which main looks at.
Verdict ==
    /\ phase = "stopping" /\ at = "stopped"
    /\ phase' = "ended" /\ UNCHANGED <<pc, at>>
    /\ verdict' = IF /\ \A i \in DOMAIN actors : ~actors[i].alive
                     /\ \A n \in Nodes : ~Running(n)
                  THEN verdict ELSE "failed"
    /\ UNCHANGED <<processes, clients, rejections, readiness>>

\* wait_for(run, 420): the run is cancelled once, wherever it is.  Before the
\* cleanup it still runs; in the cleanup the rest of it is skipped.
Deadline ==
    /\ phase # "ended" /\ verdict # "cancelled"
    /\ UNCHANGED <<pc, at>>
    /\ IF phase \in {"script", "diagnosing"}
       THEN phase' = "closing" /\ verdict' = "cancelled"
       ELSE phase' = "ended" /\ verdict' = "aborted"
    /\ task' = [n \in Nodes |-> IF task[n] = "pending" THEN "error" ELSE task[n]]
    /\ UNCHANGED <<node, actors, deaths, clients, rejections, readiness>>
-----------------------------------------------------------------------------
\* A client notices that its node is gone, as WKIM.RunAsync does; processes die.
Notice(i) ==
    /\ actors[i].alive /\ actors[i].login = "connected" /\ node[actors[i].on] # "ready"
    /\ actors' = [actors EXCEPT ![i].login = "lost"]
    /\ UNCHANGED <<script, node, task, deaths, clients, rejections, readiness>>

ActorDies(i) ==
    /\ actors[i].alive /\ deaths < MaxDeaths
    /\ actors' = [actors EXCEPT ![i].alive = FALSE] /\ deaths' = deaths + 1
    /\ UNCHANGED <<script, node, task, clients, rejections, readiness>>

NodeDies(n) ==
    /\ node[n] = "ready" /\ deaths < MaxDeaths
    /\ node' = [node EXCEPT ![n] = "dead"] /\ deaths' = deaths + 1
    /\ UNCHANGED <<script, task, actors, clients, rejections, readiness>>

Fixture ==
    \/ StartNodes \/ Started \/ StableSlots \/ NodeHealth \/ ChannelMeta \/ Presence \/ Settled \/ Exchanges \/ Route \/ Launch
    \/ CrashNode \/ LossObserved \/ RetireClient \/ StillDown \/ Break
    \/ \E code \in Codes : RejectedCloses(code)
    \/ Diagnose \/ ActorsClosed \/ StopNodes \/ Verdict
    \/ \E i \in DOMAIN actors : CloseActor(i)

Starts == \E n \in Nodes : Spawn(n) \/ Ready(n) \/ StartFails(n)

External ==
    \/ LoggedIn \/ \E code \in Codes : Rejected(code)
    \/ \E i \in DOMAIN actors : Notice(i) \/ ActorDies(i)
    \/ \E n \in Nodes : NodeDies(n)

Next == Fixture \/ Starts \/ External \/ Deadline

Fairness == WF_vars(Fixture) /\ WF_vars(Starts)
Spec == Init /\ [][Next]_vars /\ Fairness
-----------------------------------------------------------------------------
\* Every variable has the values the scripts give it.
TypeOK ==
    /\ phase \in {"script", "diagnosing", "closing", "stopping", "ended"}
    /\ pc \in 1..Len(Script) + 1
    /\ at \in {"begin", "wait", "launch", "login", "send", "stopped"} \cup Codes
    /\ verdict \in {"running", "failed", "cancelled", "aborted", "completed"}
    /\ node \in [Nodes -> {"none", "starting", "ready", "dead"}]
    /\ task \in [Nodes -> {"idle", "pending", "ok", "error"}]
    /\ actors \in Seq(Actor) /\ clients \in [Users -> Nat] /\ deaths \in Nat
    /\ rejections \subseteq [code : Codes, recovery : BOOLEAN]
    /\ now \in Nat /\ since \in Nat /\ previous \in Answers /\ answer \in Answers
    /\ polls \in Seq([at : Nat, found : Answers])

Stable == answer # None /\ phase = "script" /\ pc <= Len(Script) /\ Now.op \in {"slots", "messaging"}

\* What a stability loop returns was found by every poll of an unbroken run of
\* polls that spans at least Settle ticks and ends with the last one: a failed
\* poll, or a different answer, starts the count again
\* (interop_cluster.py:60-68, 197-203).
SettledEvidence == Stable =>
    \E i \in 1..Len(polls) :
        /\ \A j \in i..Len(polls) : polls[j].found = answer
        /\ polls[Len(polls)].at - polls[i].at >= Settle

\* At no time do two processes of one identity run, whatever is retried,
\* replaced or fails: a second login would kick the first
\* (interop_cluster.py:150, 257, 278).
OneClientPerIdentity == \A i, j \in DOMAIN actors :
    actors[i].alive /\ actors[j].alive /\ actors[i].uid = actors[j].uid => i = j

\* When the run has ended, no process it created is left, unless the deadline
\* cut the cleanup short (interop_cluster.py:224-227, 377-382).
RunLeavesNothing == phase = "ended" /\ verdict # "aborted" =>
    /\ \A i \in DOMAIN actors : ~actors[i].alive
    /\ \A n \in Nodes : ~Running(n)

\* A rejected login ends the run: neither another process of that identity nor
\* a later step hides it, except for the activation failure of a replacement
\* (interop_cluster.py:9-11, 151-154).
RefusalEndsRun == verdict \in {"running", "completed"} /\ at \notin Codes =>
    rejections \subseteq {[code |-> "15", recovery |-> TRUE]}

\* Each wait has its own deadline, so the run ends without that of the run.
RunEnds == <>(phase = "ended")
=============================================================================
