----------------------------- MODULE Readiness -----------------------------
(***************************************************************************)
(* How the cluster fixture waits for public state to settle: the polling   *)
(* loops of scripts/interop_cluster.py.  A poll asks one node after the    *)
(* other while the cluster goes on changing, so what the answers have in   *)
(* common is all that is known; the loops that ask for stability accept an *)
(* answer that did not change for Settle ticks, the others the first that  *)
(* fits.  Each wait has a deadline of its own.                             *)
(***************************************************************************)
EXTENDS Integers, Sequences, FiniteSets

CONSTANTS
    Nodes,   \* the nodes of the cluster
    None,
    Settle,  \* how long an answer must not change: one second
    Pause,   \* the sleep between two polls
    Slow,    \* bound: the longest poll
    Limit    \* the deadline of a wait: 60 or 45 seconds

ASSUME TimeAssumption == {Settle, Slow, Limit} \subseteq Nat /\ Pause \in Nat \ {0}
ASSUME NoneAssumption == None \notin Nodes

VARIABLES
    now,      \* time since the wait began
    previous, \* the answer of the last poll, None if it was not acceptable
    since,    \* when that answer was first seen
    answer,   \* what the wait has returned
    polls     \* history: the polls of this wait, when they ended and what they found

readiness == <<now, previous, since, answer, polls>>

Present == "present"
Answers == Nodes \cup {None, Present}

BeginWait ==
    /\ now' = 0 /\ previous' = None /\ since' = 0 /\ answer' = None /\ polls' = <<>>

ReadinessInit ==
    /\ now = 0 /\ previous = None /\ since = 0 /\ answer = None /\ polls = <<>>
-----------------------------------------------------------------------------
\* What /manager/slots of a node says: who leads (the ten slots are one here)
\* and whether the rest is as it must be: no task, voters, quorum, role, hashes.
SlotView == [leader : Nodes, settled : BOOLEAN]

SlotAnswer(views, alive) ==
    LET agreed == {l \in Nodes \cap alive : \A n \in alive : views[n] = [leader |-> l, settled |-> TRUE]}
    IN IF agreed = {} THEN None ELSE CHOOSE l \in agreed : TRUE

\* The users' presence according to every node that runs: complete or not.
PresenceAnswer(complete, alive) == IF \A n \in alive : complete[n] THEN Present ELSE None

Record(t, found) == polls' = Append(polls, [at |-> t, found |-> found])

\* One poll of a stability loop, ended at t.
FaultObserve(found, t) ==
    /\ Record(t, found)
    /\ IF found # None /\ previous = found /\ t - since >= Settle
       THEN answer' = found /\ now' = t /\ UNCHANGED <<previous, since>>
       ELSE /\ previous' = IF found = None THEN previous ELSE found
            /\ since' = IF found \in {None, previous} THEN since ELSE t
            /\ now' = t + Pause /\ UNCHANGED answer
Observe(found, t) ==
    /\ Record(t, found)
    /\ IF found # None /\ previous = found /\ t - since >= Settle
       THEN answer' = found /\ now' = t /\ UNCHANGED <<previous, since>>
       ELSE /\ previous' = found
            /\ since' = IF found = None THEN 0 ELSE IF found = previous THEN since ELSE t
            /\ now' = t + Pause /\ UNCHANGED answer

InTime(t) == answer = None /\ t <= Limit

PollSlots(views, alive, d) ==
    InTime(now + d) /\ Observe(SlotAnswer(views, alive), now + d)

PollPresence(complete, alive, d) ==
    InTime(now + d) /\ Observe(PresenceAnswer(complete, alive), now + d)
-----------------------------------------------------------------------------
\* The loops that take the first answer that fits.
Healthy(health) == health.fresh /\ health.runtimeReady /\ health.alive
Health == [fresh : BOOLEAN, runtimeReady : BOOLEAN, alive : BOOLEAN]

Channel == [leader : Nodes, isr : SUBSET Nodes, usable : BOOLEAN]
ChannelReady(row, alive, complete) ==
    /\ row.usable /\ row.leader \in alive
    /\ Cardinality(row.isr \cap alive) >= 2
    /\ complete => row.isr = Nodes

Sample(fits, d) ==
    /\ InTime(now + d)
    /\ Record(now + d, IF fits THEN Present ELSE None)
    /\ IF fits THEN answer' = Present /\ now' = now + d
               ELSE now' = now + d + Pause /\ UNCHANGED answer
    /\ UNCHANGED <<previous, since>>

PollHealth(health, ready, d) == Sample(Healthy(health) = ready, d)
PollChannel(row, alive, complete, d) == Sample(ChannelReady(row, alive, complete), d)
=============================================================================
