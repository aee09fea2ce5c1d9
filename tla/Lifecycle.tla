------------------------------ MODULE Lifecycle ------------------------------
(***************************************************************************)
(* What the client promises about its connection, with no session, task or *)
(* lock in sight: the abstract specification that Supervisor implements.   *)
(***************************************************************************)
EXTENDS Naturals

CONSTANT Budget   \* reconnect attempts allowed between two logins

VARIABLES
    phase,     \* offline, connecting, online, recovering or stopping
    retries    \* reconnect attempts announced since the last login

vars == <<phase, retries>>

Phases == {"offline", "connecting", "online", "recovering", "stopping"}

TypeOK == phase \in Phases /\ retries \in 0..Budget

Init == phase = "offline" /\ retries = 0

\* ConnectAsync starts an attempt.
Connect ==
    /\ phase = "offline" /\ phase' = "connecting"
    /\ retries' = 0

\* The server accepts a session: the budget is whole again.
Login ==
    /\ phase \in {"connecting", "recovering"} /\ phase' = "online"
    /\ retries' = 0

\* An established session is lost.
Lose ==
    /\ phase = "online" /\ phase' = "recovering"
    /\ UNCHANGED retries

\* One more reconnect attempt, never before the first login.
Retry ==
    /\ phase = "recovering" /\ retries < Budget
    /\ retries' = retries + 1
    /\ UNCHANGED phase

\* A permanent failure, an exhausted budget, or a failed initial attempt.
GiveUp ==
    /\ phase \in {"connecting", "recovering"} /\ phase' = "offline"
    /\ UNCHANGED retries

\* DisconnectAsync or DisposeAsync stops whatever is going on.
Stop ==
    /\ phase \in {"connecting", "online", "recovering"}
    /\ phase' = "stopping"
    /\ UNCHANGED retries

\* The stopped run has exited.
Settle ==
    /\ phase = "stopping" /\ phase' = "offline"
    /\ UNCHANGED retries

Next == Connect \/ Login \/ Lose \/ Retry \/ GiveUp \/ Stop \/ Settle

\* An attempt ends one way or the other, and a stop completes.
Fairness == WF_vars(Login \/ GiveUp) /\ WF_vars(Settle)

Spec == Init /\ [][Next]_vars /\ Fairness
=============================================================================
