----------------------------- MODULE Supervisor -----------------------------
(***************************************************************************)
(* The connection supervisor of the WuKongIM client: ConnectAsync,         *)
(* DisconnectAsync, DisposeAsync and the loop RunAsync of WKIM.cs, with    *)
(* the two tasks of a session (the receiver and the heartbeat) reduced to  *)
(* how they end.  A step is what the code does between two points at which *)
(* another thread can observe it: a block under _gate, or the code from    *)
(* one await to the next.  A definition named Fault... is never used by    *)
(* the specification: it is a wrong version of the definition after it.    *)
(***************************************************************************)
EXTENDS Integers, FiniteSets

CONSTANTS
    Callers,              \* application threads calling into the client
    MaxReconnectAttempts, \* WKIMOptions.MaxReconnectAttempts
    AutoReconnect,        \* WKIMOptions.AutoReconnect
    MaxReady              \* bound: how many _ready completions are created

ASSUME AttemptsAssumption == MaxReconnectAttempts \in Nat
ASSUME ReconnectAssumption == AutoReconnect \in BOOLEAN
ASSUME ReadyAssumption == MaxReady \in Nat

VARIABLES
    stopping,      \* _stopping
    connected,     \* _connected
    session,       \* _session is not null
    lifetime,      \* _lifetime: null, live, cancelled or disposed
    ready,         \* which completion _ready refers to
    outcome,       \* the state of every completion _ready ever referred to
    runId,         \* which task _run refers to
    pc,            \* where RunAsync is; "idle" once _run.IsCompleted
    everConnected, attempt, authenticated, permanent,  \* locals of RunAsync
    sess,          \* RunAsync's current Session object
    reply,         \* the answer to its CONNECT request
    receiver, heartbeat,  \* its two tasks
    first,         \* which of them completed first (Task.WhenAny)
    call,          \* what every application thread is waiting for
    disposal,      \* the task _dispose; _disposed is disposal # "none"
    opened         \* history: sessions opened since the last login

callVars == <<ready, outcome, runId>>
gateVars == <<stopping, connected, session, lifetime, callVars>>
locals   == <<everConnected, attempt, authenticated, permanent, opened>>
runVars  == <<pc, locals>>
taskVars == <<reply, receiver, heartbeat, first>>
sessVars == <<sess, taskVars>>
userVars == <<call, disposal>>
vars == <<gateVars, runVars, sessVars, userVars>>

Idle == [kind |-> "none", on |-> 0]
Calls == [kind : {"none", "connect", "disconnect", "dispose"}, on : 0..MaxReady]

Before == {"loop", "publish", "opening", "auth", "admit"}
Closed == {"stop", "joining", "disposing", "reporting", "backoff", "final"}
Locations == {"idle", "online", "closing", "exiting"} \cup Before \cup Closed

Init ==
    /\ stopping = FALSE /\ connected = FALSE /\ session = FALSE
    /\ lifetime = "none"
    /\ ready = 0 /\ outcome = [i \in 0..MaxReady |-> "pending"]
    /\ runId = 0 /\ pc = "idle"
    /\ everConnected = FALSE /\ attempt = 0
    /\ authenticated = FALSE /\ permanent = FALSE
    /\ sess = "none" /\ reply = "none"
    /\ receiver = "none" /\ heartbeat = "none" /\ first = "none"
    /\ call = [c \in Callers |-> Idle] /\ disposal = "none"
    /\ opened = 0

Cancelled == lifetime # "live"
\* The session's token is linked to the lifetime, so either source cancels it.
SessionDown == Cancelled \/ sess # "live"
RunCompleted(r) == r < runId \/ pc = "idle"
\* TrySetResult, TrySetException: only the first of them has an effect.
TrySet(o) == IF outcome[ready] = "pending"
             THEN [outcome EXCEPT ![ready] = o] ELSE outcome
Begin(c, kind, on) == call' = [call EXCEPT ![c] = [kind |-> kind, on |-> on]]
Return(c) == call' = [call EXCEPT ![c] = Idle]

-----------------------------------------------------------------------------
(* ConnectAsync.  A call that throws, or returns at once because the       *)
(* client is connected, leaves every variable as it is: it is no action.   *)
FaultMayConnect == ~stopping
MayConnect == disposal = "none" /\ ~stopping

StartRun(c) ==
    /\ call[c] = Idle /\ MayConnect /\ ~connected
    /\ RunCompleted(runId)
    /\ ready < MaxReady
    /\ lifetime' = "live"
    /\ ready' = ready + 1 /\ runId' = runId + 1
    /\ pc' = "loop"
    /\ everConnected' = FALSE /\ attempt' = 0
    /\ opened' = 0
    /\ Begin(c, "connect", ready')
    /\ UNCHANGED <<stopping, connected, session, outcome, authenticated,
                   permanent, sessVars, disposal>>

JoinRun(c) ==
    /\ call[c] = Idle /\ MayConnect /\ ~connected
    /\ ~RunCompleted(runId)
    /\ Begin(c, "connect", ready)
    /\ UNCHANGED <<gateVars, runVars, sessVars, disposal>>

\* The caller's wait ends with the completion, or with its own token.
ConnectReturns(c) ==
    /\ call[c].kind = "connect" /\ outcome[call[c].on] # "pending"
    /\ Return(c)
    /\ UNCHANGED <<gateVars, runVars, sessVars, disposal>>

ConnectCanceled(c) ==
    /\ call[c].kind = "connect"
    /\ Return(c)
    /\ UNCHANGED <<gateVars, runVars, sessVars, disposal>>

(* DisconnectAsync: the first block under _gate.  Cancelling a source that *)
(* DisposeAsync has already disposed throws, and _stopping stays set.      *)
Stop ==
    /\ stopping' = TRUE /\ connected' = FALSE
    /\ lifetime' = IF lifetime = "live" THEN "cancelled" ELSE lifetime
    /\ sess' = IF session THEN "stopped" ELSE sess

Disconnect(c) ==
    /\ call[c] = Idle
    /\ Stop
    /\ IF lifetime = "disposed" THEN UNCHANGED call
                                ELSE Begin(c, "disconnect", runId)
    /\ UNCHANGED <<session, callVars, runVars, taskVars, disposal>>

DisconnectReturns(c) ==
    /\ call[c].kind = "disconnect" /\ RunCompleted(call[c].on)
    /\ stopping' = FALSE
    /\ Return(c)
    /\ UNCHANGED <<connected, session, lifetime, callVars, runVars, sessVars,
                   disposal>>

(* DisposeAsync starts one task, however often it is called.  That task    *)
(* runs DisconnectAsync, then drains the event dispatcher, then releases   *)
(* the cancellation source without holding _gate.                          *)
Dispose(c) ==
    /\ call[c] = Idle
    /\ Begin(c, "dispose", 0)
    /\ disposal' = IF disposal = "none" THEN "queued" ELSE disposal
    /\ UNCHANGED <<gateVars, runVars, sessVars>>

DisposeReturns(c) ==
    /\ call[c].kind = "dispose" /\ disposal = "done"
    /\ Return(c)
    /\ UNCHANGED <<gateVars, runVars, sessVars, disposal>>

DisposeStop ==
    /\ disposal = "queued" /\ disposal' = "stopping"
    /\ Stop
    /\ UNCHANGED <<session, callVars, runVars, taskVars, call>>

DisposeStopped ==
    /\ disposal = "stopping" /\ RunCompleted(runId)
    /\ disposal' = "draining"
    /\ stopping' = FALSE
    /\ UNCHANGED <<connected, session, lifetime, callVars, runVars, sessVars,
                   call>>

DisposeLifetime ==
    /\ disposal = "draining" /\ disposal' = "releasing"
    /\ lifetime' = IF lifetime = "none" THEN "none" ELSE "disposed"
    /\ UNCHANGED <<stopping, connected, session, callVars, runVars, sessVars,
                   call>>

DisposeDone ==
    /\ disposal = "releasing" /\ disposal' = "done"
    /\ lifetime' = "none"
    /\ UNCHANGED <<stopping, connected, session, callVars, runVars, sessVars,
                   call>>

-----------------------------------------------------------------------------
(* RunAsync.                                                               *)
LoopExit ==
    /\ pc = "loop" /\ Cancelled
    /\ pc' = "final"
    /\ UNCHANGED <<gateVars, locals, sessVars, userVars>>

NewSession ==
    /\ pc = "loop" /\ ~Cancelled
    /\ pc' = "publish"
    /\ sess' = "live" /\ reply' = "none"
    /\ receiver' = "none" /\ heartbeat' = "none" /\ first' = "none"
    /\ authenticated' = FALSE /\ permanent' = FALSE
    /\ opened' = opened + 1
    /\ UNCHANGED <<gateVars, everConnected, attempt, userVars>>

Publish ==
    /\ pc = "publish" /\ pc' = "opening"
    /\ session' = TRUE
    /\ UNCHANGED <<stopping, connected, lifetime, callVars, locals, sessVars,
                   userVars>>

\* The socket is open: the receiver starts and the CONNECT request is sent.
SocketOpened ==
    /\ pc = "opening" /\ pc' = "auth"
    /\ receiver' = "running"
    /\ UNCHANGED <<gateVars, locals, sess, reply, heartbeat, first, userVars>>

\* An exception leaves the try block; the catch clauses decide permanent.
Fail(p) ==
    /\ pc' = "closing" /\ permanent' = p
    /\ UNCHANGED <<gateVars, everConnected, attempt, authenticated, opened,
                   sessVars, userVars>>

\* Refused, timed out, or cancelled before the socket opened.
OpenFailed == pc = "opening" /\ Fail(FALSE)
\* A reason code other than Success, or a JSON-RPC error.
AuthRefused == pc = "auth" /\ reply = "refused" /\ Fail(TRUE)
\* The receiver met a disconnect frame and failed the pending CONNECT with it.
AuthKicked == pc = "auth" /\ reply = "none" /\ receiver = "kick" /\ Fail(TRUE)
\* A timeout, a cancellation, a lost transport, or a malformed answer.
AuthFailed == pc = "auth" /\ Fail(FALSE)

AuthAccepted ==
    /\ pc = "auth" /\ reply = "accepted" /\ ~SessionDown
    /\ pc' = "admit"
    /\ UNCHANGED <<gateVars, locals, sessVars, userVars>>

FaultMayAdmit == TRUE
MayAdmit == ~Cancelled

Admit ==
    /\ pc = "admit" /\ MayAdmit
    /\ pc' = "online"
    /\ connected' = TRUE
    /\ outcome' = TrySet("ok")
    /\ authenticated' = TRUE /\ everConnected' = TRUE
    /\ attempt' = 0 /\ opened' = 0
    /\ heartbeat' = "running"
    /\ UNCHANGED <<stopping, session, lifetime, ready, runId, permanent, sess,
                   reply, receiver, first, userVars>>

\* Queue(Connected) throws on a full event queue, after _connected was set.
AdmitOverflow ==
    /\ pc = "admit" /\ MayAdmit
    /\ pc' = "closing" /\ permanent' = FALSE
    /\ connected' = TRUE
    /\ UNCHANGED <<stopping, session, lifetime, callVars, everConnected,
                   attempt, authenticated, opened, sessVars, userVars>>

AdmitCancelled == pc = "admit" /\ Cancelled /\ Fail(FALSE)

\* The first task to complete decides: a disconnect frame is permanent.
SessionLost ==
    /\ pc = "online" /\ first # "none"
    /\ Fail(first = "receiver" /\ receiver = "kick")

FaultAlwaysRenew == ~Cancelled
FaultNeverRenew == FALSE
RenewReady == authenticated /\ ~Cancelled

\* The finally block: forget the connection, stop, join, unpublish, dispose.
CloseSession ==
    /\ pc = "closing" /\ pc' = "stop"
    /\ connected' = FALSE
    /\ ready' = IF RenewReady THEN ready + 1 ELSE ready
    /\ UNCHANGED <<stopping, session, lifetime, outcome, runId, locals,
                   sessVars, userVars>>

FaultStopSession ==
    /\ pc = "stop" /\ pc' = "joining"
    /\ UNCHANGED <<gateVars, locals, sessVars, userVars>>
StopSession ==
    /\ pc = "stop" /\ pc' = "joining"
    /\ sess' = "stopped"
    /\ UNCHANGED <<gateVars, locals, taskVars, userVars>>

FaultTasksJoined == receiver # "running"
TasksJoined == receiver # "running" /\ heartbeat # "running"

Unpublish ==
    /\ pc = "joining" /\ TasksJoined
    /\ pc' = "disposing"
    /\ session' = FALSE
    /\ UNCHANGED <<stopping, connected, lifetime, callVars, locals, sessVars,
                   userVars>>

DisposeSession ==
    /\ pc = "disposing" /\ pc' = "reporting"
    /\ sess' = "disposed"
    /\ UNCHANGED <<gateVars, locals, taskVars, userVars>>

FaultRetryInitial ==
    ~permanent /\ AutoReconnect /\ attempt < MaxReconnectAttempts
MayRetry ==
    /\ everConnected /\ ~permanent
    /\ AutoReconnect /\ attempt < MaxReconnectAttempts

GiveUp ==
    /\ pc = "reporting" /\ (Cancelled \/ ~MayRetry)
    /\ pc' = "final"
    /\ UNCHANGED <<gateVars, locals, sessVars, userVars>>

Retry ==
    /\ pc = "reporting" /\ ~Cancelled /\ MayRetry
    /\ pc' = "backoff"
    /\ attempt' = attempt + 1
    /\ UNCHANGED <<gateVars, everConnected, authenticated, permanent, opened,
                   sessVars, userVars>>

\* Task.Delay elapses, or the lifetime is cancelled and it throws.
BackoffEnds ==
    /\ pc = "backoff"
    /\ \/ pc' = "loop"
       \/ Cancelled /\ pc' = "final"
    /\ UNCHANGED <<gateVars, locals, sessVars, userVars>>

FaultFinalOutcome == IF Cancelled THEN outcome ELSE TrySet("failed")
FinalOutcome == TrySet("failed")

\* The outermost finally block, then the completion of the task itself.
Final ==
    /\ pc = "final" /\ pc' = "exiting"
    /\ connected' = FALSE
    /\ outcome' = FinalOutcome
    /\ UNCHANGED <<stopping, session, lifetime, ready, runId, locals, sessVars,
                   userVars>>

Exit ==
    /\ pc = "exiting" /\ pc' = "idle"
    /\ UNCHANGED <<gateVars, locals, sessVars, userVars>>

-----------------------------------------------------------------------------
(* The session's tasks.                                                    *)
\* The receiver completes the pending CONNECT.  Bound: ready < MaxReady.
Reply(r) ==
    /\ pc = "auth" /\ receiver = "running" /\ reply = "none"
    /\ r = "accepted" => ready < MaxReady
    /\ reply' = r
    /\ UNCHANGED <<gateVars, runVars, sess, receiver, heartbeat, first,
                   userVars>>

First(task) == IF first = "none" THEN task ELSE first

\* "kick": a disconnect frame; "lost": everything else that ends the receiver.
ReceiverEnds(how) ==
    /\ receiver = "running"
    /\ receiver' = how /\ first' = First("receiver")
    /\ UNCHANGED <<gateVars, runVars, sess, reply, heartbeat, userVars>>

\* A ping timed out, was refused for lack of capacity, or the token fired.
HeartbeatEnds ==
    /\ heartbeat = "running"
    /\ heartbeat' = "ended" /\ first' = First("heartbeat")
    /\ UNCHANGED <<gateVars, runVars, sess, reply, receiver, userVars>>

-----------------------------------------------------------------------------
Application(c) ==
    \/ StartRun(c) \/ JoinRun(c) \/ ConnectCanceled(c)
    \/ Disconnect(c) \/ Dispose(c)

Returns(c) == ConnectReturns(c) \/ DisconnectReturns(c) \/ DisposeReturns(c)

Disposer == DisposeStop \/ DisposeStopped \/ DisposeLifetime \/ DisposeDone

RunAsync ==
    \/ LoopExit \/ NewSession \/ Publish \/ SocketOpened \/ OpenFailed
    \/ AuthRefused \/ AuthKicked \/ AuthFailed \/ AuthAccepted
    \/ Admit \/ AdmitOverflow \/ AdmitCancelled \/ SessionLost
    \/ CloseSession \/ StopSession \/ Unpublish \/ DisposeSession
    \/ GiveUp \/ Retry \/ BackoffEnds \/ Final \/ Exit

Tasks ==
    \/ \E r \in {"accepted", "refused"} : Reply(r)
    \/ \E how \in {"lost", "kick"} : ReceiverEnds(how)
    \/ HeartbeatEnds

Next ==
    \/ \E c \in Callers : Application(c) \/ Returns(c)
    \/ Disposer
    \/ RunAsync
    \/ Tasks

(* Fairness: the thread pool runs what is ready; ConnectTimeout and the    *)
(* reconnect delay elapse; a task whose token is cancelled ends.  Nothing  *)
(* is assumed of the application, nor of the server and the network.       *)
Fairness ==
    /\ WF_vars(RunAsync)
    /\ WF_vars(Disposer)
    /\ \A c \in Callers : WF_vars(Returns(c))
    /\ WF_vars(SessionDown /\ ReceiverEnds("lost"))
    /\ WF_vars(SessionDown /\ HeartbeatEnds)

Spec == Init /\ [][Next]_vars /\ Fairness
-----------------------------------------------------------------------------
(* Properties.                                                             *)
Completions == {"pending", "ok", "failed"}

\* Every variable has its type, a completion that is not created yet is not
\* settled, and no call waits for a completion or a run that does not exist.
TypeOK ==
    /\ stopping \in BOOLEAN /\ connected \in BOOLEAN /\ session \in BOOLEAN
    /\ lifetime \in {"none", "live", "cancelled", "disposed"}
    /\ ready \in 0..MaxReady /\ runId \in 0..ready
    /\ outcome \in [0..MaxReady -> Completions]
    /\ \A i \in 0..MaxReady : i > ready => outcome[i] = "pending"
    /\ pc \in Locations
    /\ everConnected \in BOOLEAN /\ attempt \in 0..MaxReconnectAttempts
    /\ authenticated \in BOOLEAN /\ permanent \in BOOLEAN
    /\ opened \in Nat
    /\ sess \in {"none", "live", "stopped", "disposed"}
    /\ reply \in {"none", "accepted", "refused"}
    /\ receiver \in {"none", "running", "lost", "kick"}
    /\ heartbeat \in {"none", "running", "ended"}
    /\ first \in {"none", "receiver", "heartbeat"}
    /\ call \in [Callers -> Calls]
    /\ \A c \in Callers : call[c].on <= ready
    /\ disposal \in {"none", "queued", "stopping", "draining", "releasing",
                     "done"}

\* A caller of ConnectAsync whose wait is not over waits on the completion
\* that a running supervisor still has to settle: replacing _ready in the
\* finally block of a lost session (WKIM.cs:243), or starting a new run,
\* never leaves a caller on a completion nobody will settle.
NoOrphan ==
    \A c \in Callers :
        call[c].kind = "connect" /\ outcome[call[c].on] = "pending"
            => call[c].on = ready /\ pc \notin {"idle", "exiting"}

\* While the run has not been stopped and the client is not connected, _ready
\* is not the completion of an earlier login: a caller that joins a run which
\* is recovering cannot be given the success of the session that was lost.
\* Stopping the run keeps _ready as it is (WKIM.cs:243): it is _stopping that
\* then has to keep callers out, see ConnectAuthenticates.
NoStaleSuccess ==
    outcome[ready] = "ok" /\ ~Cancelled => connected

\* IsConnected is true only between the admission of a session and its
\* cleanup, with the lifetime live and the session published: SendAsync never
\* finds the client connected with no session, or with a stopped one.  Nor is
\* a published session a disposed one, whose source the Stop() of
\* DisconnectAsync under _gate must not touch (WKIM.cs:143-145, 246-250).
ConnectedOnlyWhileLive ==
    /\ connected => /\ lifetime = "live" /\ session /\ sess = "live"
                    /\ pc \in {"online", "closing"}
    /\ session => sess \in {"live", "stopped"}

\* The loop opens a session only when both tasks of the one before have been
\* joined ("serializes cleanup before a replacement socket is admitted",
\* WKIM.cs:170), and the run completes only then.
NoTaskOutlivesSession ==
    pc \in {"idle", "loop", "publish", "opening", "disposing", "reporting",
            "backoff", "final", "exiting"}
        => receiver # "running" /\ heartbeat # "running"

\* Between two logins at most MaxReconnectAttempts sessions are opened, none
\* without AutoReconnect, and before the first login only one: "An initial
\* failure does not retry silently" (WKIM.cs:75).
RetryBudget ==
    opened <= IF ~everConnected THEN 1
              ELSE IF AutoReconnect THEN MaxReconnectAttempts ELSE 0

\* As long as a DisconnectAsync or the disposal still waits for the run, the
\* lifetime of that run stays cancelled: no later ConnectAsync revives it.
\* Once the disposal has waited for it there is no run, no published session
\* and no connection, and none appears again (WKIM.cs:82, 143-149, 157-166).
StoppedRunStaysStopped ==
    /\ \A c \in Callers :
          call[c].kind = "disconnect" /\ ~RunCompleted(call[c].on) => Cancelled
    /\ disposal = "stopping" => Cancelled
    /\ disposal \in {"draining", "releasing", "done"}
          => pc = "idle" /\ ~session /\ ~connected

\* A server disconnect, a kick included, that the receiver has handled stops
\* automatic retry (README.md, Lifecycle).
KickStopsRetry == pc = "backoff" => receiver # "kick"

\* A ConnectAsync that does not find the client connected "opens and
\* authenticates" (WKIM.cs:74): it never starts out on the success of an
\* earlier login.  A run that is being stopped still has one in _ready, so a
\* caller must "await DisconnectAsync before connecting again" (WKIM.cs:83).
ConnectAuthenticates ==
    [][\A c \in Callers :
          call[c] = Idle /\ call'[c].kind = "connect"
              => outcome'[call'[c].on] # "ok"]_vars

\* Every call returns, whatever the run was doing: a ConnectAsync when its run
\* is admitted, gives up or is cancelled, a DisconnectAsync and a DisposeAsync
\* when the run has ended (WKIM.cs:93, 147, 157-166).
CallsReturn ==
    /\ \A c \in Callers, kind \in {"connect", "disconnect", "dispose"} :
          call[c].kind = kind ~> call[c].kind # kind
    /\ disposal # "none" ~> disposal = "done"

-----------------------------------------------------------------------------
(* The refinement of Lifecycle.                                            *)
Phase ==
    CASE pc = "idle" -> "offline"
      [] pc # "idle" /\ Cancelled -> "stopping"
      [] pc = "online" /\ ~Cancelled -> "online"
      [] pc = "closing" /\ authenticated /\ ~Cancelled -> "online"
      [] OTHER -> IF everConnected THEN "recovering" ELSE "connecting"

Budget == IF AutoReconnect THEN MaxReconnectAttempts ELSE 0

Abstract == INSTANCE Lifecycle WITH phase <- Phase, retries <- attempt

\* The supervisor implements the lifecycle, its liveness included: a step of
\* the loop, of a task or of a caller is a step of Lifecycle or changes
\* nothing that Lifecycle shows.
ImplementsLifecycle == Abstract!Spec

-----------------------------------------------------------------------------
(* The interface to the requests and the events of a session.  A receiver  *)
(* that has not been started counts as one that can still read.            *)
Status ==
    IF connected THEN "open"
    ELSE IF pc \in {"publish", "opening", "auth", "admit"} THEN "opening"
    ELSE "closed"
Reading == receiver = "running" \/ pc \in {"publish", "opening"}
Halt ==
    IF disposal \in {"none", "queued"} THEN "no"
    ELSE IF disposal = "stopping" THEN "stopping" ELSE "done"

Interface == INSTANCE Session
    WITH status <- Status, token <- SessionDown, reading <- Reading,
         beating <- (heartbeat = "running"),
         disposed <- (sess \in {"none", "disposed"}), halt <- Halt

\* The supervisor does to its sessions only what Requests and Events rely on:
\* it admits no stopped session, gives one up only when it is stopped or has
\* lost a task, disposes it after both tasks, and opens none after a stop
\* (WKIM.cs:170, 206-250).
ImplementsSession == Interface!Spec
=============================================================================
