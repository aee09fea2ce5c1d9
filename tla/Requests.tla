------------------------------ MODULE Requests ------------------------------
(***************************************************************************)
(* The requests of one admitted session of WKIM.cs: SendAsync and the      *)
(* heartbeat's pings go through RequestAsync, which takes a permit of      *)
(* Capacity, registers in the Pending table, writes under WriteLock and    *)
(* waits for its completion; the receiver settles completions, writes      *)
(* recvacks under the same lock, and fails the whole table when it ends.   *)
(* A step runs from one await, or one operation on a shared object, to the *)
(* next.  Fault... definitions are wrong versions of the definition after  *)
(* them and are never used by the specification.                           *)
(***************************************************************************)
EXTENDS Integers, FiniteSets

CONSTANTS
    Sends,               \* calls of SendAsync, each with an id of its own
    Pings,               \* pings; bound: the heartbeat ticks once for each
    MaxPendingRequests,  \* WKIMOptions.MaxPendingRequests
    Nobody, Receiver     \* WriteLock is free; it is held by the receiver

ASSUME PermitsAssumption == MaxPendingRequests \in Nat \ {0}
ASSUME NamesAssumption ==
    /\ Sends \cap Pings = {}
    /\ Nobody \notin Sends \cup Pings /\ Receiver \notin Sends \cup Pings
    /\ Nobody # Receiver
ASSUME FiniteAssumption == IsFiniteSet(Sends) /\ IsFiniteSet(Pings)

Requests == Sends \cup Pings

VARIABLES
    stage,      \* where every request is in SendAsync and RequestAsync
    result,     \* how it ended
    comp,       \* its Pending.Completion
    pending,    \* session.Pending: the ids in the table
    permits,    \* session.Capacity
    writer,     \* who holds session.WriteLock
    seen,       \* requests the server received
    answered,   \* requests the server answered
    receiver, heartbeat,  \* the session's tasks
    connected,  \* _connected, as far as this session is concerned
    token,      \* session.Token is cancelled
    socket,     \* session.Socket is open (and not aborted)
    disposed    \* session.Dispose() has run

table == <<comp, pending, permits>>
requestVars == <<stage, result, table, writer>>
serverVars  == <<seen, answered>>
flags == <<connected, token, socket, disposed>>
sessionVars == <<receiver, heartbeat, flags>>
vars == <<requestVars, serverVars, sessionVars>>

\* The permit is held from "acquired" to "releasing".
Holding == {"acquired", "registered", "writing", "waiting", "leaving",
            "releasing"}
Stages == {"idle", "captured", "done"} \cup Holding
Results == {"none", "ok", "rpc", "kick", "lost", "disconnected", "timeout",
            "canceled", "backpressure", "argument"}
Ended == {"kick", "lost", "returned"}

Init ==
    /\ stage = [r \in Requests |-> "idle"]
    /\ result = [r \in Requests |-> "none"]
    /\ comp = [r \in Requests |-> "none"]
    /\ pending = {} /\ permits = MaxPendingRequests
    /\ writer = Nobody
    /\ seen = {} /\ answered = {}
    /\ receiver = "reading" /\ heartbeat = "sleeping"
    /\ connected = TRUE /\ token = FALSE /\ socket = TRUE /\ disposed = FALSE

Move(r, s) == stage' = [stage EXCEPT ![r] = s]
Leave(r, s, o) == Move(r, s) /\ result' = [result EXCEPT ![r] = o]

\* What an OperationCanceledException of the linked deadline turns into.  The
\* caller's token and the deadline itself can fire at any time; a ping is
\* given the session's token as the caller's.
Expired(r) ==
    IF token THEN {"canceled"} \cup (IF r \in Sends THEN {"disconnected"} ELSE {})
    ELSE {"timeout"} \cup (IF r \in Sends THEN {"canceled"} ELSE {})

-----------------------------------------------------------------------------
(* SendAsync and RequestAsync.                                             *)
\* Under _gate: an unconnected client refuses, otherwise the session is kept.
Capture(r) ==
    /\ r \in Sends /\ stage[r] = "idle"
    /\ IF connected THEN Move(r, "captured") /\ UNCHANGED result
                    ELSE Leave(r, "done", "disconnected")
    /\ UNCHANGED <<table, writer, serverVars, sessionVars>>

\* Capacity.Wait(0): it never blocks.
Acquire(r) ==
    /\ stage[r] = "captured"
    /\ IF permits > 0
         THEN Move(r, "acquired") /\ permits' = permits - 1 /\ UNCHANGED result
         ELSE Leave(r, "done", "backpressure") /\ UNCHANGED permits
    /\ UNCHANGED <<comp, pending, writer, serverVars, sessionVars>>

\* The table may already have been swept by a receiver that has ended.
Register(r) ==
    /\ stage[r] = "acquired"
    /\ Move(r, "registered")
    /\ pending' = pending \cup {r}
    /\ UNCHANGED <<result, comp, permits, writer, serverVars, sessionVars>>

\* parameters() throws, or the serialized request exceeds MaxMessageBytes.
FaultBadArgument(r) ==
    /\ r \in Sends /\ stage[r] = "registered"
    /\ Leave(r, "done", "argument")
    /\ UNCHANGED <<table, writer, serverVars, sessionVars>>
BadArgument(r) ==
    /\ r \in Sends /\ stage[r] = "registered"
    /\ Leave(r, "leaving", "argument")
    /\ UNCHANGED <<table, writer, serverVars, sessionVars>>

LockWrite(r) ==
    /\ stage[r] = "registered" /\ writer = Nobody /\ ~token
    /\ Move(r, "writing") /\ writer' = r
    /\ UNCHANGED <<result, table, serverVars, sessionVars>>

\* The frame reaches the server, perhaps before SendAsync has returned: the
\* answer may then be handled while the request is still being written.
Delivered(r) ==
    /\ stage[r] = "writing" /\ socket /\ r \notin seen
    /\ seen' = seen \cup {r}
    /\ UNCHANGED <<requestVars, answered, sessionVars>>

Written(r) ==
    /\ stage[r] = "writing" /\ socket
    /\ Move(r, "waiting") /\ writer' = Nobody
    /\ seen' = seen \cup {r}
    /\ UNCHANGED <<result, table, answered, sessionVars>>

\* The socket was aborted under the write; the frame may have left before.
WriteFails(r) ==
    /\ stage[r] = "writing" /\ ~socket
    /\ Leave(r, "leaving", "disconnected")
    /\ writer' = Nobody
    /\ seen' \in {seen, seen \cup {r}}
    /\ UNCHANGED <<table, answered, sessionVars>>

\* The deadline fires during the write: ClientWebSocket aborts the socket.
WriteExpires(r) ==
    /\ stage[r] = "writing"
    /\ \E o \in Expired(r) : Leave(r, "leaving", o)
    /\ writer' = Nobody /\ socket' = FALSE
    /\ seen' \in {seen, seen \cup {r}}
    /\ UNCHANGED <<table, answered, receiver, heartbeat, connected, token,
                   disposed>>

\* The deadline fires while the request waits for the lock or for its answer.
FaultExpire(r) ==
    /\ \/ stage[r] = "registered"
       \/ stage[r] = "waiting" /\ comp[r] = "none"
    /\ \E o \in Expired(r) : Leave(r, "leaving", o)
    /\ writer' = Nobody
    /\ UNCHANGED <<table, serverVars, sessionVars>>
Expire(r) ==
    /\ \/ stage[r] = "registered"
       \/ stage[r] = "waiting" /\ comp[r] = "none"
    /\ \E o \in Expired(r) : Leave(r, "leaving", o)
    /\ UNCHANGED <<table, writer, serverVars, sessionVars>>

Complete(r) ==
    /\ stage[r] = "waiting" /\ comp[r] # "none"
    /\ Leave(r, "leaving", comp[r])
    /\ UNCHANGED <<table, writer, serverVars, sessionVars>>

\* The finally block: out of the table first, then the permit.
Remove(r) ==
    /\ stage[r] = "leaving"
    /\ Move(r, "releasing") /\ pending' = pending \ {r}
    /\ UNCHANGED <<result, comp, permits, writer, serverVars, sessionVars>>

Release(r) ==
    /\ stage[r] = "releasing"
    /\ Move(r, "done") /\ permits' = permits + 1
    /\ UNCHANGED <<result, comp, pending, writer, serverVars, sessionVars>>

-----------------------------------------------------------------------------
(* The receiver.  The network is the choice of the next frame.             *)
\* TrySetResult and TrySetException on a set of completions.
Settle(rs, o) ==
    comp' = [r \in Requests |->
                IF r \in rs /\ comp[r] = "none" THEN o ELSE comp[r]]

Reading == receiver = "reading" /\ socket /\ ~token

\* The server answers a request it received, perhaps long after its end.
Answer(r, o) ==
    /\ Reading /\ r \in seen
    /\ answered' = answered \cup {r}
    /\ Settle({r} \cap pending, o)
    /\ UNCHANGED <<stage, result, pending, permits, writer, seen, sessionVars>>

\* A pong carries no id: it completes every ping in the table.
FaultPonged == pending
Ponged == pending \cap Pings
Pong ==
    /\ Reading
    /\ Settle(Ponged, "ok")
    /\ UNCHANGED <<stage, result, pending, permits, writer, serverVars,
                   sessionVars>>

\* A message was admitted to the event queue: the recvack must be written.
Recv ==
    /\ Reading
    /\ receiver' = "acking"
    /\ UNCHANGED <<requestVars, serverVars, heartbeat, flags>>

AckLock ==
    /\ receiver = "acking" /\ writer = Nobody /\ ~token
    /\ receiver' = "ackwriting" /\ writer' = Receiver
    /\ UNCHANGED <<stage, result, table, serverVars, heartbeat, flags>>

Acked ==
    /\ receiver = "ackwriting" /\ socket
    /\ receiver' = "reading" /\ writer' = Nobody
    /\ UNCHANGED <<stage, result, table, serverVars, heartbeat, flags>>

\* The receiver throws: every request then in the table fails with its error.
Sweep(how) == Settle(pending, how)
Throw(how) ==
    /\ receiver' = how
    /\ Sweep(how)
    /\ UNCHANGED <<stage, result, pending, permits, serverVars, heartbeat,
                   connected, token, disposed>>

\* A disconnect frame.
Kick == receiver = "reading" /\ Throw("kick") /\ UNCHANGED <<writer, socket>>

\* A closed or aborted socket, a malformed frame, a full event queue; or the
\* deadline of a recvack while it waits for the lock.
Lost ==
    /\ receiver \in {"reading", "acking"}
    /\ Throw("lost") /\ UNCHANGED <<writer, socket>>

\* The recvack itself fails; if its deadline fired, the socket is aborted.
AckFails ==
    /\ receiver = "ackwriting"
    /\ Throw("lost") /\ writer' = Nobody /\ socket' = FALSE

\* The loop test sees the cancelled token: no exception, hence no sweep.
ReceiverReturns ==
    /\ receiver = "reading" /\ token
    /\ receiver' = "returned"
    /\ UNCHANGED <<requestVars, serverVars, heartbeat, flags>>

-----------------------------------------------------------------------------
(* The heartbeat.                                                          *)
Tick(p) ==
    /\ heartbeat = "sleeping" /\ ~token
    /\ stage[p] = "idle"
    /\ heartbeat' = "pinging" /\ Move(p, "captured")
    /\ UNCHANGED <<result, table, writer, serverVars, receiver, flags>>

\* Only an answered ping keeps the heartbeat going.
FaultPingFailed == FALSE
PingFailed == \E p \in Pings : stage[p] = "done" /\ result[p] # "ok"
PingReturns ==
    /\ heartbeat = "pinging"
    /\ \A p \in Pings : stage[p] \in {"idle", "done"}
    /\ heartbeat' = IF PingFailed THEN "ended" ELSE "sleeping"
    /\ UNCHANGED <<requestVars, serverVars, receiver, flags>>

HeartbeatCancelled ==
    /\ heartbeat = "sleeping" /\ token
    /\ heartbeat' = "ended"
    /\ UNCHANGED <<requestVars, serverVars, receiver, flags>>

-----------------------------------------------------------------------------
(* The supervisor, as the session sees it.                                 *)
\* Task.WhenAny: one of the two tasks has completed.
Close ==
    /\ connected
    /\ receiver \in Ended \/ heartbeat = "ended"
    /\ connected' = FALSE
    /\ UNCHANGED <<requestVars, serverVars, receiver, heartbeat, token, socket,
                   disposed>>

\* Session.Stop(); DisconnectAsync clears _connected in the same step.
Stop ==
    /\ token' = TRUE /\ socket' = FALSE
    /\ UNCHANGED <<requestVars, serverVars, receiver, heartbeat, disposed>>
StopSession == ~connected /\ ~token /\ Stop /\ UNCHANGED connected
Disconnect == connected /\ Stop /\ connected' = FALSE

FaultMayDispose == ~connected /\ token /\ receiver \in Ended
MayDispose == ~connected /\ token /\ receiver \in Ended /\ heartbeat = "ended"
Dispose ==
    /\ ~disposed /\ MayDispose
    /\ disposed' = TRUE
    /\ UNCHANGED <<requestVars, serverVars, receiver, heartbeat, connected,
                   token, socket>>

-----------------------------------------------------------------------------
Proceed(r) ==
    \/ Acquire(r) \/ Register(r) \/ LockWrite(r) \/ WriteFails(r)
    \/ Complete(r) \/ Remove(r) \/ Release(r)

\* A deadline that is not linked to session.Token.
FaultTimesOut(r) == ~token /\ (Expire(r) \/ WriteExpires(r))
TimesOut(r) == Expire(r) \/ WriteExpires(r)

Request(r) ==
    \/ Capture(r) \/ BadArgument(r) \/ Written(r)
    \/ Proceed(r) \/ TimesOut(r)

ReceiverNext ==
    \/ \E r \in Requests, o \in {"ok", "rpc"} : Answer(r, o)
    \/ Pong \/ Recv \/ AckLock \/ Acked
    \/ Kick \/ Lost \/ AckFails \/ ReceiverReturns

HeartbeatNext == (\E p \in Pings : Tick(p)) \/ PingReturns \/ HeartbeatCancelled

SupervisorNext == Close \/ StopSession \/ Dispose

Next ==
    \/ \E r \in Requests : Request(r) \/ Delivered(r)
    \/ ReceiverNext \/ HeartbeatNext \/ SupervisorNext \/ Disconnect

(* Fairness.  The thread pool runs what is ready; once the token or the    *)
(* socket is gone, pending I/O and waits end.  Nothing is assumed of the   *)
(* server, of the network (a write need not complete while the socket is   *)
(* open), of the callers, or of any timer.                                 *)
Fairness ==
    /\ \A r \in Requests :
          /\ WF_vars(Proceed(r))
          /\ WF_vars(token /\ TimesOut(r))
    /\ WF_vars(~socket /\ (Lost \/ AckFails))
    /\ WF_vars(token /\ ReceiverReturns)
    /\ WF_vars(PingReturns \/ HeartbeatCancelled)
    /\ WF_vars(SupervisorNext)

Spec == Init /\ [][Next]_vars /\ Fairness

-----------------------------------------------------------------------------
(* Properties.                                                             *)
\* Every variable has its type.
TypeOK ==
    /\ stage \in [Requests -> Stages] /\ result \in [Requests -> Results]
    /\ comp \in [Requests -> {"none", "ok", "rpc", "kick", "lost"}]
    /\ pending \subseteq Requests /\ permits \in 0..MaxPendingRequests
    /\ writer \in Requests \cup {Nobody, Receiver}
    /\ seen \subseteq Requests /\ answered \subseteq Requests
    /\ receiver \in {"reading", "acking", "ackwriting"} \cup Ended
    /\ heartbeat \in {"sleeping", "pinging", "ended"}
    /\ connected \in BOOLEAN /\ token \in BOOLEAN /\ socket \in BOOLEAN
    /\ disposed \in BOOLEAN

\* No error path of RequestAsync leaks or invents a permit, and the table
\* never holds more ids than MaxPendingRequests nor an id nobody waits for.
CapacityConserved ==
    /\ permits + Cardinality({r \in Requests : stage[r] \in Holding})
          = MaxPendingRequests
    /\ pending = {r \in Requests :
                    stage[r] \in {"registered", "writing", "waiting", "leaving"}}

\* WriteLock is held by exactly the request, or recvack, that is on the wire:
\* a wait that expires gives back no lock it does not hold ("ClientWebSocket
\* permits one writer at a time", WKIM.cs:317).
OneWriter ==
    /\ \A r \in Requests : writer = r <=> stage[r] = "writing"
    /\ writer = Receiver <=> receiver = "ackwriting"

\* A SendAsync succeeds only with the server's answer to that very request:
\* not with a pong, not with the answer to another or an earlier request.
SuccessIsAnswered ==
    \A r \in Sends : result[r] \in {"ok", "rpc"} => r \in answered

\* When the session is disposed none of its tasks runs, so no ping is open
\* and no recvack is being written; only sends may still be unwinding.
DisposedAfterTasks ==
    disposed => /\ receiver \in Ended /\ heartbeat = "ended"
                /\ writer # Receiver
                /\ \A p \in Pings : stage[p] \in {"idle", "done"}

\* Overload makes excess callers fail, not the session (README.md, options
\* table, MaxPendingRequests).
OverloadSparesHeartbeat == \A p \in Pings : result[p] # "backpressure"

\* Once the client is disconnected the session is disposed, without any timer
\* having to fire: its tasks do not wait for each other or for a request.
DeadSessionDisposed == ~connected ~> disposed

\* A ping that is not answered costs the session its connection.
DeadPeerDetected ==
    \A p \in Pings :
        stage[p] = "done" /\ result[p] # "ok" ~> ~connected

-----------------------------------------------------------------------------
(* The refinement of RequestContract.                                      *)
Outcome(o) ==
    CASE o = "ok" -> "ok"
      [] o = "rpc" -> "rejected"
      [] o \in {"backpressure", "argument"} -> "refused"
      [] OTHER -> "uncertain"

Status == [r \in Sends |-> IF stage[r] = "idle" THEN "idle"
                           ELSE IF stage[r] = "done" THEN Outcome(result[r])
                           ELSE "open"]

Contract == INSTANCE RequestContract
    WITH Requests <- Sends, status <- Status, lost <- ~connected,
         seen <- seen \cap Sends, answered <- answered \cap Sends

\* A session keeps the contract of its sends, whatever the heartbeat does.
\* Its liveness includes the request that registers after the receiver has
\* failed the table: only the session's token can end it.
ImplementsContract == Contract!Spec

-----------------------------------------------------------------------------
(* The interface to the supervisor.                                        *)
Interface == INSTANCE Session
    WITH status <- (IF connected THEN "open" ELSE "closed"),
         reading <- (receiver \notin Ended), beating <- (heartbeat # "ended"),
         halt <- "no"

\* The tasks and the end of a session are those that Supervisor and Events
\* count on: a task that has ended stays so, and the session is disposed after
\* both (WKIM.cs:245-250).
ImplementsSession == Interface!Spec
=============================================================================
