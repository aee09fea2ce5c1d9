------------------------------- MODULE Events -------------------------------
(***************************************************************************)
(* The event queue of the client: the bounded channel _events, its         *)
(* producers (the receiver, the supervisor, a completing SendAsync), the   *)
(* dispatcher that runs the application's handlers one at a time, and the  *)
(* end of both in DisposeAsync.  The sessions follow one another as        *)
(* RunAsync makes them; how they are lost is Supervisor's subject.         *)
(* Fault... definitions are wrong versions of the definition after them    *)
(* and are never used by the specification.                                *)
(***************************************************************************)
EXTENDS Integers, Sequences, FiniteSets

CONSTANTS
    Messages,         \* RECV frames the server sends, each once
    Listeners,        \* handlers the application adds to Message and removes
    Observed,         \* the other events that have a handler, for good
    MaxQueuedEvents,  \* WKIMOptions.MaxQueuedEvents
    MaxSessions       \* bound: sessions opened

ASSUME QueueAssumption == MaxQueuedEvents \in Nat \ {0}
ASSUME SessionsAssumption == MaxSessions \in Nat

ASSUME ObservedAssumption ==
    Observed \subseteq {"connected", "disconnected", "error", "event",
                        "reconnecting", "sendack"}

VARIABLES
    queue,      \* _events: what waits for the dispatcher
    completed,  \* _events.Writer.TryComplete() has run
    running,    \* the callback the dispatcher is in
    listeners,  \* the invocation list of Message; {} when it is null
    phase,      \* where RunAsync is with its current session
    session,    \* the number of that session
    receiver,   \* its receiver
    arrived,    \* the messages received so far, in any session
    unacked,    \* the message whose recvack the receiver is writing
    acked,      \* history: messages acknowledged to the server
    wanted,     \* history: messages that arrived while Message had a handler
    admitted,   \* history: messages put into the queue
    owed,       \* history: <<message, listener>> pairs put into the queue
    handled,    \* history: the pairs whose callback has returned or thrown
    disposal    \* DisposeAsync

channel == <<queue, completed, running>>
frames == <<arrived, unacked, acked>>
producerVars == <<phase, session, receiver, frames>>
historyVars == <<wanted, admitted, owed, handled>>
vars == <<channel, listeners, producerVars, historyVars, disposal>>

NoMessage == "none"
\* A queued closure: the handlers were captured when it was queued.
Event(kind, what, to) ==
    [kind |-> kind, session |-> session, what |-> what, to |-> to]
Quiet == [kind |-> "none", session |-> 0, what |-> NoMessage, to |-> {}]

Init ==
    /\ queue = <<>> /\ completed = FALSE /\ running = Quiet
    /\ listeners = {}
    /\ phase = "offline" /\ session = 0 /\ receiver = "ended"
    /\ arrived = {} /\ unacked = NoMessage /\ acked = {}
    /\ wanted = {} /\ admitted = {} /\ owed = {} /\ handled = {}
    /\ disposal = "none"

\* Writer.TryWrite: false on a full or a completed channel, never blocking.
Room == Len(queue) < MaxQueuedEvents /\ ~completed
\* TryQueue accepts an event nobody observes, and drops what does not fit.
Accepts(kind) == kind \notin Observed \/ Room
TryQueue(kind) ==
    queue' = IF kind \in Observed /\ Room
             THEN Append(queue, Event(kind, NoMessage, {})) ELSE queue

-----------------------------------------------------------------------------
(* The application.                                                        *)
Subscribe(l) ==
    /\ l \notin listeners /\ disposal # "done"
    /\ listeners' = listeners \cup {l}
    /\ UNCHANGED <<channel, producerVars, historyVars, disposal>>

Unsubscribe(l) ==
    /\ l \in listeners
    /\ listeners' = listeners \ {l}
    /\ UNCHANGED <<channel, producerVars, historyVars, disposal>>

\* The end of a SendAsync that the server answered, at any time: even after
\* its session, and after the disposal.
SendCompletes ==
    /\ session > 0
    /\ TryQueue("sendack")
    /\ UNCHANGED <<completed, running, listeners, producerVars, historyVars,
                   disposal>>

-----------------------------------------------------------------------------
(* The supervisor.  Bound: session < MaxSessions.                          *)
FaultOpen ==
    /\ phase = "offline" /\ disposal # "done"
    /\ session < MaxSessions
    /\ phase' = "opening" /\ session' = session + 1
    /\ receiver' = "reading"
    /\ UNCHANGED <<channel, listeners, frames, historyVars, disposal>>
Open ==
    /\ phase = "offline" /\ disposal \in {"none", "queued"}
    /\ session < MaxSessions
    /\ phase' = "opening" /\ session' = session + 1
    /\ receiver' = "reading"
    /\ UNCHANGED <<channel, listeners, frames, historyVars, disposal>>

\* Queue(Connected) under _gate: a full queue fails the session.
Admit ==
    /\ phase = "opening"
    /\ TryQueue("connected")
    /\ phase' = IF Accepts("connected") THEN "online" ELSE "closing"
    /\ UNCHANGED <<completed, running, listeners, session, receiver, frames,
                   historyVars, disposal>>

\* A failed login, a lost session, DisconnectAsync or DisposeAsync.
Close ==
    /\ phase \in {"opening", "online"}
    /\ phase' = "closing"
    /\ UNCHANGED <<channel, listeners, session, receiver, frames, historyVars,
                   disposal>>

FaultJoined == TRUE
Joined == receiver = "ended"
Join ==
    /\ phase = "closing" /\ Joined
    /\ phase' = "reporting"
    /\ UNCHANGED <<channel, listeners, session, receiver, frames, historyVars,
                   disposal>>

Report ==
    /\ phase = "reporting"
    /\ TryQueue("disconnected")
    /\ phase' = "reported"
    /\ UNCHANGED <<completed, running, listeners, session, receiver, frames,
                   historyVars, disposal>>

\* A stopped run reports no more; otherwise Error, and Reconnecting on retry.
ReportError ==
    /\ phase = "reported"
    /\ \/ phase' = "offline" /\ UNCHANGED queue
       \/ phase' \in {"offline", "backoff"} /\ TryQueue("error")
    /\ UNCHANGED <<completed, running, listeners, session, receiver, frames,
                   historyVars, disposal>>

ReportRetry ==
    /\ phase = "backoff" /\ phase' = "offline"
    /\ TryQueue("reconnecting")
    /\ UNCHANGED <<completed, running, listeners, session, receiver, frames,
                   historyVars, disposal>>

-----------------------------------------------------------------------------
(* The receiver.                                                           *)
\* A null Message accepts without queueing, as in TryQueue.
FaultAdmissible == TRUE
Admissible == listeners = {} \/ Room

\* A recv frame: admitted, and then to be acknowledged; or the queue is full
\* and the receiver fails the session without an acknowledgement.
Receive(m) ==
    /\ receiver = "reading" /\ m \notin arrived
    /\ arrived' = arrived \cup {m}
    /\ IF Admissible
         THEN receiver' = "acking" /\ unacked' = m
         ELSE receiver' = "ended" /\ UNCHANGED unacked
    /\ wanted' = IF listeners = {} THEN wanted ELSE wanted \cup {m}
    /\ IF listeners # {} /\ Room
         THEN /\ queue' = Append(queue, Event("message", m, listeners))
              /\ admitted' = admitted \cup {m}
              /\ owed' = owed \cup ({m} \X listeners)
         ELSE UNCHANGED <<queue, admitted, owed>>
    /\ UNCHANGED <<completed, running, listeners, phase, session, acked,
                   handled, disposal>>

\* An event frame, or a sendack the server sends unasked: nothing to
\* acknowledge, but a full queue fails the session as well.
Notify(kind) ==
    /\ receiver = "reading"
    /\ TryQueue(kind)
    /\ receiver' = IF Accepts(kind) THEN "reading" ELSE "ended"
    /\ UNCHANGED <<completed, running, listeners, phase, session, frames,
                   historyVars, disposal>>

Ack ==
    /\ receiver = "acking"
    /\ receiver' = "reading" /\ acked' = acked \cup {unacked}
    /\ unacked' = NoMessage
    /\ UNCHANGED <<channel, listeners, phase, session, arrived, historyVars,
                   disposal>>

\* The socket, the token or the recvack fails.
ReceiverEnds ==
    /\ receiver # "ended"
    /\ receiver' = "ended" /\ unacked' = NoMessage
    /\ UNCHANGED <<channel, listeners, phase, session, arrived, acked,
                   historyVars, disposal>>

-----------------------------------------------------------------------------
(* The dispatcher.                                                         *)
Dispatch ==
    /\ running = Quiet /\ queue # <<>>
    /\ running' = Head(queue) /\ queue' = Tail(queue)
    /\ UNCHANGED <<completed, listeners, producerVars, historyVars, disposal>>

FaultAfterThrow(l) == {}
FaultRunAgain(l) == running.to
AfterThrow(l) == running.to \ {l}

\* A handler returns, or throws: Error is then raised in the same callback,
\* and the handlers after it still run.
Callback(l) ==
    /\ l \in running.to
    /\ handled' = handled \cup {<<running.what, l>>}
    /\ \/ running' = [running EXCEPT !.to = @ \ {l}]
       \/ running' = [running EXCEPT !.to = AfterThrow(l)]
    /\ UNCHANGED <<queue, completed, listeners, producerVars, wanted, admitted,
                   owed, disposal>>

Dispatched ==
    /\ running # Quiet /\ running.to = {}
    /\ running' = Quiet
    /\ UNCHANGED <<queue, completed, listeners, producerVars, historyVars,
                   disposal>>

-----------------------------------------------------------------------------
(* DisposeAsync: stop, complete the channel, drain it, drop the handlers.  *)
Dispose ==
    /\ disposal = "none" /\ disposal' = "queued"
    /\ UNCHANGED <<channel, listeners, producerVars, historyVars>>

\* DisconnectAsync inside the disposal: from here on no session is opened.
StopRun ==
    /\ disposal = "queued" /\ disposal' = "stopping"
    /\ UNCHANGED <<channel, listeners, producerVars, historyVars>>

FaultCompleteWriter ==
    /\ disposal = "stopping" /\ phase = "offline"
    /\ disposal' = "draining"
    /\ UNCHANGED <<channel, listeners, producerVars, historyVars>>
CompleteWriter ==
    /\ disposal = "stopping" /\ phase = "offline"
    /\ disposal' = "draining" /\ completed' = TRUE
    /\ UNCHANGED <<queue, running, listeners, producerVars, historyVars>>

\* The dispatcher's loop ends when the channel is completed and empty.
FaultDrained == running = Quiet
Drained == completed /\ running = Quiet /\ queue = <<>>

DropHandlers ==
    /\ disposal = "draining" /\ Drained
    /\ disposal' = "done" /\ listeners' = {}
    /\ UNCHANGED <<channel, producerVars, historyVars>>

-----------------------------------------------------------------------------
Application ==
    \/ \E l \in Listeners : Subscribe(l) \/ Unsubscribe(l)
    \/ SendCompletes \/ Dispose
Supervisor == Open \/ Admit \/ Close \/ Join \/ Report \/ ReportError \/ ReportRetry
ReceiverNext ==
    \/ \E m \in Messages : Receive(m)
    \/ \E kind \in {"event", "sendack"} : Notify(kind)
    \/ Ack \/ ReceiverEnds
Dispatcher == Dispatch \/ (\E l \in Listeners : Callback(l)) \/ Dispatched
Disposer == StopRun \/ CompleteWriter \/ DropHandlers

Next == Application \/ Supervisor \/ ReceiverNext \/ Dispatcher \/ Disposer

(* Fairness: the dispatcher runs and handlers return (README.md asks for   *)
(* handlers that do not block); a closed session is cleaned up, a stopped  *)
(* one is closed, and the disposal goes on.                                *)
Fairness ==
    /\ WF_vars(Dispatcher)
    /\ WF_vars(Join \/ Report \/ ReportError \/ ReportRetry)
    /\ WF_vars(disposal = "stopping" /\ Close)
    /\ WF_vars(phase = "closing" /\ ReceiverEnds)
    /\ WF_vars(Disposer)

Spec == Init /\ [][Next]_vars /\ Fairness

-----------------------------------------------------------------------------
(* Properties.                                                             *)
\* Every variable has its type; the queue keeps its bound.
TypeOK ==
    /\ Len(queue) <= MaxQueuedEvents
    /\ \A i \in DOMAIN queue : queue[i].to \subseteq Listeners
    /\ running.to \subseteq Listeners /\ listeners \subseteq Listeners
    /\ completed \in BOOLEAN /\ session \in 0..MaxSessions
    /\ phase \in {"offline", "opening", "online", "closing", "reporting",
                  "reported", "backoff"}
    /\ receiver \in {"reading", "acking", "ended"}
    /\ unacked \in Messages \cup {NoMessage}
    /\ arrived \subseteq Messages /\ acked \subseteq arrived
    /\ wanted \subseteq arrived /\ admitted \subseteq wanted
    /\ owed \subseteq admitted \X Listeners
    /\ handled \subseteq owed
    /\ disposal \in {"none", "queued", "stopping", "draining", "done"}

\* A message that had a handler when it arrived is acknowledged only if it
\* was put into the queue: "overflow closes the connection without ACKing the
\* unaccepted message" (README.md, MaxQueuedEvents).
OverflowNotAcked == acked \cap wanted \subseteq admitted

\* Callbacks of different sessions never mix, and Disconnected comes after
\* every event the receiver queued in its session: the receiver is joined
\* before the supervisor reports.  The SendAck of a request is left out: its
\* caller queues it whenever it resumes, in no order with the session.
SessionsInOrder ==
    \A i, j \in DOMAIN queue :
        i < j /\ queue[i].kind # "sendack" /\ queue[j].kind # "sendack" =>
            /\ queue[i].session <= queue[j].session
            /\ queue[i].kind = "disconnected"
               /\ queue[i].session = queue[j].session
                 => queue[j].kind \notin {"message", "event", "connected"}

\* Where a message still waits for a handler: in the queue, or at the handler.
Waiting(m, l) == {i \in DOMAIN queue : queue[i].what = m /\ l \in queue[i].to}
InHand(m, l) == running.what = m /\ l \in running.to

\* A handler that a message was queued for has run, runs or waits, in exactly
\* one place: none is forgotten and none runs twice for it, although others
\* throw, handlers come and go, and the queue overflows or is drained
\* (WKIM.cs:381, 452-474).
ExactlyOnce ==
    \A m \in Messages, l \in Listeners :
        LET done == <<m, l>> \in handled
            waits == Waiting(m, l) # {}
        IN  /\ <<m, l>> \in owed => done \/ waits \/ InHand(m, l)
            /\ done => ~waits /\ ~InHand(m, l)
            /\ waits => ~InHand(m, l)
            /\ \A i, j \in Waiting(m, l) : i = j

\* When DisposeAsync is done no callback runs or will run.
NoCallbackAfterDisposal ==
    disposal = "done" => running = Quiet /\ queue = <<>>

\* Every handler a queued message was meant for runs, although other handlers
\* throw, the handler is removed, the session is lost or the client disposed.
QueuedIsHandled ==
    \A m \in Messages, l \in Listeners :
        <<m, l>> \in owed ~> <<m, l>> \in handled

\* DisposeAsync completes, although producers were busy when it was called.
DisposeCompletes == disposal # "none" ~> disposal = "done"

\* A receive ACK means admission into the event queue (README.md, Lifecycle).
AckMeansAdmission == acked \subseteq admitted

-----------------------------------------------------------------------------
(* The interface to the supervisor.  Tokens and heartbeats are not the     *)
(* queue's concern: a session that closes is stopped, and none beats.      *)
Status ==
    CASE phase = "opening" -> "opening"
      [] phase = "online" -> "open"
      [] OTHER -> "closed"
Halt ==
    IF disposal \in {"none", "queued"} THEN "no"
    ELSE IF disposal = "stopping" THEN "stopping" ELSE "done"

Interface == INSTANCE Session
    WITH status <- Status, token <- (phase \notin {"opening", "online"}),
         reading <- (receiver # "ended"), beating <- FALSE,
         disposed <- (phase \notin {"opening", "online", "closing"}),
         halt <- Halt

\* The sessions that fill the queue are the supervisor's: the receiver of one
\* is joined before its end is reported, and none is opened once the disposal
\* stops the run, nor is the queue completed before (WKIM.cs:157-161, 245-251).
ImplementsSession == Interface!Spec
=============================================================================
