---------------------------- MODULE EventsProofs ----------------------------
(***************************************************************************)
(* Proofs about Events for every set of messages and listeners and every   *)
(* capacity of the queue: what is acknowledged was admitted, events keep   *)
(* the order of their sessions, and nothing runs after the disposal.       *)
(***************************************************************************)
EXTENDS Events, TLAPS

Kinds == {"none", "connected", "disconnected", "error", "event", "message",
          "reconnecting", "sendack"}
Callbacks == [kind : Kinds, session : 0..MaxSessions,
              what : Messages \cup {NoMessage}, to : SUBSET Listeners]

\* The locations in which the session's last event has been queued.
Over == {"offline", "reported", "backoff"}

\* The queue: its types, that what waits in it is owed, and its order.  After
\* the join Disconnected is the last that a session has to say.
QueueInv ==
    /\ queue \in Seq(Callbacks) /\ Len(queue) <= MaxQueuedEvents
    /\ \A i \in DOMAIN queue : \A l \in queue[i].to :
          <<queue[i].what, l>> \in owed
    /\ \A i \in DOMAIN queue :
          /\ queue[i].session <= session
          /\ queue[i].kind = "disconnected" /\ queue[i].session = session
                => phase \in Over
    /\ SessionsInOrder

\* The rest: the dispatcher, the receiver, the supervisor and the disposal.
\* A message whose recvack is being written is in the queue's history, unless
\* nobody listened when it arrived.
RestInv ==
    /\ TypeOK
    /\ running \in Callbacks
    /\ \A l \in running.to : <<running.what, l>> \in owed
    /\ receiver = "acking" =>
          unacked \in arrived /\ (unacked \in wanted => unacked \in admitted)
    /\ OverflowNotAcked
    /\ phase \in Over \cup {"reporting"} => receiver = "ended"
    /\ disposal \in {"draining", "done"} => completed
    /\ NoCallbackAfterDisposal

IInv == QueueInv /\ RestInv

-----------------------------------------------------------------------------
\* The initial state satisfies the invariant.
LEMMA InitIInv ==
    ASSUME Init
    PROVE  IInv
<1>1. completed \in BOOLEAN
  BY Zenon DEF Init
<1>2. QueueInv
  BY QueueAssumption DEF Init, QueueInv, SessionsInOrder
<1> QED
  BY <1>1, <1>2, QueueAssumption, SessionsAssumption
  DEF Init, IInv, RestInv, TypeOK, Callbacks, Kinds, Quiet, NoMessage,
      OverflowNotAcked, NoCallbackAfterDisposal, Over

\* A queue that nobody touches keeps its order, as long as no session begins
\* and the supervisor does not take back what it reported.
LEMMA QueueKept ==
    ASSUME QueueInv, queue' = queue, session' = session, owed' = owed,
           phase \in Over => phase' \in Over
    PROVE  QueueInv'
<1> QED
  BY DEF QueueInv, SessionsInOrder

\* An event queued at the end of the queue keeps the order, if it is not an
\* event of a session that has been reported as over.
LEMMA QueueAppended ==
    ASSUME QueueInv, session \in 0..MaxSessions, Room, session' = session,
           NEW e \in Callbacks, e.session = session,
           queue' = Append(queue, e),
           owed \subseteq owed', \A l \in e.to : <<e.what, l>> \in owed',
           phase \in Over => phase' \in Over,
           e.kind = "disconnected" => phase' \in Over,
           e.kind \in {"message", "event", "connected"} => phase \notin Over
    PROVE  QueueInv'
<1>1. /\ queue' \in Seq(Callbacks) /\ Len(queue') = Len(queue) + 1
      /\ \A i \in DOMAIN queue : queue'[i] = queue[i]
      /\ queue'[Len(queue) + 1] = e
      /\ DOMAIN queue = 1..Len(queue) /\ DOMAIN queue' = 1..(Len(queue) + 1)
      /\ Len(queue) \in Nat
  BY DEF QueueInv
<1>2. \A i \in DOMAIN queue' : i \in DOMAIN queue \/ i = Len(queue) + 1
  BY <1>1
<1>3. Len(queue') <= MaxQueuedEvents
  BY <1>1, QueueAssumption DEF Room
<1>4. \A i \in DOMAIN queue' : \A l \in queue'[i].to :
         <<queue'[i].what, l>> \in owed'
  BY <1>1, <1>2 DEF QueueInv
<1>5. \A i \in DOMAIN queue' :
         /\ queue'[i].session <= session'
         /\ queue'[i].kind = "disconnected" /\ queue'[i].session = session'
               => phase' \in Over
  BY <1>1, <1>2 DEF QueueInv
<1>6. SessionsInOrder'
  <2> SUFFICES ASSUME NEW i \in DOMAIN queue', NEW j \in DOMAIN queue', i < j,
                      queue'[i].kind # "sendack", queue'[j].kind # "sendack"
               PROVE  /\ queue'[i].session <= queue'[j].session
                      /\ queue'[i].kind = "disconnected"
                         /\ queue'[i].session = queue'[j].session
                           => queue'[j].kind \notin
                                 {"message", "event", "connected"}
    BY DEF SessionsInOrder
  <2>1. i \in DOMAIN queue
    BY <1>1
  <2>2. CASE j \in DOMAIN queue
    BY <1>1, <2>1, <2>2 DEF QueueInv, SessionsInOrder
  <2>3. CASE j = Len(queue) + 1
    BY <1>1, <2>1, <2>3 DEF QueueInv
  <2> QED
    BY <1>2, <2>2, <2>3
<1> QED
  BY <1>1, <1>3, <1>4, <1>5, <1>6 DEF QueueInv

\* The same for the events that TryQueue queues or drops.
LEMMA QueueTried ==
    ASSUME IInv, session' = session, owed' = owed,
           NEW kind \in Kinds, TryQueue(kind),
           phase \in Over => phase' \in Over,
           kind = "disconnected" => phase' \in Over,
           kind \in {"message", "event", "connected"} => phase \notin Over
    PROVE  QueueInv'
<1>1. session \in 0..MaxSessions
  BY DEF IInv, RestInv, TypeOK
<1>2. CASE kind \in Observed /\ Room
  <2> DEFINE e == Event(kind, NoMessage, {})
  <2>1. e \in Callbacks /\ e.session = session /\ e.kind = kind /\ e.to = {}
    BY <1>1 DEF Event, Callbacks
  <2>2. queue' = Append(queue, e)
    BY <1>2 DEF TryQueue
  <2> HIDE DEF e
  <2> QED
    BY <1>1, <1>2, <2>1, <2>2, QueueAppended DEF IInv
<1>3. CASE ~(kind \in Observed /\ Room)
  BY <1>3, QueueKept DEF TryQueue, IInv
<1> QED
  BY <1>2, <1>3

\* The dispatcher takes the oldest event.
LEMMA QueueTaken ==
    ASSUME QueueInv, queue # <<>>, queue' = Tail(queue),
           UNCHANGED <<session, owed, phase>>
    PROVE  /\ QueueInv'
           /\ Head(queue) \in Callbacks
           /\ \A l \in Head(queue).to : <<Head(queue).what, l>> \in owed
<1>1. /\ queue' \in Seq(Callbacks) /\ Len(queue') = Len(queue) - 1
      /\ DOMAIN queue' = 1..(Len(queue) - 1) /\ DOMAIN queue = 1..Len(queue)
      /\ Len(queue) \in Nat /\ Len(queue) > 0
      /\ \A i \in DOMAIN queue' : queue'[i] = queue[i + 1]
      /\ Head(queue) = queue[1] /\ Head(queue) \in Callbacks
  BY DEF QueueInv
<1>2. \A i \in DOMAIN queue' : i + 1 \in DOMAIN queue
  BY <1>1
<1>3. SessionsInOrder'
  BY <1>1, <1>2 DEF QueueInv, SessionsInOrder
<1> QED
  BY <1>1, <1>2, <1>3, QueueAssumption DEF QueueInv

-----------------------------------------------------------------------------
\* Every step keeps the queue in order.
LEMMA QueueStep ==
    ASSUME IInv, [Next]_vars
    PROVE  QueueInv'
<1> USE DEF channel, frames, producerVars, historyVars
<1>1. ASSUME \/ \E l \in Listeners : Subscribe(l) \/ Unsubscribe(l)
             \/ Dispose \/ Disposer \/ Close \/ Join \/ Ack \/ ReceiverEnds
             \/ \E l \in Listeners : Callback(l)
             \/ Dispatched \/ UNCHANGED vars
      PROVE  QueueInv'
  <2>1. /\ queue' = queue /\ session' = session /\ owed' = owed
        /\ phase \in Over => phase' \in Over
    BY <1>1
    DEF Subscribe, Unsubscribe, Dispose, Disposer, StopRun, CompleteWriter,
        DropHandlers, Close, Join, Ack, ReceiverEnds, Callback, Dispatched,
        Over, vars
  <2> QED
    BY <2>1, QueueKept DEF IInv
<1>2. CASE SendCompletes
  BY <1>2, QueueTried DEF SendCompletes, Kinds
<1>3. CASE Open
  <2>1. queue' = queue /\ owed' = owed /\ session' = session + 1
    BY <1>3 DEF Open
  <2>2. session \in Nat /\ queue \in Seq(Callbacks)
    BY SessionsAssumption DEF IInv, QueueInv, RestInv, TypeOK
  <2>3. \A i \in DOMAIN queue :
           queue[i].session \in Nat /\ queue[i].session <= session
    <3>1. \A i \in DOMAIN queue : queue[i] \in Callbacks
      BY <2>2
    <3> QED
      BY <3>1, SessionsAssumption DEF IInv, QueueInv, Callbacks
  <2> QED
    BY <2>1, <2>2, <2>3 DEF IInv, QueueInv, SessionsInOrder
<1>4. CASE Admit
  BY <1>4, QueueTried DEF Admit, Kinds, Over
<1>5. CASE Report
  BY <1>5, QueueTried DEF Report, Kinds, Over
<1>6. CASE ReportError
  <2>1. session' = session /\ owed' = owed /\ phase' \in Over
    BY <1>6 DEF ReportError, Over
  <2>2. CASE UNCHANGED queue
    BY <2>1, <2>2, QueueKept DEF IInv
  <2>3. CASE TryQueue("error")
    BY <2>1, <2>3, QueueTried DEF Kinds
  <2> QED
    BY <1>6, <2>2, <2>3 DEF ReportError
<1>7. CASE ReportRetry
  BY <1>7, QueueTried DEF ReportRetry, Kinds, Over
<1>8. ASSUME NEW m \in Messages, Receive(m) PROVE QueueInv'
  <2>1. /\ session' = session /\ phase' = phase /\ phase \notin Over
        /\ session \in 0..MaxSessions /\ listeners \subseteq Listeners
    BY <1>8 DEF Receive, IInv, RestInv, TypeOK, Over
  <2>2. CASE listeners # {} /\ Room
    <3> DEFINE e == Event("message", m, listeners)
    <3>1. /\ e \in Callbacks /\ e.session = session /\ e.kind = "message"
          /\ e.to = listeners /\ e.what = m
      BY <2>1 DEF Event, Callbacks, Kinds
    <3>2. queue' = Append(queue, e) /\ owed' = owed \cup ({m} \X listeners)
      BY <1>8, <2>2 DEF Receive
    <3>3. \A l \in listeners : <<m, l>> \in owed'
      BY <3>2
    <3> HIDE DEF e
    <3> QED
      BY <2>1, <2>2, <3>1, <3>2, <3>3, QueueAppended DEF IInv
  <2>3. CASE ~(listeners # {} /\ Room)
    <3>1. queue' = queue /\ owed' = owed
      BY <1>8, <2>3 DEF Receive
    <3> QED
      BY <2>1, <3>1, QueueKept DEF IInv
  <2> QED
    BY <2>2, <2>3
<1>9. ASSUME NEW kind \in {"event", "sendack"}, Notify(kind) PROVE QueueInv'
  <2>1. /\ session' = session /\ owed' = owed /\ phase' = phase
        /\ TryQueue(kind) /\ kind \in Kinds
    BY <1>9 DEF Notify, Kinds
  <2>2. phase \notin Over
    BY <1>9 DEF Notify, IInv, RestInv
  <2> QED
    BY <2>1, <2>2, QueueTried
<1>10. CASE Dispatch
  BY <1>10, QueueTaken DEF Dispatch, IInv
<1> QED
  BY <1>1, <1>2, <1>3, <1>4, <1>5, <1>6, <1>7, <1>8, <1>9, <1>10
  DEF Next, Application, Supervisor, ReceiverNext, Dispatcher

\* Every step keeps the rest of the invariant.
LEMMA RestStep ==
    ASSUME IInv, [Next]_vars
    PROVE  RestInv'
<1>1. QueueInv'
  BY QueueStep
<1>2. /\ Len(queue') <= MaxQueuedEvents
      /\ \A i \in DOMAIN queue' : queue'[i].to \subseteq Listeners
  <2>1. queue' \in Seq(Callbacks) /\ Len(queue') <= MaxQueuedEvents
    BY <1>1 DEF QueueInv
  <2>2. \A i \in DOMAIN queue' : queue'[i] \in Callbacks
    BY <2>1
  <2> QED
    BY <2>1, <2>2 DEF Callbacks
<1>3. RestInv
  BY DEF IInv
<1> USE <1>2, <1>3, SessionsAssumption
    DEF RestInv, TypeOK, OverflowNotAcked, NoCallbackAfterDisposal, Over,
        channel, frames, producerVars, historyVars
<1>4. ASSUME NEW l \in Listeners, Subscribe(l) PROVE RestInv'
  BY <1>4 DEF Subscribe
<1>5. ASSUME NEW l \in Listeners, Unsubscribe(l) PROVE RestInv'
  BY <1>5 DEF Unsubscribe
<1>6. CASE SendCompletes
  BY <1>6 DEF SendCompletes, TryQueue, Room
<1>7. CASE Dispose
  BY <1>7 DEF Dispose
<1>8. CASE Open
  BY <1>8 DEF Open
<1>9. CASE Admit
  BY <1>9 DEF Admit, TryQueue, Room
<1>10. CASE Close
  BY <1>10 DEF Close
<1>11. CASE Join
  BY <1>11 DEF Join, Joined
<1>12. CASE Report
  BY <1>12 DEF Report, TryQueue, Room
<1>13. CASE ReportError
  BY <1>13 DEF ReportError, TryQueue, Room
<1>14. CASE ReportRetry
  BY <1>14 DEF ReportRetry, TryQueue, Room
<1>15. ASSUME NEW m \in Messages, Receive(m) PROVE RestInv'
  BY <1>15 DEF Receive, Room, Admissible
<1>16. ASSUME NEW kind \in {"event", "sendack"}, Notify(kind)
      PROVE  RestInv'
  BY <1>16 DEF Notify, TryQueue, Room
<1>17. CASE Ack
  BY <1>17 DEF Ack
<1>18. CASE ReceiverEnds
  BY <1>18 DEF ReceiverEnds
<1>19. CASE Dispatch
  <2>1. /\ running' \in Callbacks
        /\ \A l \in running'.to : <<running'.what, l>> \in owed
    BY <1>19, QueueTaken DEF Dispatch, IInv
  <2> QED
    BY <1>19, <2>1 DEF Dispatch, Callbacks
<1>20. ASSUME NEW l \in Listeners, Callback(l) PROVE RestInv'
  <2>1. /\ running' \in Callbacks /\ running'.to \subseteq running.to
        /\ running'.what = running.what
    BY <1>20 DEF Callback, AfterThrow, Callbacks
  <2>2. handled' \subseteq owed
    BY <1>20 DEF Callback
  <2> QED
    BY <1>20, <2>1, <2>2 DEF Callback, Quiet
<1>21. CASE Dispatched
  <2>1. running' \in Callbacks /\ running'.to = {}
    BY <1>21 DEF Dispatched, Quiet, Callbacks, Kinds
  <2> QED
    BY <1>21, <2>1 DEF Dispatched
<1>22. CASE StopRun
  BY <1>22 DEF StopRun
<1>23. CASE CompleteWriter
  <2>1. completed' = TRUE /\ completed' \in BOOLEAN
    BY <1>23, Zenon DEF CompleteWriter
  <2> QED
    BY <1>23, <2>1 DEF CompleteWriter
<1>24. CASE DropHandlers
  BY <1>24 DEF DropHandlers, Drained
<1>25. CASE UNCHANGED vars
  BY <1>25 DEF vars
<1> QED
  BY <1>4, <1>5, <1>6, <1>7, <1>8, <1>9, <1>10, <1>11, <1>12, <1>13, <1>14,
     <1>15, <1>16, <1>17, <1>18, <1>19, <1>20, <1>21, <1>22, <1>23, <1>24,
     <1>25
  DEF Next, Application, Supervisor, ReceiverNext, Dispatcher, Disposer

\* Every reachable state satisfies the invariant.
THEOREM Invariance == Spec => []IInv
<1>1. Init => IInv
  BY InitIInv
<1>2. IInv /\ [Next]_vars => IInv'
  BY QueueStep, RestStep DEF IInv
<1> QED
  BY <1>1, <1>2, PTL DEF Spec

-----------------------------------------------------------------------------
\* Type correctness: in particular the queue keeps its bound, and a handler
\* runs only for a message that was admitted for it (WKIM.TryQueue, Invoke).
THEOREM TypeCorrect == Spec => []TypeOK
<1>1. IInv => TypeOK
  BY DEF IInv, RestInv
<1> QED
  BY <1>1, Invariance, PTL

\* A message that had a handler is acknowledged only if it entered the queue,
\* however full the queue and whoever unsubscribes meanwhile.
THEOREM Safe_OverflowNotAcked == Spec => []OverflowNotAcked
<1>1. IInv => OverflowNotAcked
  BY DEF IInv, RestInv
<1> QED
  BY <1>1, Invariance, PTL

\* Events of different sessions do not mix, and Disconnected comes last.
THEOREM Safe_SessionsInOrder == Spec => []SessionsInOrder
<1>1. IInv => SessionsInOrder
  BY DEF IInv, QueueInv
<1> QED
  BY <1>1, Invariance, PTL

\* When DisposeAsync is done nothing is queued and no callback runs.
THEOREM Safe_NoCallbackAfterDisposal == Spec => []NoCallbackAfterDisposal
<1>1. IInv => NoCallbackAfterDisposal
  BY DEF IInv, RestInv
<1> QED
  BY <1>1, Invariance, PTL

-----------------------------------------------------------------------------
(* ExactlyOnce, on top of IInv: how a step can move a pair of a message    *)
(* and a handler from one place to the next.                               *)

\* No message is in two places: what the steps below have to preserve.
LEMMA PlacesInit ==
    ASSUME Init
    PROVE  ExactlyOnce
<1> QED
  BY DEF Init, ExactlyOnce, Waiting, InHand, Quiet

\* What ExactlyOnce says of one message and one handler.
Placed(m, l) ==
    /\ <<m, l>> \in owed => \/ <<m, l>> \in handled
                            \/ Waiting(m, l) # {} \/ InHand(m, l)
    /\ <<m, l>> \in handled => Waiting(m, l) = {} /\ ~InHand(m, l)
    /\ Waiting(m, l) # {} => ~InHand(m, l)
    /\ \A i, j \in Waiting(m, l) : i = j

LEMMA PlacedEach ==
    /\ ExactlyOnce <=> \A m \in Messages, l \in Listeners : Placed(m, l)
    /\ ExactlyOnce' <=> \A m \in Messages, l \in Listeners : Placed(m, l)'
<1> QED
  BY DEF ExactlyOnce, Placed

\* A pair that nothing happens to keeps its place.
LEMMA PlacedKept ==
    ASSUME NEW m, NEW l, Placed(m, l),
           Waiting(m, l)' = Waiting(m, l),
           InHand(m, l)' <=> InHand(m, l),
           <<m, l>> \in owed' <=> <<m, l>> \in owed,
           <<m, l>> \in handled' <=> <<m, l>> \in handled
    PROVE  Placed(m, l)'
<1> QED
  BY DEF Placed

\* A step that touches neither the queue nor the dispatcher.
LEMMA PlacesKept ==
    ASSUME ExactlyOnce, UNCHANGED <<queue, running, owed, handled>>
    PROVE  ExactlyOnce'
<1>1. ASSUME NEW m \in Messages, NEW l \in Listeners
      PROVE  Placed(m, l)'
  <2>1. Waiting(m, l)' = Waiting(m, l) /\ (InHand(m, l)' <=> InHand(m, l))
    BY DEF Waiting, InHand
  <2> QED
    BY <2>1, PlacedEach, PlacedKept
<1> QED
  BY <1>1, PlacedEach

\* An event that is appended waits where it is, and the others where they
\* were.
LEMMA WaitingAppended ==
    ASSUME queue \in Seq(Callbacks), NEW e \in Callbacks,
           queue' = Append(queue, e), NEW m, NEW l
    PROVE  Waiting(m, l)' = Waiting(m, l)
              \cup {i \in {Len(queue) + 1} : e.what = m /\ l \in e.to}
<1>1. /\ DOMAIN queue = 1..Len(queue) /\ DOMAIN queue' = 1..(Len(queue) + 1)
      /\ \A i \in DOMAIN queue : queue'[i] = queue[i]
      /\ queue'[Len(queue) + 1] = e /\ Len(queue) \in Nat
  OBVIOUS
<1>2. \A i \in DOMAIN queue' : i \in DOMAIN queue \/ i = Len(queue) + 1
  BY <1>1
<1> QED
  BY <1>1, <1>2 DEF Waiting

\* An event without handlers makes no pair wait.
LEMMA PlacesTried ==
    ASSUME IInv, ExactlyOnce, NEW kind \in Kinds, TryQueue(kind),
           UNCHANGED <<running, owed, handled>>
    PROVE  ExactlyOnce'
<1>1. CASE kind \in Observed /\ Room
  <2> DEFINE e == Event(kind, NoMessage, {})
  <2>1. e \in Callbacks /\ e.to = {}
    BY DEF Event, Callbacks, IInv, RestInv, TypeOK
  <2>2. queue' = Append(queue, e) /\ queue \in Seq(Callbacks)
    BY <1>1 DEF TryQueue, IInv, QueueInv
  <2> HIDE DEF e
  <2>3. \A m, l : Waiting(m, l)' = Waiting(m, l)
    <3>1. ASSUME NEW m, NEW l
          PROVE  Waiting(m, l)' = Waiting(m, l)
      <4>1. {i \in {Len(queue) + 1} : e.what = m /\ l \in e.to} = {}
        BY <2>1
      <4>2. Waiting(m, l)' = Waiting(m, l)
               \cup {i \in {Len(queue) + 1} : e.what = m /\ l \in e.to}
        BY <2>1, <2>2, WaitingAppended
      <4> QED
        BY <4>1, <4>2
    <3> QED
      BY <3>1
  <2>4. \A m, l : InHand(m, l)' <=> InHand(m, l)
    BY DEF InHand
  <2> QED
    BY <2>3, <2>4, PlacedEach, PlacedKept
<1>2. CASE ~(kind \in Observed /\ Room)
  BY <1>2, PlacesKept DEF TryQueue
<1> QED
  BY <1>1, <1>2

\* A message is received once: none of its pairs is in any place yet.
LEMMA PlacesReceived ==
    ASSUME IInv, ExactlyOnce, NEW m \in Messages, Receive(m)
    PROVE  ExactlyOnce'
<1>1. UNCHANGED <<running, handled>>
  BY DEF Receive
<1>2. CASE listeners # {} /\ Room
  <2> DEFINE e == Event("message", m, listeners)
  <2>1. e \in Callbacks /\ e.what = m /\ e.to = listeners
    BY DEF Event, Callbacks, Kinds, IInv, RestInv, TypeOK
  <2>2. /\ queue' = Append(queue, e) /\ queue \in Seq(Callbacks)
        /\ owed' = owed \cup ({m} \X listeners)
    BY <1>2 DEF Receive, IInv, QueueInv
  <2> HIDE DEF e
  <2>3. \A l : <<m, l>> \notin owed
    BY DEF Receive, IInv, RestInv, TypeOK
  <2>4. \A l \in Listeners :
           Waiting(m, l) = {} /\ ~InHand(m, l) /\ <<m, l>> \notin handled
    BY <2>3 DEF Waiting, InHand, IInv, QueueInv, RestInv, TypeOK
  <2>5. \A n, l : Waiting(n, l)' = Waiting(n, l)
                     \cup {i \in {Len(queue) + 1} : e.what = n /\ l \in e.to}
    <3>1. ASSUME NEW n, NEW l
          PROVE  Waiting(n, l)' = Waiting(n, l)
                    \cup {i \in {Len(queue) + 1} : e.what = n /\ l \in e.to}
      BY <2>1, <2>2, WaitingAppended
    <3> QED
      BY <3>1
  <2>6. \A n \in Messages \ {m}, l \in Listeners :
           Waiting(n, l)' = Waiting(n, l)
           /\ (<<n, l>> \in owed' <=> <<n, l>> \in owed)
    BY <2>1, <2>2, <2>5
  <2>7. \A l \in Listeners :
           /\ Waiting(m, l)' = IF l \in listeners THEN {Len(queue) + 1} ELSE {}
           /\ <<m, l>> \in owed' <=> l \in listeners
    BY <2>1, <2>2, <2>3, <2>4, <2>5
  <2>8. \A n, l : InHand(n, l)' <=> InHand(n, l)
    BY <1>1 DEF InHand
  <2> QED
    BY <1>1, <2>4, <2>6, <2>7, <2>8, PlacedEach, PlacedKept DEF Placed
<1>3. CASE ~(listeners # {} /\ Room)
  BY <1>1, <1>3, PlacesKept DEF Receive
<1> QED
  BY <1>2, <1>3

\* The dispatcher takes the oldest event in its hand.
LEMMA PlacesDispatched ==
    ASSUME IInv, ExactlyOnce, Dispatch
    PROVE  ExactlyOnce'
<1>1. /\ queue \in Seq(Callbacks) /\ queue # <<>> /\ queue' = Tail(queue)
      /\ running = Quiet /\ running' = Head(queue)
      /\ UNCHANGED <<owed, handled>>
  BY DEF Dispatch, IInv, QueueInv, historyVars
<1>2. /\ DOMAIN queue' = 1..(Len(queue) - 1) /\ DOMAIN queue = 1..Len(queue)
      /\ Len(queue) \in Nat /\ Len(queue) > 0
      /\ \A i \in DOMAIN queue' : queue'[i] = queue[i + 1]
      /\ Head(queue) = queue[1]
  BY <1>1
<1>3. ASSUME NEW m, NEW l
      PROVE  /\ ~InHand(m, l)
             /\ InHand(m, l)' <=> 1 \in Waiting(m, l)
             /\ \A i \in Nat :
                   i \in Waiting(m, l)' <=> i # 0 /\ i + 1 \in Waiting(m, l)
             /\ Waiting(m, l) \subseteq Nat \ {0}
             /\ Waiting(m, l)' \subseteq Nat \ {0}
  <2>1. ~InHand(m, l) /\ (InHand(m, l)' <=> 1 \in Waiting(m, l))
    BY <1>1, <1>2 DEF InHand, Waiting, Quiet
  <2>2. ASSUME NEW i \in Nat
        PROVE  i \in Waiting(m, l)' <=> i # 0 /\ i + 1 \in Waiting(m, l)
    <3>1. i \in DOMAIN queue' <=> i # 0 /\ i + 1 \in DOMAIN queue
      BY <1>2
    <3> QED
      BY <1>2, <3>1 DEF Waiting
  <2>3. /\ Waiting(m, l) \subseteq Nat \ {0}
        /\ Waiting(m, l)' \subseteq Nat \ {0}
    BY <1>2 DEF Waiting
  <2> QED
    BY <2>1, <2>2, <2>3
<1> SUFFICES ASSUME NEW m \in Messages, NEW l \in Listeners
             PROVE  Placed(m, l)'
  BY PlacedEach
<1>4. Placed(m, l)
  BY PlacedEach
<1> USE DEF Placed
<1>5. CASE Waiting(m, l) = {}
  <2>1. ~InHand(m, l)' /\ Waiting(m, l)' = {}
    BY <1>3, <1>5
  <2> QED
    BY <1>1, <1>3, <1>4, <1>5, <2>1
<1>6. CASE 1 \in Waiting(m, l)
  <2>1. InHand(m, l)' /\ Waiting(m, l)' = {}
    <3>1. ASSUME NEW i \in Waiting(m, l)' PROVE FALSE
      <4>1. i \in Nat /\ i # 0 /\ i + 1 \in Waiting(m, l)
        BY <1>3, <3>1
      <4>2. i + 1 = 1
        BY <1>4, <1>6, <4>1
      <4> QED
        BY <4>1, <4>2
    <3> QED
      BY <1>3, <1>6, <3>1
  <2> QED
    BY <1>1, <1>4, <1>6, <2>1
<1>7. CASE Waiting(m, l) # {} /\ 1 \notin Waiting(m, l)
  <2>1. PICK k \in Waiting(m, l) : TRUE
    BY <1>7
  <2>2. k \in Nat /\ k > 1
    BY <1>3, <1>7, <2>1
  <2>3. k - 1 \in Waiting(m, l)' /\ ~InHand(m, l)'
    BY <1>3, <1>7, <2>1, <2>2
  <2>4. ASSUME NEW i \in Waiting(m, l)' PROVE i = k - 1
    <3>1. i \in Nat /\ i + 1 \in Waiting(m, l)
      BY <1>3, <2>4
    <3>2. i + 1 = k
      BY <1>4, <2>1, <3>1
    <3> QED
      BY <2>2, <3>1, <3>2
  <2> QED
    BY <1>1, <1>4, <1>7, <2>3, <2>4
<1> QED
  BY <1>5, <1>6, <1>7

\* The dispatcher's callback runs one handler; whether it throws or not, it
\* is the only one that leaves the hand.
LEMMA PlacesCalledBack ==
    ASSUME IInv, ExactlyOnce, NEW k \in Listeners, Callback(k)
    PROVE  ExactlyOnce'
<1>1. /\ queue' = queue /\ owed' = owed /\ InHand(running.what, k)
      /\ handled' = handled \cup {<<running.what, k>>}
      /\ running'.what = running.what /\ running'.to = running.to \ {k}
  BY DEF Callback, AfterThrow, InHand, IInv, RestInv, Callbacks
<1>2. ASSUME NEW m, NEW l
      PROVE  /\ Waiting(m, l)' = Waiting(m, l)
             /\ InHand(m, l)'
                   <=> InHand(m, l) /\ <<m, l>> # <<running.what, k>>
             /\ <<m, l>> \in handled'
                   <=> <<m, l>> \in handled \/ <<m, l>> = <<running.what, k>>
  BY <1>1 DEF Waiting, InHand
<1> QED
  BY <1>1, <1>2, PlacedEach DEF Placed

\* Every step moves a pair to at most one place.
LEMMA PlacesStep ==
    ASSUME IInv, ExactlyOnce, [Next]_vars
    PROVE  ExactlyOnce'
<1> USE DEF channel, frames, producerVars, historyVars
<1>1. ASSUME \/ \E l \in Listeners : Subscribe(l) \/ Unsubscribe(l)
             \/ Dispose \/ Disposer \/ Open \/ Close \/ Join \/ Ack
             \/ ReceiverEnds \/ UNCHANGED vars
      PROVE  ExactlyOnce'
  BY <1>1, PlacesKept
  DEF Subscribe, Unsubscribe, Dispose, Disposer, StopRun, CompleteWriter,
      DropHandlers, Open, Close, Join, Ack, ReceiverEnds, vars
<1>2. CASE SendCompletes
  BY <1>2, PlacesTried DEF SendCompletes, Kinds
<1>3. CASE Admit
  BY <1>3, PlacesTried DEF Admit, Kinds
<1>4. CASE Report
  BY <1>4, PlacesTried DEF Report, Kinds
<1>5. CASE ReportError
  BY <1>5, PlacesTried, PlacesKept DEF ReportError, Kinds
<1>6. CASE ReportRetry
  BY <1>6, PlacesTried DEF ReportRetry, Kinds
<1>7. CASE \E m \in Messages : Receive(m)
  BY <1>7, PlacesReceived
<1>8. CASE \E kind \in {"event", "sendack"} : Notify(kind)
  BY <1>8, PlacesTried DEF Notify, Kinds
<1>9. CASE Dispatch
  BY <1>9, PlacesDispatched
<1>10. CASE \E l \in Listeners : Callback(l)
  BY <1>10, PlacesCalledBack
<1>11. CASE Dispatched
  <2>1. \A m, l : /\ Waiting(m, l)' = Waiting(m, l)
                  /\ ~InHand(m, l) /\ ~InHand(m, l)'
    BY <1>11 DEF Dispatched, Quiet, Waiting, InHand
  <2> QED
    BY <1>11, <2>1, PlacedEach, PlacedKept DEF Dispatched
<1> QED
  BY <1>1, <1>2, <1>3, <1>4, <1>5, <1>6, <1>7, <1>8, <1>9, <1>10, <1>11
  DEF Next, Application, Supervisor, ReceiverNext, Dispatcher

\* Every handler a message was queued for waits, runs or has run, in exactly
\* one place: none is forgotten and none runs twice, for every number of
\* messages and handlers and every capacity of the queue.
THEOREM Safe_ExactlyOnce == Spec => []ExactlyOnce
<1>1. Init => ExactlyOnce
  BY PlacesInit
<1>2. IInv /\ ExactlyOnce /\ [Next]_vars => ExactlyOnce'
  BY PlacesStep
<1> QED
  BY <1>1, <1>2, Invariance, PTL DEF Spec

-----------------------------------------------------------------------------
\* Every step of the supervisor, the receiver or the disposal is a step of
\* the interface; the application and the dispatcher take none.
LEMMA SessionStep ==
    ASSUME IInv, [Next]_vars
    PROVE  [Interface!Next]_Interface!vars
<1> USE DEF Status, Halt, Interface!vars, producerVars
<1>1. ASSUME UNCHANGED <<phase, receiver, disposal>>
      PROVE  [Interface!Next]_Interface!vars
  BY <1>1
<1>2. CASE Application \/ Dispatcher
  BY <1>1, <1>2
  DEF Application, Subscribe, Unsubscribe, SendCompletes, Dispose, Dispatcher,
      Dispatch, Callback, Dispatched
<1>3. CASE Open
  BY <1>3 DEF Open, IInv, RestInv, Over, Interface!Next, Interface!Open
<1>4. CASE Admit
  BY <1>4 DEF Admit, Interface!Next, Interface!Admit, Interface!Fail
<1>5. CASE Close
  BY <1>5 DEF Close, Interface!Next, Interface!Stop, Interface!Fail
<1>6. CASE Join
  BY <1>6 DEF Join, Joined, Interface!Next, Interface!Dispose
<1>7. CASE Report \/ ReportError \/ ReportRetry
  BY <1>7 DEF Report, ReportError, ReportRetry
<1>8. ASSUME NEW m \in Messages, Receive(m)
      PROVE  [Interface!Next]_Interface!vars
  BY <1>8 DEF Receive, Interface!Next, Interface!ReceiverEnds
<1>9. ASSUME NEW kind \in {"event", "sendack"}, Notify(kind)
      PROVE  [Interface!Next]_Interface!vars
  BY <1>9 DEF Notify, Interface!Next, Interface!ReceiverEnds
<1>10. CASE Ack \/ ReceiverEnds
  BY <1>10 DEF Ack, ReceiverEnds, Interface!Next, Interface!ReceiverEnds
<1>11. CASE StopRun
  BY <1>11 DEF StopRun, Interface!Next, Interface!Halt
<1>12. CASE CompleteWriter
  BY <1>12 DEF CompleteWriter, Interface!Next, Interface!Finish
<1>13. CASE DropHandlers
  BY <1>13 DEF DropHandlers
<1>14. CASE UNCHANGED vars
  BY <1>1, <1>14 DEF vars
<1> QED
  BY <1>2, <1>3, <1>4, <1>5, <1>6, <1>7, <1>8, <1>9, <1>10, <1>11, <1>12,
     <1>13, <1>14
  DEF Next, Supervisor, ReceiverNext, Disposer

\* The sessions that fill the queue are those of the supervisor: joined
\* before their end is reported, and none opened under the disposal.
THEOREM SessionRefinement == Spec => ImplementsSession
<1>1. Init => Interface!Init
  BY DEF Init, Status, Halt, Interface!Init
<1>2. IInv /\ [Next]_vars => [Interface!Next]_Interface!vars
  BY SessionStep
<1> QED
  BY <1>1, <1>2, Invariance, PTL DEF Spec, ImplementsSession, Interface!Spec

-----------------------------------------------------------------------------
(* Why a disposal that waits for the dispatcher ends (DisposeCompletes),   *)
(* but for the fairness that TLC assumes.                                  *)

\* Once the channel is completed nobody but the dispatcher touches it, not a
\* send that completes late nor a receiver or a supervisor, and each step of
\* the dispatcher uses up an event, a handler or a callback (WKIM.cs:160-161,
\* 452-474).
Draining ==
    completed =>
        /\ completed'
        /\ ~Dispatcher => UNCHANGED <<queue, running>>
        /\ Dispatcher =>
              \/ /\ queue # <<>> /\ queue' = Tail(queue)
                 /\ Len(queue') = Len(queue) - 1
              \/ queue' = queue /\ \E l \in running.to : running'.to = running.to \ {l}
              \/ queue' = queue /\ running # Quiet /\ running' = Quiet

\* A completed channel drains, for every capacity, message and handler.
THEOREM Safe_Draining == Spec => [][Draining]_vars
<1>1. IInv /\ [Next]_vars => [Draining]_vars
  <2> SUFFICES ASSUME IInv, Next, completed
               PROVE  /\ completed'
                      /\ ~Dispatcher => UNCHANGED <<queue, running>>
                      /\ Dispatcher =>
                            \/ /\ queue # <<>> /\ queue' = Tail(queue)
                               /\ Len(queue') = Len(queue) - 1
                            \/ /\ queue' = queue
                               /\ \E l \in running.to : running'.to = running.to \ {l}
                            \/ queue' = queue /\ running # Quiet /\ running' = Quiet
    BY DEF Draining
  <2>1. ~Room
    BY DEF Room
  <2>2. CASE Application \/ Supervisor \/ ReceiverNext \/ Disposer
    <3>1. completed'
      BY <2>2 DEF Application, Supervisor, ReceiverNext, Disposer, Subscribe, Unsubscribe,
        SendCompletes, Dispose, Open, Admit, Close, Join, Report, ReportError, ReportRetry,
        Receive, Notify, Ack, ReceiverEnds, StopRun, CompleteWriter, DropHandlers, channel
    <3>2. UNCHANGED <<queue, running>>
      BY <2>1, <2>2 DEF Application, Supervisor, ReceiverNext, Disposer, Subscribe,
        Unsubscribe, SendCompletes, Dispose, Open, Admit, Close, Join, Report, ReportError,
        ReportRetry, Receive, Notify, Ack, ReceiverEnds, StopRun, CompleteWriter,
        DropHandlers, TryQueue, channel
    <3>3. ~Dispatcher
      <4>1. queue \in Seq(Callbacks) /\ running \in Callbacks
        BY DEF IInv, QueueInv, RestInv
      <4>2. ~Dispatch
        <5>1. ASSUME queue # <<>>
              PROVE  Len(Tail(queue)) = Len(queue) - 1 /\ Len(queue) \in Nat
          BY <4>1, <5>1
        <5>2. Dispatch => queue # <<>> /\ Tail(queue) = queue
          BY <3>2 DEF Dispatch
        <5> QED
          BY <5>1, <5>2
      <4>3. ~Dispatched
        BY <3>2 DEF Dispatched
      <4>4. ASSUME NEW l \in Listeners, Callback(l)
            PROVE  FALSE
        BY <3>2, <4>1, <4>4 DEF Callback, AfterThrow, Callbacks
      <4> QED
        BY <4>2, <4>3, <4>4 DEF Dispatcher
    <3> QED
      BY <3>1, <3>2, <3>3
  <2>3. CASE Dispatch
    <3>1. queue \in Seq(Callbacks)
      BY DEF IInv, QueueInv
    <3> QED
      BY <2>3, <3>1 DEF Dispatch, Dispatcher
  <2>4. ASSUME NEW l \in Listeners, Callback(l)
        PROVE  completed' /\ queue' = queue /\ running'.to = running.to \ {l}
    BY <2>4 DEF Callback, AfterThrow, IInv, RestInv, Callbacks
  <2>5. CASE Dispatched
    BY <2>5 DEF Dispatched, Dispatcher
  <2> QED
    BY <2>2, <2>3, <2>4, <2>5 DEF Next, Dispatcher, Callback
<1> QED
  BY <1>1, Invariance, PTL DEF Spec
=============================================================================
