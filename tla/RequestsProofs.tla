--------------------------- MODULE RequestsProofs ---------------------------
(***************************************************************************)
(* Proofs about Requests for every set of sends and pings and every number *)
(* of permits: the invariants of one session, and that it implements the   *)
(* safety part of RequestContract.                                         *)
(***************************************************************************)
EXTENDS Requests, FiniteSetTheorems, TLAPS

Held == {r \in Requests : stage[r] \in Holding}
Finished == {"leaving", "releasing", "done"}

\* The heartbeat has at most one ping under way, and only while it waits for
\* it; a session is disposed when both of its tasks have ended.
TaskInv ==
    /\ heartbeat # "pinging" => \A p \in Pings : stage[p] \in {"idle", "done"}
    /\ disposed => receiver \in Ended /\ heartbeat = "ended"

\* Completions and results of a send come from an answer the server gave to
\* that send, and it gave none before it received the send.
AnswerInv ==
    /\ \A r \in Sends : comp[r] \in {"ok", "rpc"} => r \in answered
    /\ SuccessIsAnswered
    /\ answered \subseteq seen

\* Nothing reaches the server before the write, and a refused request never was.
SeenInv ==
    \A r \in Requests :
        /\ stage[r] \notin Finished => result[r] = "none"
        /\ stage[r] \notin Finished \cup {"writing", "waiting"} => r \notin seen
        /\ result[r] \in {"backpressure", "argument"} => r \notin seen

\* The second half of CapacityConserved.
TableInv ==
    pending = {r \in Requests :
                  stage[r] \in {"registered", "writing", "waiting", "leaving"}}

IInv ==
    /\ TypeOK /\ CapacityConserved /\ OneWriter
    /\ TaskInv /\ AnswerInv /\ SeenInv

-----------------------------------------------------------------------------
\* Counting: the set of requests that hold a permit is finite.
LEMMA HeldFinite == IsFiniteSet(Held) /\ Cardinality(Held) \in Nat
<1>1. IsFiniteSet(Requests)
  BY FiniteAssumption, FS_Union DEF Requests
<1>2. Held \in SUBSET Requests
  BY DEF Held
<1> QED
  BY <1>1, <1>2, FS_Subset, FS_CardinalityType

\* The initial state satisfies the invariant.
LEMMA InitIInv ==
    ASSUME Init
    PROVE  IInv
<1>1. Held = {}
  BY DEF Init, Held, Holding
<1>2. permits + Cardinality(Held) = MaxPendingRequests
  BY <1>1, FS_EmptySet, PermitsAssumption DEF Init
<1>3. /\ connected \in BOOLEAN /\ token \in BOOLEAN /\ socket \in BOOLEAN
      /\ disposed \in BOOLEAN
  BY Zenon DEF Init
<1>4. TypeOK
  BY <1>3, PermitsAssumption DEF Init, TypeOK, Stages, Results
<1>5. CapacityConserved
  BY <1>2 DEF Init, CapacityConserved, Held
<1> QED
  BY <1>4, <1>5, NamesAssumption
  DEF IInv, Init, OneWriter, TaskInv, AnswerInv, SeenInv, SuccessIsAnswered,
      Requests, Finished

\* No step loses or invents a permit: a step that takes or returns one adds
\* or removes the one request that holds it.
LEMMA CountStep ==
    ASSUME IInv, [Next]_vars
    PROVE  /\ permits' \in 0..MaxPendingRequests
           /\ permits' + Cardinality(Held') = MaxPendingRequests
<1>1. /\ permits \in 0..MaxPendingRequests
      /\ permits + Cardinality(Held) = MaxPendingRequests
  BY DEF IInv, TypeOK, CapacityConserved, Held
<1>2. ASSUME permits' = permits, Held' = Held
      PROVE  /\ permits' \in 0..MaxPendingRequests
             /\ permits' + Cardinality(Held') = MaxPendingRequests
  BY <1>1, <1>2
<1>3. ASSUME NEW r \in Requests, Acquire(r)
      PROVE  /\ permits' \in 0..MaxPendingRequests
             /\ permits' + Cardinality(Held') = MaxPendingRequests
  <2>1. CASE permits > 0
    <3>1. Held' = Held \cup {r} /\ r \notin Held
      BY <1>3, <2>1 DEF Acquire, Move, Held, Holding, IInv, TypeOK
    <3>2. Cardinality(Held') = Cardinality(Held) + 1
      BY <3>1, HeldFinite, FS_AddElement
    <3> QED
      BY <1>1, <1>3, <2>1, <3>2, HeldFinite, PermitsAssumption DEF Acquire
  <2>2. CASE ~(permits > 0)
    <3>1. Held' = Held /\ permits' = permits
      BY <1>3, <2>2 DEF Acquire, Leave, Move, Held, Holding, IInv, TypeOK
    <3> QED
      BY <1>2, <3>1
  <2> QED
    BY <2>1, <2>2
<1>4. ASSUME NEW r \in Requests, Release(r)
      PROVE  /\ permits' \in 0..MaxPendingRequests
             /\ permits' + Cardinality(Held') = MaxPendingRequests
  <2>1. Held' = Held \ {r} /\ r \in Held
    BY <1>4 DEF Release, Move, Held, Holding, IInv, TypeOK
  <2>2. Cardinality(Held') = Cardinality(Held) - 1
    BY <2>1, HeldFinite, FS_RemoveElement
  <2>3. Cardinality(Held') \in Nat
    BY <2>1, HeldFinite, FS_RemoveElement, FS_CardinalityType
  <2>4. permits' = permits + 1
    BY <1>4 DEF Release
  <2> QED
    BY <1>1, <2>2, <2>3, <2>4, HeldFinite, PermitsAssumption
<1>5. ASSUME NEW r \in Requests,
             \/ Capture(r) \/ Register(r) \/ BadArgument(r) \/ LockWrite(r)
             \/ Written(r) \/ WriteFails(r) \/ TimesOut(r) \/ Complete(r)
             \/ Remove(r)
      PROVE  permits' = permits /\ Held' = Held
  <2> USE DEF Move, Leave, Held, Holding, IInv, TypeOK, table
  <2>1. CASE Capture(r)
    BY <2>1 DEF Capture
  <2>2. CASE Register(r)
    BY <2>2 DEF Register
  <2>3. CASE BadArgument(r)
    BY <2>3 DEF BadArgument
  <2>4. CASE LockWrite(r)
    BY <2>4 DEF LockWrite
  <2>5. CASE Written(r)
    BY <2>5 DEF Written
  <2>6. CASE WriteFails(r)
    BY <2>6 DEF WriteFails
  <2>7. CASE Expire(r)
    BY <2>7 DEF Expire
  <2>8. CASE WriteExpires(r)
    BY <2>8 DEF WriteExpires
  <2>9. CASE Complete(r)
    BY <2>9 DEF Complete
  <2>10. CASE Remove(r)
    BY <2>10 DEF Remove
  <2> QED
    BY <1>5, <2>1, <2>2, <2>3, <2>4, <2>5, <2>6, <2>7, <2>8, <2>9, <2>10
    DEF TimesOut
<1>6. ASSUME NEW p \in Pings, Tick(p)
      PROVE  permits' = permits /\ Held' = Held
  BY <1>6 DEF Tick, Move, Held, Holding, IInv, TypeOK, table, Requests
<1>7. ASSUME \/ ReceiverNext \/ PingReturns \/ HeartbeatCancelled
             \/ SupervisorNext \/ Disconnect \/ UNCHANGED vars
             \/ \E r \in Requests : Delivered(r)
      PROVE  permits' = permits /\ stage' = stage
  BY <1>7
  DEF Delivered, ReceiverNext, Answer, Pong, Recv, AckLock, Acked, Kick, Lost,
      AckFails, ReceiverReturns, Throw, PingReturns, HeartbeatCancelled, SupervisorNext,
      Close, StopSession, Dispose, Disconnect, Stop, vars, requestVars, table
<1>8. ASSUME permits' = permits, stage' = stage
      PROVE  Held' = Held
  BY <1>8 DEF Held
<1> QED
  BY <1>2, <1>3, <1>4, <1>5, <1>6, <1>7, <1>8
  DEF Next, Request, Proceed, HeartbeatNext

\* The table, the lock, the tasks and the server's view, step by step.
RestInv == TypeOK /\ TableInv /\ OneWriter /\ TaskInv /\ AnswerInv /\ SeenInv

LEMMA RestStep ==
    ASSUME IInv, [Next]_vars
    PROVE  RestInv'
<1>1. permits' \in 0..MaxPendingRequests
  BY CountStep
<1>2. RestInv
  BY DEF IInv, RestInv, CapacityConserved, TableInv
<1> USE <1>1, <1>2, NamesAssumption
    DEF RestInv, TypeOK, TableInv, OneWriter, TaskInv, AnswerInv, SeenInv,
        SuccessIsAnswered, Requests, Stages, Holding, Results, Ended, Finished,
        Move, Leave, Settle, table, requestVars, serverVars, flags, sessionVars
<1>3. ASSUME NEW r \in Requests, Capture(r) PROVE RestInv'
  BY <1>3 DEF Capture
<1>4. ASSUME NEW r \in Requests, Acquire(r) PROVE RestInv'
  BY <1>4 DEF Acquire
<1>5. ASSUME NEW r \in Requests, Register(r) PROVE RestInv'
  BY <1>5 DEF Register
<1>6. ASSUME NEW r \in Requests, BadArgument(r) PROVE RestInv'
  BY <1>6 DEF BadArgument
<1>7. ASSUME NEW r \in Requests, LockWrite(r) PROVE RestInv'
  BY <1>7 DEF LockWrite
<1>8. ASSUME NEW r \in Requests, Written(r) PROVE RestInv'
  BY <1>8 DEF Written
<1>9. ASSUME NEW r \in Requests, WriteFails(r) PROVE RestInv'
  BY <1>9 DEF WriteFails
<1>10. ASSUME NEW r \in Requests, Expire(r) PROVE RestInv'
  BY <1>10 DEF Expire, Expired
<1>11. ASSUME NEW r \in Requests, WriteExpires(r) PROVE RestInv'
  <2>1. socket' \in BOOLEAN
    BY <1>11, Zenon DEF WriteExpires, Expired
  <2> QED
    BY <1>11, <2>1, SMT DEF WriteExpires, Expired
<1>12. ASSUME NEW r \in Requests, Complete(r) PROVE RestInv'
  BY <1>12 DEF Complete
<1>13. ASSUME NEW r \in Requests, Remove(r) PROVE RestInv'
  BY <1>13 DEF Remove
<1>14. ASSUME NEW r \in Requests, Release(r) PROVE RestInv'
  BY <1>14 DEF Release
<1>15. ASSUME NEW r \in Requests, NEW o \in {"ok", "rpc"}, Answer(r, o)
      PROVE  RestInv'
  BY <1>15 DEF Answer, Reading
<1>16. CASE Pong
  BY <1>16 DEF Pong, Ponged, Reading
<1>17. CASE Recv
  BY <1>17 DEF Recv, Reading
<1>18. CASE AckLock
  BY <1>18 DEF AckLock
<1>19. CASE Acked
  BY <1>19 DEF Acked
<1>20. CASE Kick
  BY <1>20 DEF Kick, Throw, Sweep
<1>21. CASE Lost
  BY <1>21 DEF Lost, Throw, Sweep
<1>22. CASE AckFails
  <2>1. socket' \in BOOLEAN
    BY <1>22, Zenon DEF AckFails, Throw, Sweep
  <2> QED
    BY <1>22, <2>1, SMT DEF AckFails, Throw, Sweep
<1>23. CASE ReceiverReturns
  BY <1>23 DEF ReceiverReturns
<1>24. ASSUME NEW p \in Pings, Tick(p) PROVE RestInv'
  BY <1>24 DEF Tick
<1>25. CASE PingReturns
  BY <1>25 DEF PingReturns, PingFailed
<1>26. CASE HeartbeatCancelled
  BY <1>26 DEF HeartbeatCancelled
<1>27. CASE Close
  <2>1. connected' \in BOOLEAN
    BY <1>27, Zenon DEF Close
  <2> QED
    BY <1>27, <2>1, SMT DEF Close
<1>28. CASE StopSession
  <2>1. token' \in BOOLEAN /\ socket' \in BOOLEAN
    BY <1>28, Zenon DEF StopSession, Stop
  <2> QED
    BY <1>28, <2>1, SMT DEF StopSession, Stop
<1>29. CASE Disconnect
  <2>1. token' \in BOOLEAN /\ socket' \in BOOLEAN /\ connected' \in BOOLEAN
    BY <1>29, Zenon DEF Disconnect, Stop
  <2> QED
    BY <1>29, <2>1, SMT DEF Disconnect, Stop
<1>30. CASE Dispose
  <2>1. disposed' \in BOOLEAN
    BY <1>30, Zenon DEF Dispose, MayDispose
  <2> QED
    BY <1>30, <2>1, SMT DEF Dispose, MayDispose
<1>31. CASE UNCHANGED vars
  BY <1>31 DEF vars
<1>32. ASSUME NEW r \in Requests, Delivered(r) PROVE RestInv'
  BY <1>32 DEF Delivered
<1> HIDE DEF RestInv, TypeOK, TableInv, OneWriter, TaskInv, AnswerInv, SeenInv,
        SuccessIsAnswered, Requests, Stages, Holding, Results, Ended, Finished,
        Move, Leave, Settle, table, requestVars, serverVars, flags, sessionVars
<1>33. ASSUME NEW r \in Requests, Request(r) PROVE RestInv'
  BY <1>33, <1>3, <1>4, <1>5, <1>6, <1>7, <1>8, <1>9, <1>10, <1>11, <1>12, <1>13, <1>14
  DEF Request, Proceed, TimesOut
<1>34. CASE ReceiverNext
  BY <1>34, <1>15, <1>16, <1>17, <1>18, <1>19, <1>20, <1>21, <1>22, <1>23 DEF ReceiverNext
<1>35. CASE HeartbeatNext
  BY <1>35, <1>24, <1>25, <1>26 DEF HeartbeatNext
<1>36. CASE SupervisorNext
  BY <1>36, <1>27, <1>28, <1>30 DEF SupervisorNext
<1> QED
  BY <1>29, <1>31, <1>33, <1>34, <1>35, <1>36, <1>32 DEF Next

\* Every reachable state satisfies the invariant.
THEOREM Invariance == Spec => []IInv
<1>1. Init => IInv
  BY InitIInv
<1>2. IInv /\ [Next]_vars => IInv'
  BY CountStep, RestStep
  DEF IInv, RestInv, TableInv, CapacityConserved, Held
<1> QED
  BY <1>1, <1>2, PTL DEF Spec

-----------------------------------------------------------------------------
\* Type correctness: in particular the permits stay between none and all
\* (WKIM.RequestAsync).
THEOREM TypeCorrect == Spec => []TypeOK
<1>1. IInv => TypeOK
  BY DEF IInv
<1> QED
  BY <1>1, Invariance, PTL

\* Permits and table: whatever ends a request - an answer, a bad argument, a
\* refused or aborted write, a deadline at any await - returns one permit and
\* removes one entry.
THEOREM Safe_Capacity == Spec => []CapacityConserved
<1>1. IInv => CapacityConserved
  BY DEF IInv
<1> QED
  BY <1>1, Invariance, PTL

\* Sends, pings and recvacks exclude each other on the socket.
THEOREM Safe_OneWriter == Spec => []OneWriter
<1>1. IInv => OneWriter
  BY DEF IInv
<1> QED
  BY <1>1, Invariance, PTL

\* No SendAsync succeeds without the answer to it.
THEOREM Safe_SuccessIsAnswered == Spec => []SuccessIsAnswered
<1>1. IInv => SuccessIsAnswered
  BY DEF IInv, AnswerInv
<1> QED
  BY <1>1, Invariance, PTL

\* A disposed session has no task, no ping and no recvack in flight.
THEOREM Safe_DisposedAfterTasks == Spec => []DisposedAfterTasks
<1>1. IInv => DisposedAfterTasks
  BY DEF IInv, TaskInv, OneWriter, Ended, DisposedAfterTasks
<1> QED
  BY <1>1, Invariance, PTL

-----------------------------------------------------------------------------
\* The initial state of a session is one of the contract.
LEMMA RefinementInit ==
    ASSUME Init
    PROVE  Contract!Init
<1>1. connected = TRUE
  BY Zenon DEF Init
<1> QED
  BY <1>1 DEF Init, Contract!Init, Status, Requests

\* A step of one request changes the status of no other.
LEMMA StatusMoves ==
    ASSUME TypeOK, NEW r \in Sends, NEW v,
           \A q \in Sends \ {r} : stage'[q] = stage[q] /\ result'[q] = result[q],
           v = IF stage'[r] = "idle" THEN "idle"
               ELSE IF stage'[r] = "done" THEN Outcome(result'[r]) ELSE "open"
    PROVE  Status' = [Status EXCEPT ![r] = v]
<1> QED
  BY DEF Status

\* A step that concerns no send, as the contract sees it, is a stutter.
LEMMA StatusKept ==
    ASSUME \A q \in Sends :
              /\ stage'[q] = stage[q] /\ result'[q] = result[q]
              /\ q \in seen' <=> q \in seen
              /\ q \in answered' <=> q \in answered,
           connected' = connected
    PROVE  UNCHANGED Contract!vars
<1>1. Status' = Status
  BY DEF Status
<1>2. /\ (seen \cap Sends)' = seen \cap Sends
      /\ (answered \cap Sends)' = answered \cap Sends
  OBVIOUS
<1> QED
  BY <1>1, <1>2 DEF Contract!vars

\* An ending is one of the contract's outcomes.
LEMMA OutcomeType == \A o : Outcome(o) \in Contract!Outcomes
  BY DEF Outcome, Contract!Outcomes

\* How the contract's actions appear: a send moves to status v, and nothing
\* else that the contract shows changes.
LEMMA StatusStep ==
    ASSUME TypeOK, NEW r \in Sends, NEW v,
           \A q \in Sends \ {r} : stage'[q] = stage[q] /\ result'[q] = result[q],
           v = IF stage'[r] = "idle" THEN "idle"
               ELSE IF stage'[r] = "done" THEN Outcome(result'[r]) ELSE "open",
           UNCHANGED <<connected, seen, answered>>,
           \/ v = Status[r]
           \/ v = "open" /\ Status[r] = "idle"
           \/ /\ Status[r] \in {"idle", "open"} /\ v \in Contract!Outcomes
              /\ v \in {"ok", "rejected"} => r \in answered
              /\ v = "refused" => r \notin seen
    PROVE  [Contract!Next]_Contract!vars
<1>1. Status' = [Status EXCEPT ![r] = v]
  BY StatusMoves
<1>2. UNCHANGED <<~connected, seen \cap Sends, answered \cap Sends>>
  OBVIOUS
<1>3. CASE v = Status[r]
  <2>1. Status' = Status
    BY <1>1, <1>3 DEF Status
  <2> QED
    BY <1>2, <2>1 DEF Contract!vars
<1>4. CASE v = "open" /\ Status[r] = "idle"
  BY <1>1, <1>2, <1>4 DEF Contract!Next, Contract!Open
<1>5. CASE /\ Status[r] \in {"idle", "open"} /\ v \in Contract!Outcomes
           /\ v \in {"ok", "rejected"} => r \in answered
           /\ v = "refused" => r \notin seen
  BY <1>1, <1>2, <1>5 DEF Contract!Next, Contract!Settle
<1> QED
  BY <1>3, <1>4, <1>5

\* The frame leaves during the write or at its end: the first time the server
\* has it is the delivery of the request.
LEMMA DeliverStep ==
    ASSUME IInv, NEW r \in Requests, stage[r] = "writing",
           stage'[r] \in {"writing", "waiting", "leaving"},
           \A q \in Requests \ {r} :
              stage'[q] = stage[q] /\ result'[q] = result[q],
           seen' \in {seen, seen \cup {r}},
           UNCHANGED <<connected, answered>>
    PROVE  [Contract!Next]_Contract!vars
<1>1. Status' = Status
  BY DEF Status, Requests
<1>2. CASE r \in Sends /\ r \notin seen /\ seen' = seen \cup {r}
  <2>1. Status[r] = "open"
    BY <1>2 DEF Status
  <2>2. (seen \cap Sends)' = (seen \cap Sends) \cup {r}
    BY <1>2
  <2> QED
    BY <1>1, <1>2, <2>1, <2>2 DEF Contract!Next, Contract!Deliver
<1>3. CASE r \notin Sends \/ r \in seen \/ seen' = seen
  <2>1. (seen \cap Sends)' = seen \cap Sends
    BY <1>3
  <2> QED
    BY <1>1, <2>1 DEF Contract!vars
<1> QED
  BY <1>2, <1>3

\* A request inside RequestAsync is open, and its end settles it.
LEMMA RequestStep ==
    ASSUME IInv, NEW r \in Requests, Request(r)
    PROVE  [Contract!Next]_Contract!vars
<1> USE DEF IInv, TypeOK, Move, Leave, table, serverVars, sessionVars, flags
<1>1. CASE Capture(r)
  <2>1. r \in Sends /\ Status[r] = "idle"
    BY <1>1 DEF Capture, Status
  <2>2. CASE connected
    BY <1>1, <2>1, <2>2, StatusStep DEF Capture, Requests
  <2>3. CASE ~connected
    <3>1. Outcome("disconnected") = "uncertain"
      BY DEF Outcome
    <3> QED
      BY <1>1, <2>1, <2>3, <3>1, StatusStep
      DEF Capture, Requests, Contract!Outcomes
  <2> QED
    BY <2>2, <2>3
<1>2. CASE Acquire(r)
  <2>1. CASE r \in Sends /\ ~(permits > 0)
    <3>1. Outcome("backpressure") = "refused"
      BY DEF Outcome
    <3>2. Status[r] = "open" /\ r \notin seen
      BY <1>2, <2>1 DEF Acquire, Status, SeenInv, Finished
    <3> QED
      BY <1>2, <2>1, <3>1, <3>2, StatusStep
      DEF Acquire, Requests, Contract!Outcomes
  <2>2. CASE r \in Sends /\ permits > 0
    <3>1. Status[r] = "open"
      BY <1>2, <2>2 DEF Acquire, Status
    <3> QED
      BY <1>2, <2>2, <3>1, StatusStep DEF Acquire, Requests
  <2>3. CASE r \notin Sends
    BY <1>2, <2>3, StatusKept DEF Acquire, Requests
  <2> QED
    BY <2>1, <2>2, <2>3
<1>3. CASE Written(r) \/ WriteFails(r) \/ WriteExpires(r)
  BY <1>3, DeliverStep DEF Written, WriteFails, WriteExpires, Requests
<1>4. CASE Release(r)
  <2>1. CASE r \in Sends
    <3>1. Status[r] = "open"
      BY <1>4, <2>1 DEF Release, Status
    <3>2. Outcome(result[r]) \in {"ok", "rejected"} => r \in answered
      BY <2>1 DEF Outcome, AnswerInv, SuccessIsAnswered
    <3>3. Outcome(result[r]) = "refused" => r \notin seen
      BY <2>1 DEF Outcome, SeenInv
    <3> QED
      BY <1>4, <2>1, <3>1, <3>2, <3>3, OutcomeType, StatusStep
      DEF Release, Requests
  <2>2. CASE r \notin Sends
    BY <1>4, <2>2, StatusKept DEF Release, Requests
  <2> QED
    BY <2>1, <2>2
<1>5. CASE \/ Register(r) \/ BadArgument(r) \/ LockWrite(r) \/ Expire(r)
           \/ Complete(r) \/ Remove(r)
  <2>1. /\ stage[r] \notin {"idle", "done"} /\ stage'[r] \notin {"idle", "done"}
        /\ \A q \in Requests \ {r} :
              stage'[q] = stage[q] /\ result'[q] = result[q]
        /\ UNCHANGED <<seen, answered, connected>>
    BY <1>5
    DEF Register, BadArgument, LockWrite, Expire, Complete, Remove
  <2>2. Status' = Status
    BY <2>1 DEF Status, Requests
  <2> QED
    BY <2>1, <2>2 DEF Contract!vars
<1> QED
  BY <1>1, <1>2, <1>3, <1>4, <1>5 DEF Request, Proceed, TimesOut

\* Every step of a session is a step of the contract or a stutter.
LEMMA RefinementStep ==
    ASSUME IInv, [Next]_vars
    PROVE  [Contract!Next]_Contract!vars
<1>1. ASSUME NEW r \in Requests, Request(r)
      PROVE  [Contract!Next]_Contract!vars
  BY <1>1, RequestStep
<1>2. ASSUME NEW r \in Requests, NEW o \in {"ok", "rpc"}, Answer(r, o)
      PROVE  [Contract!Next]_Contract!vars
  <2>1. Status' = Status /\ UNCHANGED <<connected, seen>>
    BY <1>2 DEF Answer, Status, sessionVars, flags
  <2>2. CASE r \in Sends
    <3>1. (answered \cap Sends)' = (answered \cap Sends) \cup {r}
      BY <1>2, <2>2 DEF Answer
    <3>2. r \in seen \cap Sends
      BY <1>2, <2>2 DEF Answer
    <3> QED
      BY <2>1, <2>2, <3>1, <3>2 DEF Contract!Next, Contract!Answer
  <2>3. CASE r \notin Sends
    <3>1. (answered \cap Sends)' = answered \cap Sends
      BY <1>2, <2>3 DEF Answer
    <3> QED
      BY <2>1, <3>1 DEF Contract!vars
  <2> QED
    BY <2>2, <2>3
<1>3. CASE \/ Pong \/ Recv \/ AckLock \/ Acked \/ Kick \/ Lost \/ AckFails
           \/ ReceiverReturns \/ PingReturns \/ HeartbeatCancelled
           \/ StopSession \/ Dispose \/ UNCHANGED vars
  BY <1>3, StatusKept
  DEF Pong, Recv, AckLock, Acked, Kick, Lost, AckFails, Throw, ReceiverReturns,
      PingReturns, HeartbeatCancelled, StopSession, Stop, Dispose, requestVars,
      table, serverVars, sessionVars, flags, vars
<1>4. ASSUME NEW p \in Pings, Tick(p)
      PROVE  [Contract!Next]_Contract!vars
  BY <1>4, StatusKept, NamesAssumption
  DEF Tick, Move, IInv, TypeOK, Requests, serverVars, flags
<1>5. CASE Close \/ Disconnect
  <2>1. Status' = Status /\ UNCHANGED <<seen, answered>>
    BY <1>5 DEF Close, Disconnect, Stop, Status, requestVars, serverVars
  <2>2. ~connected'
    BY <1>5 DEF Close, Disconnect
  <2> QED
    BY <2>1, <2>2 DEF Contract!Next, Contract!Lose
<1>6. ASSUME NEW r \in Requests, Delivered(r)
      PROVE  [Contract!Next]_Contract!vars
  BY <1>6, DeliverStep DEF Delivered, requestVars, sessionVars, flags
<1> QED
  BY <1>1, <1>2, <1>3, <1>4, <1>5, <1>6
  DEF Next, ReceiverNext, HeartbeatNext, SupervisorNext

\* A session keeps the contract of its sends, for every number of sends, pings
\* and permits: sent at most once, success only when answered, refused only
\* when never sent, ended once.
THEOREM Refinement ==
    Spec => Contract!Init /\ [][Contract!Next]_Contract!vars
<1> QED
  BY RefinementInit, RefinementStep, Invariance, PTL DEF Spec

-----------------------------------------------------------------------------
\* A connected session has not been stopped: DisconnectAsync clears
\* _connected in the step that stops it, the run before it does.
LiveInv == connected => ~token

\* A step of one request leaves the session's tasks and flags alone, but for
\* the socket that an expired write aborts.
LEMMA RequestKeepsSession ==
    ASSUME NEW r \in Requests, Request(r)
    PROVE  UNCHANGED <<receiver, heartbeat, connected, token, disposed>>
<1> QED
  BY DEF Request, Proceed, TimesOut, Capture, BadArgument, Written, Acquire,
     Register, LockWrite, WriteFails, WriteExpires, Expire, Complete, Remove,
     Release, sessionVars, flags

\* Every step of a session is a step of the interface or a stutter.
LEMMA SessionStep ==
    ASSUME IInv, LiveInv, [Next]_vars
    PROVE  LiveInv' /\ [Interface!Next]_Interface!vars
<1> USE DEF LiveInv, sessionVars, flags, Interface!vars
<1>1. ASSUME UNCHANGED <<receiver, heartbeat, connected, token, disposed>>
      PROVE  LiveInv' /\ [Interface!Next]_Interface!vars
  BY <1>1
<1>2. ASSUME NEW r \in Requests, Request(r)
      PROVE  LiveInv' /\ [Interface!Next]_Interface!vars
  BY <1>1, <1>2, RequestKeepsSession
<1>3. CASE \E r \in Requests, o \in {"ok", "rpc"} : Answer(r, o)
  BY <1>1, <1>3 DEF Answer
<1>4. CASE Pong
  BY <1>1, <1>4 DEF Pong
<1>5. ASSUME receiver \notin Ended, receiver' \notin Ended,
             UNCHANGED <<heartbeat, connected, token, disposed>>
      PROVE  LiveInv' /\ [Interface!Next]_Interface!vars
  BY <1>5
<1>6. CASE Recv \/ AckLock \/ Acked
  BY <1>5, <1>6 DEF Recv, AckLock, Acked, Ended, Reading
<1>7. ASSUME receiver \notin Ended, receiver' \in Ended,
             UNCHANGED <<heartbeat, connected, token, disposed>>
      PROVE  LiveInv' /\ [Interface!Next]_Interface!vars
  BY <1>7 DEF Interface!Next, Interface!ReceiverEnds
<1>8. CASE Kick \/ Lost \/ AckFails \/ ReceiverReturns
  BY <1>7, <1>8 DEF Kick, Lost, AckFails, ReceiverReturns, Throw, Ended
<1>9. CASE \E p \in Pings : Tick(p)
  BY <1>9 DEF Tick
<1>10. CASE PingReturns \/ HeartbeatCancelled
  BY <1>10
  DEF PingReturns, HeartbeatCancelled, Interface!Next, Interface!HeartbeatEnds
<1>11. CASE Close
  BY <1>11 DEF Close, Ended, Interface!Next, Interface!Lose
<1>12. CASE StopSession \/ Disconnect
  BY <1>12 DEF StopSession, Disconnect, Stop, Interface!Next, Interface!Stop
<1>13. CASE Dispose
  BY <1>13 DEF Dispose, MayDispose, Ended, Interface!Next, Interface!Dispose
<1>14. CASE UNCHANGED vars
  BY <1>1, <1>14 DEF vars
<1>15. CASE \E r \in Requests : Delivered(r)
  BY <1>1, <1>15 DEF Delivered
<1> QED
  BY <1>2, <1>3, <1>4, <1>6, <1>8, <1>9, <1>10, <1>11, <1>12, <1>13, <1>14, <1>15
  DEF Next, ReceiverNext, HeartbeatNext, SupervisorNext

\* The tasks and the end of a session are those that the supervisor and the
\* event queue count on, for every number of sends, pings and permits.
THEOREM SessionRefinement == Spec => ImplementsSession
<1>1. Init => LiveInv /\ Interface!Init
  BY DEF Init, LiveInv, Interface!Init, Ended
<1>2. IInv /\ LiveInv /\ [Next]_vars
         => LiveInv' /\ [Interface!Next]_Interface!vars
  BY SessionStep
<1> QED
  BY <1>1, <1>2, Invariance, PTL DEF Spec, ImplementsSession, Interface!Spec

-----------------------------------------------------------------------------
(* Why a stopped session is disposed (DeadSessionDisposed), but for the    *)
(* fairness that TLC assumes: nothing goes back, whatever the interleaving.*)

\* The steps a request has left.
Left(r) ==
    CASE stage[r] = "idle" -> 8
      [] stage[r] = "captured" -> 7
      [] stage[r] = "acquired" -> 6
      [] stage[r] = "registered" -> 5
      [] stage[r] = "writing" -> 4
      [] stage[r] = "waiting" -> 3
      [] stage[r] = "leaving" -> 2
      [] stage[r] = "releasing" -> 1
      [] OTHER -> 0

\* The steps the heartbeat has left once it may not tick any more.
Beats ==
    CASE heartbeat = "pinging" -> 2
      [] heartbeat = "sleeping" -> 1
      [] OTHER -> 0

\* Session.Stop cancels the token and aborts the socket in one step.
DownInv == token => ~socket

\* After Session.Stop every request only goes on to its end, and no write, no
\* recvack and no ping begins: the tasks need a bounded number of steps, those
\* of one not undone by another (WKIM.cs:290-303, 318, 333, 386, 412, 504-508).
Unwinding ==
    token =>
        /\ token' /\ ~connected'
        /\ \A r \in Requests :
              /\ Left(r)' <= Left(r) /\ Left(r)' \in Nat
              /\ Request(r) => Left(r)' < Left(r)
              /\ stage'[r] = "writing" => stage[r] = "writing"
        /\ Beats' <= Beats /\ (PingReturns \/ HeartbeatCancelled => Beats' < Beats)
        /\ receiver' = receiver \/ (receiver \notin Ended /\ receiver' \in Ended)

\* One step of one request: the others stay where they are.
LEMMA RequestUnwinds ==
    ASSUME IInv, DownInv, token, NEW r \in Requests, Request(r)
    PROVE  /\ Left(r)' < Left(r)
           /\ stage'[r] # "writing"
           /\ \A q \in Requests \ {r} : stage'[q] = stage[q]
           /\ socket' => socket
<1> USE DEF IInv, TypeOK, DownInv, Move, Leave, Left, sessionVars, flags
<1>1. CASE Capture(r)
  BY <1>1 DEF Capture
<1>2. CASE Acquire(r)
  BY <1>2 DEF Acquire
<1>3. CASE Register(r)
  BY <1>3 DEF Register
<1>4. CASE BadArgument(r)
  BY <1>4 DEF BadArgument
<1>5. CASE LockWrite(r) \/ Written(r)
  BY <1>5 DEF LockWrite, Written
<1>6. CASE WriteFails(r)
  BY <1>6 DEF WriteFails
<1>7. CASE TimesOut(r)
  <2>1. CASE Expire(r)
    BY <2>1 DEF Expire
  <2>2. CASE WriteExpires(r)
    BY <2>2 DEF WriteExpires
  <2> QED
    BY <1>7, <2>1, <2>2 DEF TimesOut
<1>8. CASE Complete(r)
  BY <1>8 DEF Complete
<1>9. CASE Remove(r)
  BY <1>9 DEF Remove
<1>10. CASE Release(r)
  BY <1>10 DEF Release
<1> QED
  BY <1>1, <1>2, <1>3, <1>4, <1>5, <1>6, <1>7, <1>8, <1>9, <1>10
  DEF Request, Proceed

\* Stop is the only step that cancels the token, and no step opens a socket.
LEMMA DownStep ==
    ASSUME DownInv, [Next]_vars
    PROVE  DownInv'
<1> USE DEF DownInv, requestVars, sessionVars, flags
<1>1. ASSUME NEW r \in Requests, Request(r) PROVE DownInv'
  BY <1>1 DEF Request, Proceed, TimesOut, Capture, BadArgument, Written,
     Acquire, Register, LockWrite, WriteFails, WriteExpires, Expire, Complete,
     Remove, Release
<1>2. CASE ReceiverNext
  BY <1>2 DEF ReceiverNext, Answer, Pong, Recv, AckLock, Acked, Kick, Lost,
     AckFails, Throw, ReceiverReturns
<1>3. CASE HeartbeatNext
  BY <1>3 DEF HeartbeatNext, Tick, PingReturns, HeartbeatCancelled
<1>4. CASE SupervisorNext \/ Disconnect
  BY <1>4 DEF SupervisorNext, Close, StopSession, Stop, Dispose, Disconnect
<1>5. CASE UNCHANGED vars \/ \E r \in Requests : Delivered(r)
  BY <1>5 DEF vars, Delivered
<1> QED
  BY <1>1, <1>2, <1>3, <1>4, <1>5 DEF Next

\* Every step of a stopped session unwinds it.
LEMMA UnwindingStep ==
    ASSUME IInv, LiveInv, DownInv, [Next]_vars
    PROVE  [Unwinding]_vars
<1> SUFFICES ASSUME Next, token
             PROVE  Unwinding
  BY DEF Unwinding
<1>1. ~connected /\ ~socket
  BY DEF LiveInv, DownInv
<1>2. \A r \in Requests : Left(r) \in Nat /\ Left(r)' \in Nat
  BY DEF Left
<1>3. \A r \in Requests : Request(r) => Left(r)' < Left(r)
  BY RequestUnwinds
<1>4. PingReturns \/ HeartbeatCancelled => Beats' < Beats
  BY DEF PingReturns, HeartbeatCancelled, Beats
<1>5. ASSUME token', ~connected', Beats' <= Beats,
             \A r \in Requests :
                stage'[r] = stage[r] \/ (Left(r)' < Left(r) /\ stage'[r] # "writing"),
             \/ receiver' = receiver
             \/ receiver \notin Ended /\ receiver' \in Ended
      PROVE  Unwinding
  <2>1. \A r \in Requests : Left(r)' <= Left(r)
    BY <1>2, <1>5 DEF Left
  <2> QED
    BY <1>2, <1>3, <1>4, <1>5, <2>1 DEF Unwinding
<1>6. Beats \in Nat /\ (heartbeat' = heartbeat => Beats' <= Beats)
  BY DEF Beats
<1> USE DEF requestVars, sessionVars, flags
<1>7. ASSUME NEW r \in Requests, Request(r)
      PROVE  Unwinding
  <2>1. UNCHANGED <<receiver, heartbeat, connected, token, disposed>>
    BY <1>7, RequestKeepsSession
  <2>2. \A q \in Requests :
           stage'[q] = stage[q] \/ (Left(q)' < Left(q) /\ stage'[q] # "writing")
    BY <1>7, RequestUnwinds
  <2> QED
    BY <1>1, <1>5, <1>6, <2>1, <2>2
<1>8. CASE ReceiverNext
  <2>1. UNCHANGED <<stage, heartbeat, connected, token>>
    BY <1>8 DEF ReceiverNext, Answer, Pong, Recv, AckLock, Acked, Kick, Lost,
       AckFails, Throw, ReceiverReturns
  <2>2. receiver' = receiver \/ (receiver \notin Ended /\ receiver' \in Ended)
    BY <1>1, <1>8 DEF ReceiverNext, Answer, Pong, Recv, AckLock, Acked, Kick,
       Lost, AckFails, Throw, ReceiverReturns, Reading, Ended
  <2> QED
    BY <1>1, <1>5, <1>6, <2>1, <2>2
<1>9. CASE HeartbeatNext
  <2>1. PingReturns \/ HeartbeatCancelled
    BY <1>9 DEF HeartbeatNext, Tick
  <2>2. UNCHANGED <<stage, receiver, connected, token>>
    BY <2>1 DEF PingReturns, HeartbeatCancelled
  <2>3. Beats' < Beats /\ Beats' \in Nat
    BY <1>4, <2>1 DEF Beats
  <2> QED
    BY <1>1, <1>5, <1>6, <2>2, <2>3
<1>10. CASE SupervisorNext \/ Disconnect
  <2>1. UNCHANGED <<stage, receiver, heartbeat, connected, token>>
    BY <1>1, <1>10 DEF SupervisorNext, Close, StopSession, Dispose, Disconnect
  <2> QED
    BY <1>1, <1>5, <1>6, <2>1
<1>11. CASE \E r \in Requests : Delivered(r)
  BY <1>1, <1>5, <1>6, <1>11 DEF Delivered
<1> QED
  BY <1>7, <1>8, <1>9, <1>10, <1>11 DEF Next

\* A stopped session unwinds, for every number of sends, pings and permits.
THEOREM Safe_Unwinding == Spec => [][Unwinding]_vars
<1>1. Init => LiveInv /\ DownInv
  BY DEF Init, LiveInv, DownInv
<1>2. IInv /\ LiveInv /\ DownInv /\ [Next]_vars => LiveInv' /\ DownInv'
  BY SessionStep, DownStep
<1>3. IInv /\ LiveInv /\ DownInv /\ [Next]_vars => [Unwinding]_vars
  BY UnwindingStep
<1> QED
  BY <1>1, <1>2, <1>3, Invariance, PTL DEF Spec
=============================================================================
